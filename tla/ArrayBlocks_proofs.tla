------------------------- MODULE ArrayBlocks_proofs -------------------------
(* Proofs about ArrayBlocks, for every size of both spaces, every longest   *)
(* and shortest block and every number of buckets.                          *)
EXTENDS ArrayBlocks, FiniteSetTheorems, WellFoundedInduction, TLAPS

-----------------------------------------------------------------------------
(* The inductive invariant.                                                *)

Links == [Addr -> Addr \cup {NIL}]
Cells == [Addr -> [len : 0 .. MAXARRAYBLOCKSIZE, inuse : BOOLEAN]]
Buckets == 0 .. MAXBUCKETINDEX
Memory == [mem : Cells, fwd : Links, bkwd : Links, bucket : [Buckets -> Addr \cup {NIL}]]

\* B are the first cells of blocks that follow each other from lo to hi.
Tiled(m, B, lo, hi) ==
  /\ B \subseteq lo .. hi - 1
  /\ lo \in B \cup {hi}
  /\ \A b \in B : /\ m[b].len >= MINARRAYBLOCKSIZE
                  /\ b + m[b].len \in B \cup {hi}
                  /\ m[b + m[b].len - 1] = m[b]
  /\ \A b, c \in B : b < c => b + m[b].len <= c
  /\ \A b \in (B \cup {hi}) \ {lo} : \E c \in B : c + m[c].len = b

\* Both spaces, up to o and e: the extension is empty until it is used.
Whole(m, B, o, e) ==
  /\ B \subseteq Addr
  /\ o \in ArraySpace .. ArrayEnd /\ e \in Extension .. ExtensionEnd
  /\ Tiled(m, B \cap (0 .. ArrayEnd), ArraySpace, o)
  /\ Tiled(m, B \ (0 .. ArrayEnd), Extension, e)

\* The links of R are one ring, which h is a member of.
OneRing(fwd, bkwd, R, h) ==
  /\ R = {} => h = NIL
  /\ R # {} => h \in R
  /\ \A b \in R : /\ fwd[b] \in R /\ bkwd[b] \in R
                  /\ bkwd[fwd[b]] = b /\ fwd[bkwd[b]] = b
  /\ \A S \in SUBSET R : S # {} /\ (\A b \in S : fwd[b] \in S) => S = R

OfSize(m, L, i) == {b \in L : BucketIndex(m[b].len) = i}
Rings(s, L) == \A i \in Buckets : OneRing(s.fwd, s.bkwd, OfSize(s.mem, L, i), s.bucket[i])

FreeOf(m, B) == {b \in B : ~m[b].inuse}
UsedOf(m, B) == {b \in B : m[b].inuse}

\* Every free block but those in hand is on its ring.
Sound(s, B, hand, o, e) ==
  /\ s \in Memory
  /\ Whole(s.mem, B, o, e)
  /\ hand \subseteq FreeOf(s.mem, B)
  /\ Rings(s, FreeOf(s.mem, B) \ hand)

Ends == IF ArraySpace2 = NIL THEN Extension ELSE ArrayFrLst
Pointers ==
  /\ ArraySpace2 = NIL => ArrayFrLst2 = NIL
  /\ ArraySpace2 # NIL => ArraySpace2 = Extension /\ ArrayFrLst2 # NIL
  /\ hunking \in BOOLEAN /\ merging \in BOOLEAN

IInv == Pointers /\ Sound(as, Blocks, {}, OldEnd, Ends)

-----------------------------------------------------------------------------
(* Walking.                                                                *)

IsWalk(at, step, first, n) ==
  at = [k \in 0 .. n |-> IF k = 0 THEN first ELSE step[at[k - 1]]]

\* A nonempty set of natural numbers has a least member.
LEMMA LeastMember ==
  ASSUME NEW S \in SUBSET Nat, S # {}
  PROVE  \E x \in S : \A y \in S : x <= y
<1>1. PICK x \in S : \A y \in S : ~(<<y, x>> \in OpToRel(<, Nat))
  BY NatLessThanWellFounded, WFMin
<1>2. ASSUME NEW y \in S PROVE x <= y
  <2>1. ~(y < x)
    BY <1>1 DEF OpToRel
  <2>2. QED
    BY <2>1
<1>3. QED
  BY <1>1, <1>2

\* There are walks of every length.
LEMMA WalkExists ==
  ASSUME NEW step, NEW first, NEW n \in Nat
  PROVE  \E at : IsWalk(at, step, first, n)
<1> DEFINE Short == {k \in Nat : ~ \E at : IsWalk(at, step, first, k)}
<1>1. SUFFICES ASSUME Short # {} PROVE FALSE
  BY DEF Short
<1>2. PICK k \in Short : \A y \in Short : k <= y
  <2>1. Short \in SUBSET Nat
    BY DEF Short
  <2>2. QED
    BY <1>1, <2>1, LeastMember
<1>3. k \in Nat /\ ~ \E at : IsWalk(at, step, first, k)
  BY <1>2
<1>4. CASE k = 0
  <2> DEFINE at == [j \in 0 .. 0 |-> first]
  <2>1. IsWalk(at, step, first, 0)
    BY DEF IsWalk
  <2>2. QED
    BY <1>3, <1>4, <2>1
<1>5. CASE k # 0
  <2>1. k - 1 \in Nat /\ k - 1 \notin Short
    BY <1>2, <1>3, <1>5
  <2>2. PICK at : IsWalk(at, step, first, k - 1)
    BY <2>1
  <2> DEFINE on == [j \in 0 .. k |-> IF j = 0 THEN first ELSE step[at[j - 1]]]
  <2>3. \A j \in 0 .. k - 1 : at[j] = on[j]
    BY <1>3, <2>1, <2>2 DEF IsWalk
  <2>4. on = [j \in 0 .. k |-> IF j = 0 THEN first ELSE step[on[j - 1]]]
    <3>1. ASSUME NEW j \in 0 .. k, j # 0 PROVE step[at[j - 1]] = step[on[j - 1]]
      <4>1. j - 1 \in 0 .. k - 1
        BY <1>3, <3>1
      <4>2. at[j - 1] = on[j - 1]
        BY <4>1, <2>3
      <4>3. QED
        BY <4>2
    <3>2. QED
      BY <3>1
  <2>5. QED
    BY <1>3, <2>4 DEF IsWalk
<1>6. QED
  BY <1>4, <1>5

\* What a walk within a set visits.
StaysIn(step, D) == \A d \in D : step[d] \in D
Visits(at, D, step, first, n) ==
  /\ at \in [0 .. n -> D]
  /\ at[0] = first
  /\ \A k \in 1 .. n : at[k] = step[at[k - 1]]
  /\ Walk(step, first, n) = {at[k] : k \in 0 .. n}

\* A walk in a set its step stays in visits one place at a time.
LEMMA WalkVisits ==
  ASSUME NEW D, NEW step, NEW first \in D, NEW n \in Nat, StaysIn(step, D)
  PROVE  \E at : Visits(at, D, step, first, n)
<1> DEFINE at == CHOOSE a : a = [k \in 0 .. n |-> IF k = 0 THEN first ELSE step[a[k - 1]]]
<1>1. at = [k \in 0 .. n |-> IF k = 0 THEN first ELSE step[at[k - 1]]]
  BY WalkExists, SMTT(30) DEF IsWalk
<1>2. Walk(step, first, n) = {at[k] : k \in 0 .. n}
  BY DEF Walk
<1> HIDE DEF at
<1>3. at[0] = first /\ \A k \in 1 .. n : at[k] = step[at[k - 1]]
  BY <1>1
<1> DEFINE Out == {k \in 0 .. n : at[k] \notin D}
<1>4. Out = {}
  <2>1. SUFFICES ASSUME Out # {} PROVE FALSE
    OBVIOUS
  <2>2. Out \in SUBSET Nat
    OBVIOUS
  <2>3. PICK k \in Out : \A y \in Out : k <= y
    BY <2>1, <2>2, LeastMember
  <2>4. k # 0
    BY <1>3
  <2>5. k - 1 \in 0 .. n /\ k - 1 \notin Out
    BY <2>3, <2>4
  <2>6. at[k] = step[at[k - 1]] /\ at[k - 1] \in D
    BY <1>3, <2>4, <2>5
  <2>7. QED
    BY <2>3, <2>6 DEF StaysIn
<1>5. at \in [0 .. n -> D]
  <2>1. \A k \in 0 .. n : at[k] \in D
    BY <1>4
  <2>2. QED
    BY <1>1, <2>1
<1>6. QED
  BY <1>2, <1>3, <1>5 DEF Visits

-----------------------------------------------------------------------------
(* What the walks of the model find.                                       *)

\* What the assumption says of the constants, one by one.
LEMMA Constants ==
  /\ ArraySpace \in Nat \ {0} /\ ArrayEnd \in Nat /\ Extension \in Nat /\ ExtensionEnd \in Nat
  /\ ArraySpace < ArrayEnd /\ ArrayEnd < Extension /\ Extension < ExtensionEnd
  /\ MINARRAYBLOCKSIZE \in Nat /\ HunkMin \in Nat /\ MAXARRAYBLOCKSIZE \in Nat /\ MAXBUCKETINDEX \in Nat
  /\ 2 <= MINARRAYBLOCKSIZE /\ MINARRAYBLOCKSIZE <= HunkMin /\ HunkMin <= MAXARRAYBLOCKSIZE
  /\ CELLSPER_PAGE \in 1 .. MAXARRAYBLOCKSIZE
  /\ NIL \notin Addr /\ NIL \notin ArraySpace .. ExtensionEnd
  /\ Addr \subseteq Nat /\ Addr = ArraySpace .. ExtensionEnd - 1
BY ArrayAssumption DEF Addr

\* Blocks with what their types say.
Laid(m, B, lo, hi) ==
  m \in Cells /\ B \subseteq Addr /\ lo \in Nat /\ hi \in Nat /\ hi <= ExtensionEnd /\ Tiled(m, B, lo, hi)
Fits(m, B, lo, hi) ==
  /\ lo <= hi /\ hi \notin B
  /\ \A b \in B : /\ b \in lo .. hi - 1 /\ b \in Nat /\ b \in Addr
                  /\ m[b].len \in MINARRAYBLOCKSIZE .. MAXARRAYBLOCKSIZE /\ m[b].len \in Nat
                  /\ m[b].inuse \in BOOLEAN
                  /\ b + m[b].len \in B \cup {hi} /\ b + m[b].len <= hi

\* Consecutive blocks lie in the range they tile.
LEMMA TiledFits ==
  ASSUME NEW m, NEW B, NEW lo, NEW hi, Laid(m, B, lo, hi)
  PROVE  Fits(m, B, lo, hi)
<1>1. m \in Cells /\ B \subseteq Addr /\ lo \in Nat /\ hi \in Nat /\ Tiled(m, B, lo, hi)
  BY DEF Laid
<1>2. ASSUME NEW b \in B
      PROVE  /\ b \in lo .. hi - 1 /\ b \in Nat /\ b \in Addr
             /\ m[b].len \in MINARRAYBLOCKSIZE .. MAXARRAYBLOCKSIZE /\ m[b].len \in Nat
             /\ m[b].inuse \in BOOLEAN
             /\ b + m[b].len \in B \cup {hi} /\ b + m[b].len <= hi
  <2>1. b \in lo .. hi - 1 /\ m[b].len >= MINARRAYBLOCKSIZE /\ b + m[b].len \in B \cup {hi} /\ b \in Addr
    BY <1>1 DEF Tiled
  <2>2. m[b] \in [len : 0 .. MAXARRAYBLOCKSIZE, inuse : BOOLEAN]
    BY <1>1, <2>1 DEF Cells
  <2>3. m[b].len \in 0 .. MAXARRAYBLOCKSIZE /\ m[b].inuse \in BOOLEAN
    BY <2>2
  <2>4. b + m[b].len <= hi
    <3>1. B \subseteq lo .. hi - 1
      BY <1>1 DEF Tiled
    <3>2. CASE b + m[b].len \in B
      <4> DEFINE next == b + m[b].len
      <4>1. next \in lo .. hi - 1
        BY <3>1, <3>2
      <4> HIDE DEF next
      <4>2. next <= hi
        BY <1>1, <4>1
      <4>3. QED
        BY <4>2 DEF next
    <3>3. CASE b + m[b].len = hi
      BY <1>1, <3>3
    <3>4. QED
      BY <2>1, <3>2, <3>3
  <2>5. QED
    BY <1>1, <2>1, <2>3, <2>4, Constants
<1>3. lo <= hi /\ hi \notin B
  BY <1>1 DEF Tiled
<1>4. QED
  BY <1>2, <1>3 DEF Fits

\* The walk through the lengths visits every block.
LEMMA StartsTiled ==
  ASSUME NEW s, NEW B, NEW lo, NEW hi, Laid(s.mem, B, lo, hi)
  PROVE  Starts(s, lo, hi) = B \cup {hi}
<1> DEFINE m == s.mem
           D == B \cup {hi}
           n == (hi - lo) \div MINARRAYBLOCKSIZE
           step == [x \in lo .. hi + MAXARRAYBLOCKSIZE |-> IF x < hi THEN x + m[x].len ELSE x]
<1>1. Laid(m, B, lo, hi)
  OBVIOUS
<1>2. Tiled(m, B, lo, hi) /\ lo \in Nat /\ hi \in Nat
  BY DEF Laid
<1>3. Starts(s, lo, hi) = Walk(step, lo, n)
  BY DEF Starts
<1> HIDE DEF m
<1>4. Fits(m, B, lo, hi)
  BY <1>1, TiledFits
<1>5. n \in Nat /\ (n + 1) * MINARRAYBLOCKSIZE > hi - lo
  BY <1>2, <1>4, Constants DEF Fits
<1>6. lo \in D /\ D \subseteq lo .. hi /\ D \subseteq Nat
  BY <1>2, <1>4, Constants DEF Tiled, Fits
<1>7. ASSUME NEW b \in B PROVE step[b] = b + m[b].len
  BY <1>2, <1>4, <1>7, Constants DEF Fits
<1>8. step[hi] = hi
  BY <1>2, <1>4, Constants DEF Fits
<1>9. StaysIn(step, D)
  BY <1>2, <1>4, <1>7, <1>8, Constants DEF Fits, StaysIn
<1> HIDE DEF D, n, step
<1>10. PICK at : Visits(at, D, step, lo, n)
  BY <1>5, <1>6, <1>9, WalkVisits
<1>11.  /\ at \in [0 .. n -> D] /\ at[0] = lo
        /\ \A k \in 1 .. n : at[k] = step[at[k - 1]]
        /\ Walk(step, lo, n) = {at[k] : k \in 0 .. n}
  BY <1>10 DEF Visits
<1> DEFINE Near == {k \in 0 .. n : at[k] # hi /\ at[k] < lo + k * MINARRAYBLOCKSIZE}
<1>12. Near = {}
  <2>1. SUFFICES ASSUME Near # {} PROVE FALSE
    OBVIOUS
  <2>2. Near \in SUBSET Nat
    BY <1>5
  <2>3. PICK k \in Near : \A y \in Near : k <= y
    BY <2>1, <2>2, LeastMember
  <2>4. k \in 1 .. n
    BY <1>2, <1>5, <1>11, Constants
  <2>5. at[k] = step[at[k - 1]] /\ k - 1 \in 0 .. n /\ at[k - 1] \in D
    BY <1>5, <1>11, <2>4
  <2>6. at[k - 1] # hi
    BY <1>8, <2>5
  <2>7. at[k - 1] >= lo + (k - 1) * MINARRAYBLOCKSIZE
    <3>1. k - 1 \notin Near
      BY <2>3, <2>4, <1>5
    <3>2. at[k - 1] \in Nat
      BY <2>5, <1>6
    <3> HIDE DEF Near
    <3>3. (k - 1) * MINARRAYBLOCKSIZE \in Nat
      BY <2>5, <1>5, Constants
    <3>4. QED
      BY <1>2, <2>5, <2>6, <3>1, <3>2, <3>3 DEF Near
  <2>8. at[k - 1] \in B
    BY <2>5, <2>6 DEF D
  <2>9. at[k] = at[k - 1] + m[at[k - 1]].len /\ m[at[k - 1]].len \in Nat
        /\ m[at[k - 1]].len >= MINARRAYBLOCKSIZE /\ at[k - 1] \in Nat
    BY <1>4, <1>7, <2>5, <2>8, Constants DEF Fits
  <2>10. (k - 1) * MINARRAYBLOCKSIZE + MINARRAYBLOCKSIZE = k * MINARRAYBLOCKSIZE
    BY <2>4, <1>5, Constants
  <2>11. (k - 1) * MINARRAYBLOCKSIZE \in Nat /\ k * MINARRAYBLOCKSIZE \in Nat
    BY <2>4, <1>5, Constants
  <2>12. at[k] >= lo + k * MINARRAYBLOCKSIZE
    <3> DEFINE before == (k - 1) * MINARRAYBLOCKSIZE
               now == k * MINARRAYBLOCKSIZE
    <3>1. before \in Nat /\ now \in Nat /\ before + MINARRAYBLOCKSIZE = now /\ at[k - 1] >= lo + before
      BY <2>7, <2>10, <2>11
    <3> HIDE DEF before, now
    <3> DEFINE x == at[k - 1]
               d == m[x].len
               y == at[k]
    <3>2. y = x + d /\ d \in Nat /\ d >= MINARRAYBLOCKSIZE /\ x \in Nat /\ x >= lo + before /\ lo \in Nat
      BY <2>9, <3>1, <1>2
    <3> HIDE DEF x, d, y
    <3>3. y >= lo + now
      BY <3>1, <3>2, Constants
    <3>4. QED
      BY <3>3 DEF now, y
  <2>13. QED
    BY <2>3, <2>12, <2>11, <2>9, <1>2, Constants
<1>13. at[n] = hi
  <2>1. SUFFICES ASSUME at[n] # hi PROVE FALSE
    OBVIOUS
  <2>2. n \in 0 .. n /\ n \notin Near /\ at[n] \in D
    BY <1>5, <1>11, <1>12
  <2>3. at[n] \in B
    BY <2>1, <2>2 DEF D
  <2>4. at[n] \in Nat /\ at[n] + m[at[n]].len <= hi /\ m[at[n]].len \in Nat /\ m[at[n]].len >= MINARRAYBLOCKSIZE
    BY <2>3, <1>4, <1>6, Constants DEF Fits
  <2>5. n * MINARRAYBLOCKSIZE + MINARRAYBLOCKSIZE = (n + 1) * MINARRAYBLOCKSIZE /\ n * MINARRAYBLOCKSIZE \in Nat
    BY <1>5, Constants
  <2>6. at[n] >= lo + n * MINARRAYBLOCKSIZE
    BY <2>1, <2>2, <2>4, <2>5, <1>2
  <2>7. QED
    BY <2>4, <2>5, <2>6, <1>2, <1>5, Constants
<1> DEFINE Missed == {b \in D : b \notin {at[k] : k \in 0 .. n}}
<1>14. Missed = {}
  <2>1. SUFFICES ASSUME Missed # {} PROVE FALSE
    OBVIOUS
  <2>2. Missed \in SUBSET Nat
    BY <1>6
  <2>3. PICK b \in Missed : \A y \in Missed : b <= y
    BY <2>1, <2>2, LeastMember
  <2>4. b \in D /\ b # lo
    BY <1>5, <1>11
  <2>5. PICK c \in B : c + m[c].len = b
    BY <1>2, <2>4 DEF Tiled, D
  <2>6. c \in Nat /\ m[c].len \in Nat /\ m[c].len > 0 /\ c \in D /\ c # hi
    <3>1. c \in Nat /\ m[c].len \in Nat /\ m[c].len \in MINARRAYBLOCKSIZE .. MAXARRAYBLOCKSIZE /\ c # hi
      BY <1>4 DEF Fits
    <3>2. QED
      BY <3>1, Constants DEF D
  <2>7. c \notin Missed
    BY <2>3, <2>5, <2>6
  <2>8. PICK k \in 0 .. n : c = at[k]
    BY <2>6, <2>7
  <2>9. k # n
    BY <2>6, <2>8, <1>13
  <2>10. k + 1 \in 1 .. n /\ (k + 1) - 1 = k
    BY <2>9, <1>5
  <2>11. at[k + 1] = step[at[k]]
    BY <2>10, <1>11
  <2>12. at[k + 1] = b /\ k + 1 \in 0 .. n
    BY <2>5, <2>8, <2>10, <2>11, <1>7
  <2>13. QED
    BY <2>3, <2>12
<1>15. \A k \in 0 .. n : at[k] \in D
  BY <1>11
<1>16. QED
  <2> DEFINE W == {at[k] : k \in 0 .. n}
  <2>1. W \subseteq D
    BY <1>15
  <2>2. D \subseteq W
    BY <1>14
  <2>3. Starts(s, lo, hi) = W
    BY <1>3, <1>11
  <2>4. QED
    BY <2>1, <2>2, <2>3 DEF D

\* What Blocks is, of a memory, the two ends and the start of the extension.
BlocksFrom(s, o, second, fr) ==
  (Starts(s, ArraySpace, o) \ {o}) \cup (IF second = NIL THEN {} ELSE Starts(s, second, fr) \ {fr})

EndsAgree(second, fr, e) == IF second = NIL THEN e = Extension ELSE second = Extension /\ fr = e

\* The blocks of both spaces, taken apart.
LEMMA WholeParts ==
  ASSUME NEW m, NEW B, NEW o, NEW e, m \in Cells, Whole(m, B, o, e)
  PROVE  /\ Laid(m, B \cap (0 .. ArrayEnd), ArraySpace, o) /\ Laid(m, B \ (0 .. ArrayEnd), Extension, e)
         /\ B \subseteq Addr /\ o \in Nat /\ e \in Nat
         /\ ArraySpace <= o /\ o <= ArrayEnd /\ Extension <= e /\ e <= ExtensionEnd
<1>1. B \subseteq Addr /\ o \in ArraySpace .. ArrayEnd /\ e \in Extension .. ExtensionEnd
      /\ Tiled(m, B \cap (0 .. ArrayEnd), ArraySpace, o) /\ Tiled(m, B \ (0 .. ArrayEnd), Extension, e)
  BY DEF Whole
<1>2. o \in Nat /\ e \in Nat /\ ArraySpace <= o /\ o <= ArrayEnd /\ Extension <= e /\ e <= ExtensionEnd
  BY <1>1, Constants
<1>3. B \cap (0 .. ArrayEnd) \subseteq Addr /\ B \ (0 .. ArrayEnd) \subseteq Addr
  BY <1>1
<1>4. Laid(m, B \cap (0 .. ArrayEnd), ArraySpace, o) /\ Laid(m, B \ (0 .. ArrayEnd), Extension, e)
  BY <1>1, <1>2, <1>3, Constants DEF Laid
<1>5. QED
  BY <1>1, <1>2, <1>4

\* What the model walks over from the start of each space is the tiling.
LEMMA BlocksFound ==
  ASSUME NEW s, NEW B, NEW o, NEW e, NEW second, NEW fr, s.mem \in Cells,
         Whole(s.mem, B, o, e), EndsAgree(second, fr, e)
  PROVE  BlocksFrom(s, o, second, fr) = B
<1> DEFINE m == s.mem
           low == B \cap (0 .. ArrayEnd)
           high == B \ (0 .. ArrayEnd)
<1>1. Laid(m, low, ArraySpace, o) /\ Laid(m, high, Extension, e)
  BY WholeParts
<1>2. Fits(m, low, ArraySpace, o) /\ Fits(m, high, Extension, e)
  <2> HIDE DEF m, low, high
  <2>1. QED
    BY <1>1, TiledFits
<1>3. Starts(s, ArraySpace, o) = low \cup {o} /\ Starts(s, Extension, e) = high \cup {e}
  <2> HIDE DEF low, high
  <2>1. QED
    BY <1>1, StartsTiled
<1>4. o \notin low /\ e \notin high
  BY <1>2 DEF Fits
<1>5. CASE second = NIL
  <2>1. e = Extension
    BY <1>5 DEF EndsAgree
  <2>2. high = {}
    <3> SUFFICES ASSUME NEW b \in high PROVE FALSE
      OBVIOUS
    <3> HIDE DEF high, m
    <3>1. b \in Extension .. Extension - 1
      BY <1>2, <2>1 DEF Fits
    <3>2. QED
      BY <3>1, Constants
  <2>3. BlocksFrom(s, o, second, fr) = low
    BY <1>3, <1>4, <1>5 DEF BlocksFrom
  <2>4. QED
    BY <2>2, <2>3
<1>6. CASE second # NIL
  <2>1. second = Extension /\ fr = e
    BY <1>6 DEF EndsAgree
  <2>2. BlocksFrom(s, o, second, fr) = low \cup high
    <3> HIDE DEF low, high
    <3>1. QED
      BY <1>3, <1>4, <1>6, <2>1 DEF BlocksFrom
  <2>3. QED
    BY <2>2
<1>7. QED
  BY <1>5, <1>6

\* The walk through the links visits the ring, if it is as long as the ring.
LEMMA RingFound ==
  ASSUME NEW fwd, NEW bkwd, NEW R, NEW h, NEW n \in Nat, OneRing(fwd, bkwd, R, h), NIL \notin R,
         IsFiniteSet(R), Cardinality(R) <= n
  PROVE  (IF h = NIL THEN {} ELSE Walk(fwd, h, n)) = R
<1>1. CASE R = {}
  BY <1>1 DEF OneRing
<1>2. CASE R # {}
  <2>1. h \in R /\ h # NIL /\ StaysIn(fwd, R)
    BY <1>2 DEF OneRing, StaysIn
  <2>2. PICK at : Visits(at, R, fwd, h, n)
    BY <2>1, WalkVisits
  <2>3. /\ at \in [0 .. n -> R] /\ at[0] = h
        /\ \A k \in 1 .. n : at[k] = fwd[at[k - 1]]
        /\ Walk(fwd, h, n) = {at[k] : k \in 0 .. n}
    BY <2>2 DEF Visits
  <2>4. \E j, k \in 0 .. n : j # k /\ at[j] = at[k]
    <3>1. IsFiniteSet(0 .. n) /\ Cardinality(0 .. n) = n + 1
      BY FS_Interval
    <3>2. Cardinality(R) \in Nat
      BY FS_CardinalityType
    <3>3. Cardinality(R) < Cardinality(0 .. n)
      BY <3>1, <3>2
    <3>4. QED
      BY <2>3, <3>1, <3>3, FS_PigeonHole
  <2> DEFINE Twice == {j \in 0 .. n : \E k \in 0 .. n : j < k /\ at[j] = at[k]}
  <2>5. Twice # {} /\ Twice \in SUBSET Nat
    BY <2>4
  <2>6. PICK j \in Twice : \A y \in Twice : j <= y
    BY <2>5, LeastMember
  <2>7. PICK k \in 0 .. n : j < k /\ at[j] = at[k]
    BY <2>6
  <2>8. j = 0
    <3>1. SUFFICES ASSUME j # 0 PROVE FALSE
      OBVIOUS
    <3>2. j \in 1 .. n /\ k \in 1 .. n /\ j - 1 \in 0 .. n /\ k - 1 \in 0 .. n /\ j - 1 < k - 1
      BY <2>6, <2>7, <3>1
    <3>3. at[j] = fwd[at[j - 1]] /\ at[k] = fwd[at[k - 1]]
      BY <2>3, <3>2
    <3>4. at[j - 1] \in R /\ at[k - 1] \in R
      BY <2>3, <3>2
    <3>5. at[j - 1] = at[k - 1]
      <4>1. bkwd[fwd[at[j - 1]]] = at[j - 1] /\ bkwd[fwd[at[k - 1]]] = at[k - 1]
        BY <3>4 DEF OneRing
      <4>2. fwd[at[j - 1]] = fwd[at[k - 1]]
        BY <2>7, <3>3
      <4>3. QED
        BY <4>1, <4>2
    <3>6. j - 1 \in Twice
      BY <3>2, <3>5
    <3>7. QED
      BY <2>6, <3>2, <3>6
  <2> DEFINE S == {at[i] : i \in 0 .. k - 1}
  <2>9. S \in SUBSET R /\ S # {}
    BY <2>3, <2>7, <2>8
  <2>10. ASSUME NEW b \in S PROVE fwd[b] \in S
    <3>1. PICK i \in 0 .. k - 1 : b = at[i]
      OBVIOUS
    <3>2. i + 1 \in 1 .. n /\ (i + 1) - 1 = i
      BY <2>7, <3>1
    <3>3. fwd[b] = at[i + 1]
      BY <2>3, <3>1, <3>2
    <3>4. CASE i + 1 = k
      BY <2>7, <2>8, <3>3, <3>4
    <3>5. CASE i + 1 # k
      <4>1. i + 1 \in 0 .. k - 1
        BY <2>7, <3>1, <3>5
      <4>2. QED
        BY <3>3, <4>1
    <3>6. QED
      BY <3>4, <3>5
  <2>11. S = R
    BY <2>9, <2>10 DEF OneRing
  <2>12. {at[i] : i \in 0 .. n} = R
    <3>1. S \subseteq {at[i] : i \in 0 .. n}
      BY <2>7
    <3>2. QED
      BY <2>3, <2>11, <3>1
  <2>13. QED
    BY <2>1, <2>3, <2>12
<1>3. QED
  BY <1>1, <1>2

-----------------------------------------------------------------------------
(* Blocks are replaced and added.                                          *)

SameOutside(m, n, l, h) == \A x \in Addr : x \notin l .. h - 1 => n[x] = m[x]

\* What Laid and Fits say, block by block.
LEMMA LaidFacts ==
  ASSUME NEW m, NEW B, NEW lo, NEW hi, Laid(m, B, lo, hi)
  PROVE  /\ lo \in Nat /\ hi \in Nat /\ lo <= hi /\ hi \notin B /\ lo \in B \cup {hi}
         /\ \A b \in B : /\ b \in Nat /\ lo <= b /\ b < hi /\ b \in Addr
                         /\ m[b].len \in Nat /\ m[b].len >= MINARRAYBLOCKSIZE /\ m[b].len >= 2
                         /\ m[b].len <= MAXARRAYBLOCKSIZE
                         /\ b + m[b].len \in B \cup {hi} /\ b + m[b].len <= hi
                         /\ m[b + m[b].len - 1] = m[b] /\ b + m[b].len - 1 \in Addr
         /\ \A b, c \in B : b < c => b + m[b].len <= c
         /\ \A b \in (B \cup {hi}) \ {lo} : \E c \in B : c + m[c].len = b
<1>1. Fits(m, B, lo, hi) /\ Tiled(m, B, lo, hi) /\ lo \in Nat /\ hi \in Nat /\ hi <= ExtensionEnd
  BY TiledFits DEF Laid
<1>2. ASSUME NEW b \in B
      PROVE  /\ b \in Nat /\ lo <= b /\ b < hi /\ b \in Addr
             /\ m[b].len \in Nat /\ m[b].len >= MINARRAYBLOCKSIZE /\ m[b].len >= 2
             /\ m[b].len <= MAXARRAYBLOCKSIZE
             /\ b + m[b].len \in B \cup {hi} /\ b + m[b].len <= hi
             /\ m[b + m[b].len - 1] = m[b] /\ b + m[b].len - 1 \in Addr
  <2>1. b \in lo .. hi - 1 /\ b \in Nat /\ b \in Addr
        /\ m[b].len \in MINARRAYBLOCKSIZE .. MAXARRAYBLOCKSIZE /\ m[b].len \in Nat
        /\ b + m[b].len \in B \cup {hi} /\ b + m[b].len <= hi
    BY <1>1 DEF Fits
  <2>2. m[b + m[b].len - 1] = m[b]
    BY <1>1 DEF Tiled
  <2>3. m[b].len >= MINARRAYBLOCKSIZE /\ m[b].len >= 2 /\ m[b].len <= MAXARRAYBLOCKSIZE
    BY <2>1, Constants
  <2>4. lo <= b /\ b < hi /\ b + m[b].len - 1 \in Addr
    <3> DEFINE k == m[b].len
    <3>1. /\ b \in lo .. hi - 1 /\ b \in Addr /\ k \in Nat /\ k >= 2 /\ b + k <= hi
          /\ lo \in Nat /\ hi \in Nat /\ hi <= ExtensionEnd
      BY <1>1, <2>1, <2>3
    <3> HIDE DEF k
    <3>2. lo <= b /\ b < hi /\ b + k - 1 \in Addr
      BY <3>1, Constants
    <3>3. QED
      BY <3>2 DEF k
  <2>5. QED
    BY <2>1, <2>2, <2>3, <2>4
<1>3. lo <= hi /\ hi \notin B
  BY <1>1 DEF Fits
<1>4. lo \in B \cup {hi} /\ (\A b, c \in B : b < c => b + m[b].len <= c)
      /\ \A b \in (B \cup {hi}) \ {lo} : \E c \in B : c + m[c].len = b
  BY <1>1 DEF Tiled
<1>5. QED
  BY <1>1, <1>2, <1>3, <1>4

\* Between two boundaries of blocks other blocks take their place.
LEMMA Retiled ==
  ASSUME NEW m, NEW n, NEW B, NEW C, NEW lo, NEW hi, NEW l, NEW h, Laid(m, B, lo, hi), Laid(n, C, l, h),
         l \in B, h \in B \cup {hi}, l < h, SameOutside(m, n, l, h)
  PROVE  Laid(n, (B \ (l .. h - 1)) \cup C, lo, hi)
<1> DEFINE K == B \ (l .. h - 1)
           N == K \cup C
<1>1. /\ lo \in Nat /\ hi \in Nat /\ lo <= hi /\ hi \notin B /\ lo \in B \cup {hi}
      /\ \A b \in B : /\ b \in Nat /\ lo <= b /\ b < hi /\ b \in Addr
                      /\ m[b].len \in Nat /\ m[b].len >= MINARRAYBLOCKSIZE /\ m[b].len >= 2
                      /\ b + m[b].len \in B \cup {hi} /\ b + m[b].len <= hi
                      /\ m[b + m[b].len - 1] = m[b] /\ b + m[b].len - 1 \in Addr
      /\ \A b, c \in B : b < c => b + m[b].len <= c
      /\ \A b \in (B \cup {hi}) \ {lo} : \E c \in B : c + m[c].len = b
  BY LaidFacts
<1>2. /\ l \in Nat /\ h \in Nat /\ l <= h /\ h \notin C /\ l \in C \cup {h}
      /\ \A b \in C : /\ b \in Nat /\ l <= b /\ b < h /\ b \in Addr
                      /\ n[b].len \in Nat /\ n[b].len >= MINARRAYBLOCKSIZE /\ n[b].len >= 2
                      /\ b + n[b].len \in C \cup {h} /\ b + n[b].len <= h
                      /\ n[b + n[b].len - 1] = n[b] /\ b + n[b].len - 1 \in Addr
      /\ \A b, c \in C : b < c => b + n[b].len <= c
      /\ \A b \in (C \cup {h}) \ {l} : \E c \in C : c + n[c].len = b
  <2> HIDE DEF K, N
  <2>1. QED
    BY LaidFacts
<1>3. l \in C
  BY <1>2
<1>4. ASSUME NEW b \in K PROVE b \in B /\ (b < l \/ b >= h) /\ n[b] = m[b]
  BY <1>1, <1>2, <1>4 DEF SameOutside
<1>5. h \in K \cup {hi} /\ h <= hi
  BY <1>1, <1>2
<1>6. \A b \in C : b \in lo .. hi - 1 /\ b \in Addr
  BY <1>1, <1>2, <1>5
<1>7. N \subseteq lo .. hi - 1 /\ N \subseteq Addr
  <2>1. ASSUME NEW b \in K PROVE b \in lo .. hi - 1 /\ b \in Addr
    <3>1. b \in Nat /\ lo <= b /\ b < hi /\ b \in Addr
      BY <1>1, <1>4
    <3>2. QED
      BY <1>1, <3>1
  <2>2. QED
    BY <1>6, <2>1
<1>8. lo \in N \cup {hi}
  BY <1>1, <1>2, <1>3
<1>9. ASSUME NEW b \in N
      PROVE  /\ n[b].len >= MINARRAYBLOCKSIZE
             /\ b + n[b].len \in N \cup {hi}
             /\ n[b + n[b].len - 1] = n[b]
  <2>1. CASE b \in C
    BY <1>2, <1>5, <2>1
  <2>2. CASE b \in K /\ b < l
    <3>1. b \in B /\ n[b] = m[b]
      BY <1>4, <2>2
    <3>2. b + m[b].len <= l /\ b + m[b].len \in B
      <4>1. b + m[b].len <= l
        BY <1>1, <2>2, <3>1
      <4>2. b + m[b].len # hi
        BY <1>1, <1>2, <3>1, <4>1
      <4>3. QED
        BY <1>1, <3>1, <4>1, <4>2
    <3>3. b + m[b].len \in N
      <4> DEFINE next == b + m[b].len
      <4>1. next \in B /\ next <= l /\ next \in Nat
        BY <1>1, <3>1, <3>2
      <4> HIDE DEF next
      <4>2. next \in N
        BY <1>2, <1>3, <4>1
      <4>3. QED
        BY <4>2 DEF next
    <3>4. n[b + m[b].len - 1] = m[b + m[b].len - 1]
      <4> DEFINE tr == b + m[b].len - 1
      <4>1. tr \in Addr /\ tr < l
        BY <1>1, <1>2, <3>1, <3>2
      <4> HIDE DEF tr
      <4>2. tr \in Addr /\ tr \notin l .. h - 1
        BY <4>1, <1>2
      <4>3. n[tr] = m[tr]
        BY <4>2 DEF SameOutside
      <4>4. QED
        BY <4>3 DEF tr
    <3>5. QED
      BY <1>1, <3>1, <3>3, <3>4
  <2>3. CASE b \in K /\ b >= h
    <3>1. b \in B /\ n[b] = m[b] /\ b \in Addr /\ b \in Nat
      BY <1>1, <1>4, <2>3
    <3>2. b + m[b].len \in N \cup {hi}
      <4> DEFINE next == b + m[b].len
      <4>1. next \in B \cup {hi} /\ next >= h /\ next \in Nat
        BY <1>1, <1>2, <2>3, <3>1
      <4> HIDE DEF next
      <4>2. next \in N \cup {hi}
        BY <1>2, <4>1
      <4>3. QED
        BY <4>2 DEF next
    <3>3. n[b + m[b].len - 1] = m[b + m[b].len - 1]
      <4> DEFINE tr == b + m[b].len - 1
      <4>1. tr \in Addr /\ tr >= h
        BY <1>1, <1>2, <2>3, <3>1
      <4> HIDE DEF tr
      <4>2. tr \in Addr /\ tr \notin l .. h - 1
        BY <4>1, <1>2
      <4>3. n[tr] = m[tr]
        BY <4>2 DEF SameOutside
      <4>4. QED
        BY <4>3 DEF tr
    <3>4. QED
      BY <1>1, <3>1, <3>2, <3>3
  <2>4. QED
    BY <1>4, <2>1, <2>2, <2>3
<1>10. ASSUME NEW b \in N, NEW c \in N, b < c PROVE b + n[b].len <= c
  <2>1. CASE b \in C /\ c \in C
    BY <1>2, <1>10, <2>1
  <2>2. CASE b \in K /\ c \in K
    BY <1>1, <1>4, <1>10, <2>2
  <2>3. CASE b \in K /\ c \in C
    <3>1. b \in B /\ n[b] = m[b] /\ b < l
      BY <1>1, <1>2, <1>4, <1>10, <2>3
    <3>2. b + m[b].len <= l
      BY <1>1, <3>1
    <3>3. QED
      BY <1>1, <1>2, <2>3, <3>1, <3>2
  <2>4. CASE b \in C /\ c \in K
    <3>1. c \in B /\ c >= h
      BY <1>1, <1>2, <1>4, <1>10, <2>4
    <3>2. QED
      BY <1>1, <1>2, <2>4, <3>1
  <2>5. QED
    BY <2>1, <2>2, <2>3, <2>4
<1>11. ASSUME NEW b \in (N \cup {hi}) \ {lo} PROVE \E c \in N : c + n[c].len = b
  <2>1. CASE b \in C /\ b # l
    BY <1>2, <2>1
  <2>2. CASE b = h
    BY <1>2, <2>2
  <2>3. CASE b \in B \cup {hi} /\ b <= l
    <3>1. PICK c \in B : c + m[c].len = b
      BY <1>1, <2>3
    <3>2. c < l /\ c \in K
      BY <1>1, <1>2, <2>3, <3>1
    <3>3. n[c] = m[c]
      BY <1>4, <3>2
    <3>4. QED
      BY <3>1, <3>2, <3>3
  <2>4. CASE b \in B \cup {hi} /\ b > h
    <3>1. PICK c \in B : c + m[c].len = b
      BY <1>1, <1>2, <2>4
    <3>2. h \in B
      BY <1>1, <1>2, <2>4
    <3>3. c >= h
      BY <1>1, <1>2, <2>4, <3>1, <3>2
    <3>4. c \in K /\ n[c] = m[c]
      BY <1>1, <1>2, <1>4, <3>3
    <3>5. QED
      BY <3>1, <3>4
  <2>5. b \in C \/ (b \in B \cup {hi} /\ (b <= l \/ b >= h))
    BY <1>1, <1>2, <1>4
  <2>6. QED
    BY <1>1, <1>2, <2>1, <2>2, <2>3, <2>4, <2>5
<1>12. Tiled(n, N, lo, hi)
  BY <1>7, <1>8, <1>9, <1>10, <1>11 DEF Tiled
<1>13. n \in Cells /\ hi <= ExtensionEnd
  BY DEF Laid
<1>14. QED
  BY <1>1, <1>7, <1>12, <1>13 DEF Laid

\* What happens elsewhere leaves the blocks as they are.
LEMMA Untouched ==
  ASSUME NEW m, NEW n \in Cells, NEW B, NEW lo, NEW hi, NEW l \in Nat, NEW h \in Nat, Laid(m, B, lo, hi),
         SameOutside(m, n, l, h), hi <= l \/ h <= lo
  PROVE  Laid(n, B, lo, hi) /\ \A b \in B : n[b] = m[b]
<1>1. /\ lo \in Nat /\ hi \in Nat
      /\ \A b \in B : /\ b \in Nat /\ lo <= b /\ b < hi /\ b \in Addr
                      /\ m[b].len \in Nat /\ m[b].len >= 2 /\ b + m[b].len <= hi
                      /\ m[b + m[b].len - 1] = m[b] /\ b + m[b].len - 1 \in Addr
  BY LaidFacts
<1>2. ASSUME NEW b \in B PROVE n[b] = m[b] /\ n[b + n[b].len - 1] = n[b]
  <2>1. n[b] = m[b]
    BY <1>1 DEF SameOutside
  <2> DEFINE tr == b + m[b].len - 1
  <2>2. tr \in Addr /\ tr >= lo /\ tr < hi /\ m[tr] = m[b]
    BY <1>1
  <2> HIDE DEF tr
  <2>3. tr \in Addr /\ tr \notin l .. h - 1
    BY <1>1, <2>2, Constants
  <2>4. n[tr] = m[tr]
    BY <2>3 DEF SameOutside
  <2>5. QED
    BY <2>1, <2>2, <2>4 DEF tr
<1>3. Tiled(m, B, lo, hi) /\ B \subseteq Addr /\ hi <= ExtensionEnd
  BY DEF Laid
<1>4. Tiled(n, B, lo, hi)
  BY <1>2, <1>3 DEF Tiled
<1>5. QED
  BY <1>1, <1>2, <1>3, <1>4 DEF Laid

\* Blocks behind the last one.
LEMMA Grown ==
  ASSUME NEW m, NEW n, NEW B, NEW C, NEW lo, NEW hi, NEW end, Laid(m, B, lo, hi), Laid(n, C, hi, end),
         SameOutside(m, n, hi, end)
  PROVE  Laid(n, B \cup C, lo, end)
<1> DEFINE N == B \cup C
<1>1. n \in Cells /\ hi \in Nat /\ end \in Nat /\ end <= ExtensionEnd
  BY DEF Laid
<1>2. Laid(n, B, lo, hi) /\ \A b \in B : n[b] = m[b]
  BY <1>1, Untouched
<1>3. /\ lo \in Nat /\ hi \in Nat /\ lo <= hi /\ hi \notin B /\ lo \in B \cup {hi}
      /\ \A b \in B : /\ b \in Nat /\ lo <= b /\ b < hi /\ b \in Addr
                      /\ n[b].len \in Nat /\ n[b].len >= MINARRAYBLOCKSIZE /\ n[b].len >= 2
                      /\ b + n[b].len \in B \cup {hi} /\ b + n[b].len <= hi
                      /\ n[b + n[b].len - 1] = n[b]
      /\ \A b, c \in B : b < c => b + n[b].len <= c
      /\ \A b \in (B \cup {hi}) \ {lo} : \E c \in B : c + n[c].len = b
  BY <1>2, LaidFacts
<1>4. /\ end \in Nat /\ hi <= end /\ end \notin C /\ hi \in C \cup {end}
      /\ \A b \in C : /\ b \in Nat /\ hi <= b /\ b < end /\ b \in Addr
                      /\ n[b].len \in Nat /\ n[b].len >= MINARRAYBLOCKSIZE /\ n[b].len >= 2
                      /\ b + n[b].len \in C \cup {end} /\ b + n[b].len <= end
                      /\ n[b + n[b].len - 1] = n[b]
      /\ \A b, c \in C : b < c => b + n[b].len <= c
      /\ \A b \in (C \cup {end}) \ {hi} : \E c \in C : c + n[c].len = b
  BY LaidFacts
<1>5. N \subseteq lo .. end - 1 /\ N \subseteq Addr
  <2>1. \A b \in B : b \in lo .. end - 1 /\ b \in Addr
    BY <1>3, <1>4
  <2>2. \A b \in C : b \in lo .. end - 1 /\ b \in Addr
    BY <1>3, <1>4
  <2>3. QED
    BY <2>1, <2>2
<1>6. lo \in N \cup {end}
  BY <1>3, <1>4
<1>7. \A b \in N : /\ n[b].len >= MINARRAYBLOCKSIZE
                   /\ b + n[b].len \in N \cup {end}
                   /\ n[b + n[b].len - 1] = n[b]
  <2>1. ASSUME NEW b \in B PROVE b + n[b].len \in N \cup {end}
    BY <1>3, <1>4
  <2>2. QED
    BY <1>3, <1>4, <2>1
<1>8. ASSUME NEW b \in N, NEW c \in N, b < c PROVE b + n[b].len <= c
  <2>1. CASE b \in B /\ c \in B
    BY <1>3, <1>8, <2>1
  <2>2. CASE b \in C /\ c \in C
    BY <1>4, <1>8, <2>2
  <2>3. CASE b \in B /\ c \in C
    BY <1>3, <1>4, <1>8, <2>3
  <2>4. CASE b \in C /\ c \in B
    BY <1>3, <1>4, <1>8, <2>4
  <2>5. QED
    BY <2>1, <2>2, <2>3, <2>4
<1>9. ASSUME NEW b \in (N \cup {end}) \ {lo} PROVE \E c \in N : c + n[c].len = b
  <2>1. CASE b \in B \cup {hi}
    BY <1>3, <2>1
  <2>2. CASE b \in (C \cup {end}) \ {hi}
    BY <1>4, <2>2
  <2>3. QED
    BY <2>1, <2>2
<1>10. Tiled(n, N, lo, end)
  BY <1>5, <1>6, <1>7, <1>8, <1>9 DEF Tiled
<1>11. QED
  BY <1>1, <1>3, <1>5, <1>10 DEF Laid

-----------------------------------------------------------------------------
(* The same of both spaces.                                                *)

Low(B) == B \cap (0 .. ArrayEnd)
High(B) == B \ (0 .. ArrayEnd)

\* l and h are boundaries of blocks of one space.
Span(B, l, h, o, e) ==
  /\ l \in B /\ l < h
  /\ IF l \in 0 .. ArrayEnd THEN h \in Low(B) \cup {o} ELSE h \in High(B) \cup {e}

\* Both spaces tiled, as one statement about each space.
LEMMA WholeLaid ==
  ASSUME NEW m \in Cells, NEW B, NEW o, NEW e
  PROVE  Whole(m, B, o, e) <=>
           /\ Laid(m, Low(B), ArraySpace, o) /\ Laid(m, High(B), Extension, e)
           /\ o <= ArrayEnd
<1>1. ASSUME Whole(m, B, o, e)
      PROVE  Laid(m, Low(B), ArraySpace, o) /\ Laid(m, High(B), Extension, e) /\ o <= ArrayEnd
  BY <1>1, WholeParts DEF Low, High
<1>2. ASSUME Laid(m, Low(B), ArraySpace, o), Laid(m, High(B), Extension, e), o <= ArrayEnd
      PROVE  Whole(m, B, o, e)
  <2>1. /\ Tiled(m, Low(B), ArraySpace, o) /\ Tiled(m, High(B), Extension, e)
        /\ Low(B) \subseteq Addr /\ High(B) \subseteq Addr /\ o \in Nat /\ e \in Nat /\ e <= ExtensionEnd
    BY <1>2 DEF Laid
  <2>2. ArraySpace <= o /\ Extension <= e
    <3>1. Fits(m, Low(B), ArraySpace, o) /\ Fits(m, High(B), Extension, e)
      BY <1>2, TiledFits
    <3>2. QED
      BY <3>1 DEF Fits
  <2>3. B \subseteq Addr
    BY <2>1 DEF Low, High
  <2>4. o \in ArraySpace .. ArrayEnd /\ e \in Extension .. ExtensionEnd
    BY <1>2, <2>1, <2>2, Constants
  <2>5. QED
    BY <2>1, <2>3, <2>4 DEF Whole, Low, High
<1>3. QED
  BY <1>1, <1>2

\* A range of whole blocks may be tiled anew.
LEMMA WholeRetiled ==
  ASSUME NEW m, NEW n, NEW B, NEW C, NEW o, NEW e, NEW l, NEW h, m \in Cells, n \in Cells,
         Whole(m, B, o, e), Span(B, l, h, o, e), Laid(n, C, l, h), SameOutside(m, n, l, h)
  PROVE  Whole(n, (B \ (l .. h - 1)) \cup C, o, e)
<1> DEFINE N == (B \ (l .. h - 1)) \cup C
<1>1. Laid(m, Low(B), ArraySpace, o) /\ Laid(m, High(B), Extension, e) /\ o <= ArrayEnd
  BY WholeLaid
<1>2. l \in Nat /\ h \in Nat /\ l \in B /\ l < h
  BY DEF Laid, Span
<1>3. Fits(m, Low(B), ArraySpace, o) /\ Fits(m, High(B), Extension, e) /\ Fits(n, C, l, h)
  BY <1>1, TiledFits
<1>4. o \in Nat /\ e \in Nat /\ Extension <= e /\ ArraySpace <= o
      /\ (\A c \in Low(B) : c \in Nat /\ c < o) /\ (\A c \in High(B) : c \in Nat /\ Extension <= c /\ c < e)
      /\ \A c \in C : c \in Nat /\ l <= c /\ c < h
  <2>1. o \in Nat /\ e \in Nat /\ Extension <= e /\ ArraySpace <= o
    BY <1>1, <1>3 DEF Laid, Fits
  <2>2. ASSUME NEW c \in Low(B) PROVE c \in Nat /\ c < o
    <3>1. c \in Nat /\ c \in ArraySpace .. o - 1
      BY <1>3 DEF Fits
    <3>2. QED
      BY <2>1, <3>1, Constants
  <2>3. ASSUME NEW c \in High(B) PROVE c \in Nat /\ Extension <= c /\ c < e
    <3>1. c \in Nat /\ c \in Extension .. e - 1
      BY <1>3 DEF Fits
    <3>2. QED
      BY <2>1, <3>1, Constants
  <2>4. \A c \in C : c \in Nat /\ l <= c /\ c < h
    BY <1>2, <1>3 DEF Fits
  <2>5. QED
    BY <2>1, <2>2, <2>3, <2>4
<1>5. CASE l \in 0 .. ArrayEnd
  <2>1. l \in Low(B) /\ h \in Low(B) \cup {o} /\ h <= o
    <3>1. l \in Low(B) /\ h \in Low(B) \cup {o}
      BY <1>5 DEF Span, Low
    <3>2. QED
      BY <1>2, <1>4, <3>1
  <2>2. Laid(n, (Low(B) \ (l .. h - 1)) \cup C, ArraySpace, o)
    BY <1>1, <1>2, <2>1, Retiled
  <2>3. Laid(n, High(B), Extension, e)
    <3>1. h <= Extension
      BY <1>1, <1>2, <1>4, <2>1, Constants
    <3>2. QED
      BY <1>1, <1>2, <3>1, Untouched
  <2>4. \A c \in C : c \in 0 .. ArrayEnd
    BY <1>1, <1>2, <1>4, <2>1, Constants
  <2>5. \A c \in High(B) : c \notin l .. h - 1
    BY <1>1, <1>2, <1>4, <2>1, Constants
  <2>6. Low(N) = (Low(B) \ (l .. h - 1)) \cup C /\ High(N) = High(B)
    BY <2>4, <2>5 DEF Low, High
  <2>7. QED
    BY <1>1, <2>2, <2>3, <2>6, WholeLaid
<1>6. CASE l \notin 0 .. ArrayEnd
  <2>1. l \in High(B) /\ h \in High(B) \cup {e} /\ h <= e /\ l >= Extension
    <3>1. l \in High(B) /\ h \in High(B) \cup {e}
      BY <1>2, <1>6 DEF Span, High
    <3>2. QED
      BY <1>2, <1>4, <3>1
  <2>2. Laid(n, (High(B) \ (l .. h - 1)) \cup C, Extension, e)
    BY <1>1, <1>2, <2>1, Retiled
  <2>3. Laid(n, Low(B), ArraySpace, o)
    <3>1. o <= l
      BY <1>1, <1>2, <1>4, <2>1, Constants
    <3>2. QED
      BY <1>1, <1>2, <3>1, Untouched
  <2>4. \A c \in C : c \notin 0 .. ArrayEnd
    BY <1>1, <1>2, <1>4, <2>1, Constants
  <2>5. \A c \in Low(B) : c \notin l .. h - 1
    BY <1>1, <1>2, <1>4, <2>1, Constants
  <2>6. High(N) = (High(B) \ (l .. h - 1)) \cup C /\ Low(N) = Low(B)
    BY <2>4, <2>5 DEF Low, High
  <2>7. QED
    BY <1>1, <2>2, <2>3, <2>6, WholeLaid
<1>7. QED
  BY <1>5, <1>6

-----------------------------------------------------------------------------
(* Rings.                                                                  *)

\* Every length has a bucket.
LEMMA BucketExists == ASSUME NEW n \in Nat PROVE BucketIndex(n) \in Buckets
<1> DEFINE R == [n : Nat, p : Nat]
<1>1. ASSUME NEW x \in R, NEW w \in {2, 4, 16, 256, 65536}, NEW b \in {1, 2, 4, 8, 16} PROVE Halve(x, w, b) \in R
  <2>1. w \in Nat \ {0} /\ b \in Nat /\ x.n \in Nat /\ x.p \in Nat
    BY <1>1
  <2>2. x.n \div w \in Nat /\ x.p + b \in Nat
    BY <2>1
  <2>3. QED
    BY <2>1, <2>2 DEF Halve
<1> DEFINE x0 == [n |-> n, p |-> 0]
           x1 == Halve(x0, 65536, 16)
           x2 == Halve(x1, 256, 8)
           x3 == Halve(x2, 16, 4)
           r == Halve(x3, 4, 2)
<1>2. x0 \in R
  OBVIOUS
<1>3. x1 \in R
  <2> HIDE DEF x0, R
  <2>1. QED
    BY <1>1, <1>2
<1>4. x2 \in R
  <2> HIDE DEF x1, R
  <2>1. QED
    BY <1>1, <1>3
<1>5. x3 \in R
  <2> HIDE DEF x2, R
  <2>1. QED
    BY <1>1, <1>4
<1>6. r \in R
  <2> HIDE DEF x3, R
  <2>1. QED
    BY <1>1, <1>5
<1>7. Halve(r, 2, 1).p \in Nat
  <2> HIDE DEF r
  <2>1. Halve(r, 2, 1) \in R
    <3> HIDE DEF R
    <3>1. QED
      BY <1>1, <1>6
  <2>2. QED
    BY <2>1
<1>8. integerlength(n) \in Nat
  BY <1>7 DEF integerlength
<1>9. QED
  BY <1>8, Constants DEF BucketIndex, Buckets

\* A ring only depends on the links of its members.
LEMMA RingKept ==
  ASSUME NEW f, NEW g, NEW f2, NEW g2, NEW R, NEW h, OneRing(f, g, R, h),
         \A b \in R : f2[b] = f[b] /\ g2[b] = g[b]
  PROVE  OneRing(f2, g2, R, h)
<1>1. \A b \in R : f[b] \in R /\ g[b] \in R
  BY DEF OneRing
<1>2. \A b \in R : /\ f2[b] \in R /\ g2[b] \in R
                   /\ g2[f2[b]] = b /\ f2[g2[b]] = b
  BY <1>1 DEF OneRing
<1>3. ASSUME NEW S \in SUBSET R, S # {}, \A b \in S : f2[b] \in S PROVE S = R
  <2>1. \A b \in S : f[b] \in S
    BY <1>3
  <2>2. QED
    BY <1>3, <2>1 DEF OneRing
<1>4. (R = {} => h = NIL) /\ (R # {} => h \in R)
  BY DEF OneRing
<1>5. QED
  BY <1>2, <1>3, <1>4 DEF OneRing

\* deleteblock of the last block of a ring.
LEMMA RingEmptied ==
  ASSUME NEW f, NEW g, NEW R, NEW h, OneRing(f, g, R, h), NEW b \in R, f[b] = b
  PROVE  R = {b} /\ h = b
<1>1. {b} \in SUBSET R /\ {b} # {} /\ \A x \in {b} : f[x] \in {b}
  OBVIOUS
<1>2. R = {b}
  <2> DEFINE S == {b}
  <2>1. S \in SUBSET R /\ S # {} /\ \A x \in S : f[x] \in S
    BY <1>1
  <2> HIDE DEF S
  <2>2. S = R
    BY <2>1 DEF OneRing
  <2>3. QED
    BY <2>2 DEF S
<1>3. QED
  BY <1>2 DEF OneRing

\* deleteblock of any other.
Bypassed(f, at, to) == [f EXCEPT ![at] = to]
\* Unlinking a block leaves a ring of the others.
LEMMA RingCut ==
  ASSUME NEW f \in Links, NEW g \in Links, NEW R \in SUBSET Addr, NEW h, OneRing(f, g, R, h), NEW b \in R, f[b] # b
  PROVE  OneRing(Bypassed(f, g[b], f[b]), Bypassed(g, f[b], g[b]), R \ {b}, IF h = b THEN f[b] ELSE h)
<1> DEFINE n == f[b]
           p == g[b]
           f2 == Bypassed(f, p, n)
           g2 == Bypassed(g, n, p)
           Q == R \ {b}
<1>1. /\ h \in R
      /\ \A x \in R : f[x] \in R /\ g[x] \in R /\ g[f[x]] = x /\ f[g[x]] = x
      /\ \A S \in SUBSET R : S # {} /\ (\A x \in S : f[x] \in S) => S = R
  BY DEF OneRing
<1>2. n \in Q /\ p \in Q /\ f[p] = b /\ g[n] = b
  BY <1>1
<1>3. \A x \in Addr : f2[x] = (IF x = p THEN n ELSE f[x]) /\ g2[x] = (IF x = n THEN p ELSE g[x])
  BY <1>2 DEF Links, Bypassed
<1> HIDE DEF n, p, f2, g2
<1>4. \A x \in Q : f2[x] = (IF x = p THEN n ELSE f[x]) /\ g2[x] = (IF x = n THEN p ELSE g[x])
  BY <1>3
<1>5. ASSUME NEW x \in Q PROVE f2[x] \in Q /\ g2[f2[x]] = x
  <2>1. CASE x = p
    BY <1>2, <1>4, <2>1
  <2>2. CASE x # p
    <3>1. f[x] \in R /\ g[f[x]] = x /\ f[x] # n
      BY <1>1, <1>5 DEF n
    <3>2. f[x] # b
      BY <1>1, <2>2 DEF p
    <3>3. QED
      BY <1>4, <2>2, <3>1, <3>2
  <2>3. QED
    BY <2>1, <2>2
<1>6. ASSUME NEW x \in Q PROVE g2[x] \in Q /\ f2[g2[x]] = x
  <2>1. CASE x = n
    BY <1>2, <1>4, <2>1
  <2>2. CASE x # n
    <3>1. g[x] \in R /\ f[g[x]] = x /\ g[x] # p
      BY <1>1, <1>6 DEF p
    <3>2. g[x] # b
      BY <1>1, <2>2 DEF n
    <3>3. QED
      BY <1>4, <2>2, <3>1, <3>2
  <2>3. QED
    BY <2>1, <2>2
<1>7. ASSUME NEW S \in SUBSET Q, S # {}, \A x \in S : f2[x] \in S PROVE S = Q
  <2>1. CASE p \in S
    <3> DEFINE T == S \cup {b}
    <3>1. T \in SUBSET R /\ T # {}
      OBVIOUS
    <3>2. n \in S
      BY <1>2, <1>4, <1>7, <2>1
    <3>3. ASSUME NEW x \in T PROVE f[x] \in T
      <4>1. CASE x = b
        BY <3>2, <4>1 DEF n
      <4>2. CASE x = p
        BY <1>2, <4>2
      <4>3. CASE x \in S /\ x # p
        BY <1>4, <1>7, <4>3
      <4>4. QED
        BY <4>1, <4>2, <4>3
    <3>4. T = R
      BY <1>1, <3>1, <3>3
    <3>5. QED
      BY <3>4
  <2>2. CASE p \notin S
    <3>1. \A x \in S : f[x] \in S
      BY <1>4, <1>7, <2>2
    <3>2. S \in SUBSET R
      OBVIOUS
    <3>3. S = R
      BY <1>1, <1>7, <3>1, <3>2
    <3>4. QED
      BY <3>3
  <2>3. QED
    BY <2>1, <2>2
<1>8. (IF h = b THEN n ELSE h) \in Q
  BY <1>1, <1>2
<1>9. Q # {}
  BY <1>2
<1>10. OneRing(f2, g2, Q, IF h = b THEN n ELSE h)
  BY <1>5, <1>6, <1>7, <1>8, <1>9 DEF OneRing
<1>11. QED
  BY <1>10 DEF f2, g2, n, p

\* linkblock: b becomes the head of its ring.
LEMMA RingPut ==
  ASSUME NEW f \in Links, NEW g \in Links, NEW R \in SUBSET Addr, NEW h \in R, OneRing(f, g, R, h),
         NEW b \in Addr \ R
  PROVE  OneRing([[f EXCEPT ![b] = h] EXCEPT ![g[h]] = b], [[g EXCEPT ![b] = g[h]] EXCEPT ![h] = b], R \cup {b}, b)
<1> DEFINE t == g[h]
           f2 == [[f EXCEPT ![b] = h] EXCEPT ![t] = b]
           g2 == [[g EXCEPT ![b] = t] EXCEPT ![h] = b]
           Q == R \cup {b}
<1>1. /\ \A x \in R : f[x] \in R /\ g[x] \in R /\ g[f[x]] = x /\ f[g[x]] = x
      /\ \A S \in SUBSET R : S # {} /\ (\A x \in S : f[x] \in S) => S = R
  BY DEF OneRing
<1>2. t \in R /\ f[t] = h /\ b # t /\ b # h
  BY <1>1
<1>3. \A x \in Addr : f2[x] = (IF x = t THEN b ELSE IF x = b THEN h ELSE f[x])
                      /\ g2[x] = (IF x = h THEN b ELSE IF x = b THEN t ELSE g[x])
  BY <1>2 DEF Links
<1> HIDE DEF f2, g2
<1>4. \A x \in Q : f2[x] = (IF x = t THEN b ELSE IF x = b THEN h ELSE f[x])
                   /\ g2[x] = (IF x = h THEN b ELSE IF x = b THEN t ELSE g[x])
  BY <1>3
<1>5. ASSUME NEW x \in Q PROVE f2[x] \in Q /\ g2[f2[x]] = x
  <2>1. CASE x = t
    BY <1>2, <1>4, <2>1
  <2>2. CASE x = b
    BY <1>2, <1>4, <2>2
  <2>3. CASE x # t /\ x # b
    <3>1. f[x] \in R /\ g[f[x]] = x /\ f[x] # h
      BY <1>1, <1>5, <2>3
    <3>2. QED
      BY <1>4, <2>3, <3>1
  <2>4. QED
    BY <2>1, <2>2, <2>3
<1>6. ASSUME NEW x \in Q PROVE g2[x] \in Q /\ f2[g2[x]] = x
  <2>1. CASE x = h
    BY <1>2, <1>4, <2>1
  <2>2. CASE x = b
    BY <1>2, <1>4, <2>2
  <2>3. CASE x # h /\ x # b
    <3>1. g[x] \in R /\ f[g[x]] = x /\ g[x] # t
      BY <1>1, <1>2, <1>6, <2>3
    <3>2. QED
      BY <1>4, <2>3, <3>1
  <2>4. QED
    BY <2>1, <2>2, <2>3
<1>7. ASSUME NEW S \in SUBSET Q, S # {}, \A x \in S : f2[x] \in S PROVE S = Q
  <2> DEFINE T == S \ {b}
  <2>1. b \in S => h \in T
    BY <1>2, <1>4, <1>7
  <2>2. T \in SUBSET R /\ T # {}
    BY <1>7, <2>1
  <2>3. ASSUME NEW x \in T PROVE f[x] \in T
    <3>1. CASE x = t
      <4>1. b \in S
        BY <1>4, <1>7, <3>1
      <4>2. QED
        BY <1>2, <2>1, <3>1, <4>1
    <3>2. CASE x # t
      <4>1. f[x] \in S /\ f[x] \in R
        BY <1>1, <1>4, <1>7, <3>2
      <4>2. QED
        BY <4>1
    <3>3. QED
      BY <3>1, <3>2
  <2>4. T = R
    BY <1>1, <2>2, <2>3
  <2>5. b \in S
    BY <1>2, <1>4, <1>7, <2>4
  <2>6. QED
    BY <2>4, <2>5
<1>8. QED
  BY <1>5, <1>6, <1>7 DEF OneRing, f2, g2

\* The rings of all sizes: deleteblock and linkblock.
LEMMA MemoryParts ==
  ASSUME NEW s \in Memory
  PROVE  /\ s.mem \in Cells /\ s.fwd \in Links /\ s.bkwd \in Links /\ s.bucket \in [Buckets -> Addr \cup {NIL}]
         /\ \A x \in Addr : s.mem[x].len \in 0 .. MAXARRAYBLOCKSIZE /\ s.mem[x].len \in Nat /\ s.mem[x].inuse \in BOOLEAN
<1>1. s.mem \in Cells /\ s.fwd \in Links /\ s.bkwd \in Links /\ s.bucket \in [Buckets -> Addr \cup {NIL}]
  BY DEF Memory
<1>2. ASSUME NEW x \in Addr
      PROVE  s.mem[x].len \in 0 .. MAXARRAYBLOCKSIZE /\ s.mem[x].len \in Nat /\ s.mem[x].inuse \in BOOLEAN
  <2>1. s.mem[x] \in [len : 0 .. MAXARRAYBLOCKSIZE, inuse : BOOLEAN]
    BY <1>1 DEF Cells
  <2>2. QED
    BY <2>1, Constants
<1>3. QED
  BY <1>1, <1>2

\* A memory with other links.
Relinked(s, f, g, k) == [mem |-> s.mem, fwd |-> f, bkwd |-> g, bucket |-> k]

\* Changing links leaves the cells alone.
LEMMA RelinkedMemory ==
  ASSUME NEW s \in Memory, NEW f \in Links, NEW g \in Links, NEW k \in [Buckets -> Addr \cup {NIL}]
  PROVE  Relinked(s, f, g, k) \in Memory /\ Relinked(s, f, g, k).mem = s.mem
         /\ Relinked(s, f, g, k).fwd = f /\ Relinked(s, f, g, k).bkwd = g /\ Relinked(s, f, g, k).bucket = k
BY DEF Relinked, Memory

\* deleteblock takes one block off its ring and leaves the other rings.
LEMMA RingsCut ==
  ASSUME NEW s \in Memory, NEW L \in SUBSET Addr, Rings(s, L), NEW b \in L, s.mem[b].len >= MINARRAYBLOCKSIZE
  PROVE  /\ deleteblock(s, b) \in Memory /\ deleteblock(s, b).mem = s.mem
         /\ Rings(deleteblock(s, b), L \ {b})
<1> DEFINE i == BucketIndex(s.mem[b].len)
           f == s.fwd[b]
           p == s.bkwd[b]
           R == OfSize(s.mem, L, i)
           d == deleteblock(s, b)
<1>1. /\ s.mem \in Cells /\ s.fwd \in Links /\ s.bkwd \in Links /\ s.bucket \in [Buckets -> Addr \cup {NIL}]
      /\ s.mem[b].len \in Nat
  BY MemoryParts
<1>2. i \in Buckets
  BY <1>1, BucketExists
<1>3. OneRing(s.fwd, s.bkwd, R, s.bucket[i]) /\ b \in R /\ R \in SUBSET Addr
  BY <1>2 DEF Rings, OfSize
<1>4. f \in R /\ p \in R /\ f # NIL
  <2> HIDE DEF R
  <2>1. f \in R /\ p \in R
    BY <1>3 DEF OneRing
  <2>2. QED
    BY <1>3, <2>1, Constants
<1>5. \A j \in Buckets \ {i} : /\ OfSize(s.mem, L \ {b}, j) = OfSize(s.mem, L, j)
                               /\ \A x \in OfSize(s.mem, L, j) : x # f /\ x # p
  BY <1>4 DEF OfSize
<1>6. OfSize(s.mem, L \ {b}, i) = R \ {b}
  BY DEF OfSize
<1>7. ~(s.mem[b].len < MINARRAYBLOCKSIZE)
  <2> DEFINE len == s.mem[b].len
  <2>1. len \in Nat /\ len >= MINARRAYBLOCKSIZE
    BY <1>1
  <2> HIDE DEF len
  <2>2. ~(len < MINARRAYBLOCKSIZE)
    BY <2>1, Constants
  <2>3. QED
    BY <2>2 DEF len
<1>8. CASE f = b
  <2>1. R = {b} /\ s.bucket[i] = b
    BY <1>3, <1>8, RingEmptied
  <2> DEFINE k == [s.bucket EXCEPT ![i] = NIL]
  <2>2. d = [s EXCEPT !.bucket[i] = NIL]
    BY <1>1, <1>4, <1>7, <1>8, <2>1 DEF deleteblock
  <2>3. d = Relinked(s, s.fwd, s.bkwd, k)
    BY <2>2 DEF Memory, Relinked
  <2>4. k \in [Buckets -> Addr \cup {NIL}] /\ k[i] = NIL /\ \A j \in Buckets \ {i} : k[j] = s.bucket[j]
    BY <1>1, <1>2
  <2> HIDE DEF d, k
  <2>5. d \in Memory /\ d.mem = s.mem /\ d.fwd = s.fwd /\ d.bkwd = s.bkwd /\ d.bucket = k
    BY <1>1, <2>3, <2>4, RelinkedMemory
  <2>6. ASSUME NEW j \in Buckets PROVE OneRing(d.fwd, d.bkwd, OfSize(d.mem, L \ {b}, j), d.bucket[j])
    <3>1. CASE j = i
      <4>1. OneRing(s.fwd, s.bkwd, {}, NIL)
        BY DEF OneRing
      <4>2. OfSize(s.mem, L \ {b}, i) = {}
        BY <1>6, <2>1
      <4>3. QED
        BY <2>4, <2>5, <3>1, <4>1, <4>2
    <3>2. CASE j # i
      <4>1. OneRing(s.fwd, s.bkwd, OfSize(s.mem, L, j), s.bucket[j])
        BY DEF Rings
      <4>2. QED
        BY <1>5, <2>4, <2>5, <3>2, <4>1
    <3>3. QED
      BY <3>1, <3>2
  <2>7. QED
    BY <2>5, <2>6 DEF Rings, d
<1>9. CASE f # b
  <2> DEFINE k == [s.bucket EXCEPT ![i] = IF @ = b THEN f ELSE @]
             f2 == Bypassed(s.fwd, p, f)
             g2 == Bypassed(s.bkwd, f, p)
  <2>1. d = [s EXCEPT !.bucket[i] = IF @ = b THEN f ELSE @, !.bkwd[f] = p, !.fwd[p] = f]
    BY <1>1, <1>4, <1>7, <1>9 DEF deleteblock
  <2>2. d = Relinked(s, f2, g2, k)
    BY <2>1 DEF Memory, Relinked, Bypassed
  <2>3. f \in Addr /\ p \in Addr
    BY <1>3, <1>4
  <2>4. k \in [Buckets -> Addr \cup {NIL}] /\ k[i] = (IF s.bucket[i] = b THEN f ELSE s.bucket[i])
        /\ \A j \in Buckets \ {i} : k[j] = s.bucket[j]
    BY <1>1, <1>2, <2>3
  <2>5. f2 \in Links /\ g2 \in Links /\ \A x \in Addr \ {f, p} : f2[x] = s.fwd[x] /\ g2[x] = s.bkwd[x]
    BY <1>1, <2>3 DEF Links, Bypassed
  <2>6. OneRing(f2, g2, R \ {b}, IF s.bucket[i] = b THEN f ELSE s.bucket[i])
    <3> HIDE DEF R, i
    <3>1. QED
      BY <1>1, <1>3, <1>9, RingCut
  <2> HIDE DEF d, k, f2, g2
  <2>7. d \in Memory /\ d.mem = s.mem /\ d.fwd = f2 /\ d.bkwd = g2 /\ d.bucket = k
    <3>1. f2 \in Links /\ g2 \in Links /\ k \in [Buckets -> Addr \cup {NIL}]
      BY <2>4, <2>5
    <3>2. QED
      BY <2>2, <3>1, RelinkedMemory
  <2>8. ASSUME NEW j \in Buckets PROVE OneRing(d.fwd, d.bkwd, OfSize(d.mem, L \ {b}, j), d.bucket[j])
    <3>1. CASE j = i
      BY <1>6, <2>4, <2>6, <2>7, <3>1
    <3>2. CASE j # i
      <4> DEFINE Q == OfSize(s.mem, L, j)
      <4>1. OneRing(s.fwd, s.bkwd, Q, s.bucket[j])
        BY DEF Rings
      <4>2. \A x \in Q : f2[x] = s.fwd[x] /\ g2[x] = s.bkwd[x]
        BY <1>5, <2>5, <3>2 DEF OfSize
      <4> HIDE DEF Q
      <4>3. OneRing(f2, g2, Q, s.bucket[j])
        BY <4>1, <4>2, RingKept
      <4>4. QED
        BY <1>5, <2>4, <2>7, <3>2, <4>3 DEF Q
    <3>3. QED
      BY <3>1, <3>2
  <2>9. QED
    BY <2>7, <2>8 DEF Rings, d
<1>10. QED
  BY <1>8, <1>9

\* Head and neighbours are on the ring.
LEMMA RingMembers ==
  ASSUME NEW f, NEW g, NEW R, NEW h, OneRing(f, g, R, h), h # NIL
  PROVE  h \in R /\ f[h] \in R /\ g[h] \in R
BY DEF OneRing

\* linkblock on an empty ring: the block becomes the whole ring.
LEMMA LinkAlone ==
  ASSUME NEW s, NEW b, ~(b \notin Addr \/ s.mem[b].len < MINARRAYBLOCKSIZE),
         NEW i, i = BucketIndex(s.mem[b].len), s.bucket[i] = NIL
  PROVE  linkblock(s, b) = [s EXCEPT !.fwd[b] = b, !.bkwd[b] = b, !.bucket[i] = b]
BY DEF linkblock

\* linkblock puts one block on the ring of its size and leaves the other rings.
LEMMA RingsPut ==
  ASSUME NEW s \in Memory, NEW L \in SUBSET Addr, Rings(s, L), NEW b \in Addr \ L,
         s.mem[b].len >= MINARRAYBLOCKSIZE
  PROVE  /\ linkblock(s, b) \in Memory /\ linkblock(s, b).mem = s.mem
         /\ Rings(linkblock(s, b), L \cup {b})
<1> DEFINE i == BucketIndex(s.mem[b].len)
           h == s.bucket[i]
           R == OfSize(s.mem, L, i)
           d == linkblock(s, b)
<1>1. /\ s.mem \in Cells /\ s.fwd \in Links /\ s.bkwd \in Links /\ s.bucket \in [Buckets -> Addr \cup {NIL}]
      /\ s.mem[b].len \in Nat
  BY MemoryParts
<1>2. i \in Buckets
  BY <1>1, BucketExists
<1>3. OneRing(s.fwd, s.bkwd, R, h) /\ b \notin R /\ R \in SUBSET Addr
  BY <1>2 DEF Rings, OfSize
<1>4. \A j \in Buckets \ {i} : /\ OfSize(s.mem, L \cup {b}, j) = OfSize(s.mem, L, j)
                               /\ \A x \in OfSize(s.mem, L, j) : x # b /\ x \notin R
  BY DEF OfSize
<1>5. OfSize(s.mem, L \cup {b}, i) = R \cup {b}
  BY DEF OfSize
<1>6. ~(b \notin Addr \/ s.mem[b].len < MINARRAYBLOCKSIZE)
  BY <1>1, Constants
<1> DEFINE k == [s.bucket EXCEPT ![i] = b]
<1>7. k \in [Buckets -> Addr \cup {NIL}] /\ k[i] = b /\ \A j \in Buckets \ {i} : k[j] = s.bucket[j]
  BY <1>1, <1>2
<1>8. CASE h = NIL
  <2> DEFINE f2 == [s.fwd EXCEPT ![b] = b]
             g2 == [s.bkwd EXCEPT ![b] = b]
  <2>1. R = {}
    BY <1>3, <1>8, Constants DEF OneRing
  <2>2. d = [s EXCEPT !.fwd[b] = b, !.bkwd[b] = b, !.bucket[i] = b]
    BY <1>6, <1>8, LinkAlone
  <2>3. d = Relinked(s, f2, g2, k)
    BY <2>2 DEF Memory, Relinked
  <2>4. f2 \in Links /\ g2 \in Links /\ f2[b] = b /\ g2[b] = b
        /\ \A x \in Addr \ {b} : f2[x] = s.fwd[x] /\ g2[x] = s.bkwd[x]
    BY <1>1 DEF Links
  <2>5. OneRing(f2, g2, {b}, b)
    BY <2>4 DEF OneRing
  <2> HIDE DEF d, k, f2, g2
  <2>6. d \in Memory /\ d.mem = s.mem /\ d.fwd = f2 /\ d.bkwd = g2 /\ d.bucket = k
    <3>1. f2 \in Links /\ g2 \in Links /\ k \in [Buckets -> Addr \cup {NIL}]
      BY <1>7, <2>4
    <3>2. QED
      BY <2>3, <3>1, RelinkedMemory
  <2>7. ASSUME NEW j \in Buckets PROVE OneRing(d.fwd, d.bkwd, OfSize(d.mem, L \cup {b}, j), d.bucket[j])
    <3>1. CASE j = i
      <4>1. OfSize(s.mem, L \cup {b}, i) = {b}
        BY <1>5, <2>1
      <4>2. QED
        BY <1>7, <2>5, <2>6, <3>1, <4>1
    <3>2. CASE j # i
      <4> DEFINE Q == OfSize(s.mem, L, j)
      <4>1. OneRing(s.fwd, s.bkwd, Q, s.bucket[j])
        BY DEF Rings
      <4>2. \A x \in Q : f2[x] = s.fwd[x] /\ g2[x] = s.bkwd[x]
        BY <1>4, <2>4, <3>2 DEF OfSize
      <4> HIDE DEF Q
      <4>3. OneRing(f2, g2, Q, s.bucket[j])
        BY <4>1, <4>2, RingKept
      <4>4. QED
        BY <1>4, <1>7, <2>6, <3>2, <4>3 DEF Q
    <3>3. QED
      BY <3>1, <3>2
  <2>8. QED
    BY <2>6, <2>7 DEF Rings, d
<1>9. CASE h # NIL
  <2> DEFINE t == s.bkwd[h]
             f2 == [[s.fwd EXCEPT ![b] = h] EXCEPT ![t] = b]
             g2 == [[s.bkwd EXCEPT ![b] = t] EXCEPT ![h] = b]
  <2>1. h \in R /\ t \in R
    <3> HIDE DEF R, h
    <3>1. QED
      BY <1>3, <1>9, RingMembers, Zenon
  <2>2. d = [[s EXCEPT !.fwd[b] = h, !.bkwd[b] = t, !.bucket[i] = b] EXCEPT !.fwd[t] = b, !.bkwd[h] = b]
    BY <1>1, <1>6, <1>9 DEF linkblock
  <2>3. d = Relinked(s, f2, g2, k)
    <3> HIDE DEF d, h, t, i
    <3>1. QED
      BY <2>2, ZenonT(40) DEF Memory, Relinked
  <2>4. h \in Addr /\ t \in Addr
    <3> HIDE DEF R, h, t
    <3>1. QED
      BY <1>3, <2>1, Zenon
  <2>5. f2 \in Links /\ g2 \in Links /\ \A x \in Addr \ {b, h, t} : f2[x] = s.fwd[x] /\ g2[x] = s.bkwd[x]
    BY <1>1, <2>4 DEF Links
  <2>6. OneRing(f2, g2, R \cup {b}, b)
    <3> HIDE DEF R, i, h
    <3>1. QED
      BY <1>1, <1>3, <2>1, RingPut
  <2> HIDE DEF d, k, f2, g2
  <2>7. d \in Memory /\ d.mem = s.mem /\ d.fwd = f2 /\ d.bkwd = g2 /\ d.bucket = k
    BY <1>7, <2>3, <2>5, RelinkedMemory
  <2>8. ASSUME NEW j \in Buckets PROVE OneRing(d.fwd, d.bkwd, OfSize(d.mem, L \cup {b}, j), d.bucket[j])
    <3>1. CASE j = i
      BY <1>5, <1>7, <2>6, <2>7, <3>1
    <3>2. CASE j # i
      <4> DEFINE Q == OfSize(s.mem, L, j)
      <4>1. OneRing(s.fwd, s.bkwd, Q, s.bucket[j])
        BY DEF Rings
      <4>2. \A x \in Q : f2[x] = s.fwd[x] /\ g2[x] = s.bkwd[x]
        BY <1>4, <2>1, <2>5, <3>2 DEF OfSize
      <4> HIDE DEF Q
      <4>3. OneRing(f2, g2, Q, s.bucket[j])
        BY <4>1, <4>2, RingKept
      <4>4. QED
        BY <1>4, <1>7, <2>7, <3>2, <4>3 DEF Q
    <3>3. QED
      BY <3>1, <3>2
  <2>9. QED
    BY <2>7, <2>8 DEF Rings, d
<1>10. QED
  BY <1>8, <1>9

-----------------------------------------------------------------------------
(* Blocks and rings together.                                              *)

SameRest(s, t, l, h) ==
  /\ SameOutside(s.mem, t.mem, l, h) /\ SameOutside(s.fwd, t.fwd, l, h) /\ SameOutside(s.bkwd, t.bkwd, l, h)
  /\ t.bucket = s.bucket

\* Rings do not depend on what changes between other blocks' cells.
LEMMA RingsKept ==
  ASSUME NEW s, NEW t, NEW L \in SUBSET Addr, Rings(s, L), NEW l, NEW h, SameRest(s, t, l, h),
         \A b \in L : b \notin l .. h - 1
  PROVE  Rings(t, L)
<1>1. \A b \in L : t.mem[b] = s.mem[b] /\ t.fwd[b] = s.fwd[b] /\ t.bkwd[b] = s.bkwd[b]
  BY DEF SameRest, SameOutside
<1>2. t.bucket = s.bucket
  BY DEF SameRest
<1>3. ASSUME NEW i \in Buckets PROVE OneRing(t.fwd, t.bkwd, OfSize(t.mem, L, i), t.bucket[i])
  <2> DEFINE R == OfSize(s.mem, L, i)
  <2>1. OfSize(t.mem, L, i) = R
    BY <1>1 DEF OfSize
  <2>2. OneRing(s.fwd, s.bkwd, R, s.bucket[i])
    BY DEF Rings
  <2>3. \A b \in R : t.fwd[b] = s.fwd[b] /\ t.bkwd[b] = s.bkwd[b]
    BY <1>1 DEF OfSize
  <2> HIDE DEF R
  <2>4. OneRing(t.fwd, t.bkwd, R, s.bucket[i])
    <3> DEFINE f == t.fwd
               g == t.bkwd
    <3>1. \A b \in R : f[b] = s.fwd[b] /\ g[b] = s.bkwd[b]
      BY <2>3
    <3> HIDE DEF f, g
    <3>2. OneRing(f, g, R, s.bucket[i])
      BY <2>2, <3>1, RingKept
    <3>3. QED
      BY <3>2 DEF f, g
  <2>5. QED
    BY <1>2, <2>1, <2>4
<1>4. QED
  BY <1>3 DEF Rings

\* The blocks of both spaces, one by one.
LEMMA WholeFacts ==
  ASSUME NEW m \in Cells, NEW B, NEW o, NEW e, Whole(m, B, o, e)
  PROVE  /\ B \subseteq Addr /\ o \in Nat /\ e \in Nat /\ o <= ArrayEnd /\ e <= ExtensionEnd
         /\ ArraySpace <= o /\ Extension <= e
         /\ \A b \in B : /\ b \in Addr /\ b \in Nat
                         /\ m[b].len \in Nat /\ m[b].len >= MINARRAYBLOCKSIZE /\ m[b].len >= 2
                         /\ m[b].len <= MAXARRAYBLOCKSIZE /\ m[b].inuse \in BOOLEAN
                         /\ m[b + m[b].len - 1] = m[b] /\ b + m[b].len - 1 \in Addr
                         /\ Span(B, b, b + m[b].len, o, e)
                         /\ b + m[b].len \in B \cup {o, e}
         /\ \A b, c \in B : b < c => b + m[b].len <= c
         /\ o \notin B /\ e \notin B
<1>1. Laid(m, Low(B), ArraySpace, o) /\ Laid(m, High(B), Extension, e) /\ o <= ArrayEnd
  BY WholeLaid
<1>2. B \subseteq Addr /\ o \in Nat /\ e \in Nat /\ e <= ExtensionEnd /\ ArraySpace <= o /\ Extension <= e
  BY WholeParts
<1>3. /\ o \notin Low(B)
      /\ \A b \in Low(B) : /\ b \in Nat /\ b < o /\ b \in Addr
                           /\ m[b].len \in Nat /\ m[b].len >= MINARRAYBLOCKSIZE /\ m[b].len >= 2
                           /\ m[b].len <= MAXARRAYBLOCKSIZE
                           /\ b + m[b].len \in Low(B) \cup {o} /\ b + m[b].len <= o
                           /\ m[b + m[b].len - 1] = m[b] /\ b + m[b].len - 1 \in Addr
      /\ \A b, c \in Low(B) : b < c => b + m[b].len <= c
  BY <1>1, LaidFacts
<1>4. /\ e \notin High(B)
      /\ \A b \in High(B) : /\ b \in Nat /\ Extension <= b /\ b < e /\ b \in Addr
                            /\ m[b].len \in Nat /\ m[b].len >= MINARRAYBLOCKSIZE /\ m[b].len >= 2
                            /\ m[b].len <= MAXARRAYBLOCKSIZE
                            /\ b + m[b].len \in High(B) \cup {e} /\ b + m[b].len <= e
                            /\ m[b + m[b].len - 1] = m[b] /\ b + m[b].len - 1 \in Addr
      /\ \A b, c \in High(B) : b < c => b + m[b].len <= c
  BY <1>1, LaidFacts
<1>5. B = Low(B) \cup High(B) /\ (\A b \in Low(B) : b \in 0 .. ArrayEnd) /\ \A b \in High(B) : b \notin 0 .. ArrayEnd
  BY DEF Low, High
<1>6. ASSUME NEW b \in Low(B)
      PROVE  Span(B, b, b + m[b].len, o, e) /\ b + m[b].len \in B \cup {o, e}
  <2>1. b \in B /\ b < b + m[b].len /\ b + m[b].len \in Low(B) \cup {o} /\ b \in 0 .. ArrayEnd
    BY <1>3, <1>5
  <2>2. QED
    BY <1>5, <2>1 DEF Span
<1>7. ASSUME NEW b \in High(B)
      PROVE  Span(B, b, b + m[b].len, o, e) /\ b + m[b].len \in B \cup {o, e}
  <2>1. b \in B /\ b < b + m[b].len /\ b + m[b].len \in High(B) \cup {e} /\ b \notin 0 .. ArrayEnd
    BY <1>4, <1>5
  <2>2. QED
    BY <1>5, <2>1 DEF Span
<1>8. ASSUME NEW b \in B PROVE m[b].inuse \in BOOLEAN
  <2>1. m[b] \in [len : 0 .. MAXARRAYBLOCKSIZE, inuse : BOOLEAN]
    BY <1>2 DEF Cells
  <2>2. QED
    BY <2>1
<1>9. ASSUME NEW b \in B, NEW c \in B, b < c PROVE b + m[b].len <= c
  <2>1. CASE b \in Low(B) /\ c \in Low(B)
    BY <1>3, <1>9, <2>1
  <2>2. CASE b \in High(B) /\ c \in High(B)
    BY <1>4, <1>9, <2>2
  <2>3. CASE b \in Low(B) /\ c \in High(B)
    <3>1. b \in Nat /\ m[b].len \in Nat /\ b + m[b].len <= o
      BY <1>3, <2>3
    <3>2. c \in Nat /\ Extension <= c
      BY <1>4, <2>3
    <3>3. QED
      BY <1>1, <1>2, <3>1, <3>2, Constants
  <2>4. CASE b \in High(B) /\ c \in Low(B)
    <3>1. b \in Nat /\ Extension <= b
      BY <1>4, <2>4
    <3>2. c \in Nat /\ c < o
      BY <1>3, <2>4
    <3>3. QED
      BY <1>1, <1>2, <1>9, <3>1, <3>2, Constants
  <2>5. QED
    BY <1>5, <2>1, <2>2, <2>3, <2>4
<1>10. o \notin B /\ e \notin B
  <2>1. o \notin High(B)
    <3>1. SUFFICES ASSUME o \in High(B) PROVE FALSE
      OBVIOUS
    <3>2. Extension <= o
      BY <1>4, <3>1
    <3>3. QED
      BY <1>1, <1>2, <3>2, Constants
  <2>2. e \notin Low(B)
    BY <1>1, <1>2, <1>3, Constants
  <2>3. QED
    BY <1>3, <1>4, <1>5, <2>1, <2>2
<1>11. ASSUME NEW b \in B
       PROVE  /\ b \in Addr /\ b \in Nat
              /\ m[b].len \in Nat /\ m[b].len >= MINARRAYBLOCKSIZE /\ m[b].len >= 2
              /\ m[b].len <= MAXARRAYBLOCKSIZE /\ m[b].inuse \in BOOLEAN
              /\ m[b + m[b].len - 1] = m[b] /\ b + m[b].len - 1 \in Addr
              /\ Span(B, b, b + m[b].len, o, e)
              /\ b + m[b].len \in B \cup {o, e}
  BY <1>3, <1>4, <1>5, <1>6, <1>7, <1>8
<1>12. QED
  BY <1>1, <1>2, <1>9, <1>10, <1>11

\* Two adjacent blocks span what both do.
LEMMA SpanTwo ==
  ASSUME NEW m \in Cells, NEW B, NEW o, NEW e, Whole(m, B, o, e), NEW b \in B, b + m[b].len \in B
  PROVE  LET c == b + m[b].len IN Span(B, b, c + m[c].len, o, e)
<1> DEFINE c == b + m[b].len
           h == c + m[c].len
<1>1. /\ o \in Nat /\ e \in Nat /\ o <= ArrayEnd /\ Extension <= e /\ o \notin B /\ e \notin B
      /\ b \in Nat /\ m[b].len \in Nat /\ m[b].len >= 2 /\ m[c].len \in Nat /\ m[c].len >= 2
      /\ Span(B, b, c, o, e) /\ Span(B, c, h, o, e) /\ c \in B
  BY WholeFacts
<1>2. b < h
  BY <1>1
<1>3. (b \in 0 .. ArrayEnd) <=> (c \in 0 .. ArrayEnd)
  <2> HIDE DEF c
  <2>1. QED
    BY <1>1 DEF Span, Low, High
<1> HIDE DEF c, h
<1>4. Span(B, b, h, o, e)
  BY <1>1, <1>2, <1>3 DEF Span
<1>5. QED
  BY <1>4 DEF c, h

\* What Sound says, one by one.
LEMMA SoundParts ==
  ASSUME NEW s, NEW B, NEW hand, NEW o, NEW e, Sound(s, B, hand, o, e)
  PROVE  /\ s \in Memory /\ s.mem \in Cells /\ Whole(s.mem, B, o, e) /\ B \subseteq Addr
         /\ hand \subseteq FreeOf(s.mem, B) /\ FreeOf(s.mem, B) \subseteq B
         /\ Rings(s, FreeOf(s.mem, B) \ hand)
<1>1. s \in Memory /\ Whole(s.mem, B, o, e) /\ hand \subseteq FreeOf(s.mem, B) /\ Rings(s, FreeOf(s.mem, B) \ hand)
  BY DEF Sound
<1>2. s.mem \in Cells
  BY <1>1, MemoryParts
<1>3. QED
  BY <1>1, <1>2 DEF Whole, FreeOf

\* deleteblock takes a free block in hand.
LEMMA SoundCut ==
  ASSUME NEW s, NEW B, NEW hand, NEW o, NEW e, Sound(s, B, hand, o, e), NEW b \in FreeOf(s.mem, B) \ hand
  PROVE  Sound(deleteblock(s, b), B, hand \cup {b}, o, e) /\ deleteblock(s, b).mem = s.mem
<1> DEFINE L == FreeOf(s.mem, B) \ hand
           d == deleteblock(s, b)
<1>1. /\ s \in Memory /\ s.mem \in Cells /\ Whole(s.mem, B, o, e) /\ B \subseteq Addr
      /\ hand \subseteq FreeOf(s.mem, B) /\ FreeOf(s.mem, B) \subseteq B /\ Rings(s, L)
  BY SoundParts
<1>2. s.mem[b].len >= MINARRAYBLOCKSIZE
  BY <1>1, WholeFacts
<1>3. L \in SUBSET Addr /\ b \in L
  BY <1>1
<1>4. d \in Memory /\ d.mem = s.mem /\ Rings(d, L \ {b})
  <2> HIDE DEF L
  <2>1. QED
    BY <1>1, <1>2, <1>3, RingsCut
<1> HIDE DEF d
<1>5. L \ {b} = FreeOf(d.mem, B) \ (hand \cup {b})
  BY <1>4
<1>6. Rings(d, FreeOf(d.mem, B) \ (hand \cup {b}))
  BY <1>4, <1>5
<1>7. hand \cup {b} \subseteq FreeOf(d.mem, B)
  BY <1>1, <1>4
<1>8. QED
  BY <1>1, <1>4, <1>6, <1>7 DEF Sound, d

\* linkblock gives a block in hand back.
LEMMA SoundPut ==
  ASSUME NEW s, NEW B, NEW hand, NEW o, NEW e, Sound(s, B, hand, o, e), NEW b \in hand
  PROVE  Sound(linkblock(s, b), B, hand \ {b}, o, e) /\ linkblock(s, b).mem = s.mem
<1> DEFINE L == FreeOf(s.mem, B) \ hand
           d == linkblock(s, b)
<1>1. /\ s \in Memory /\ s.mem \in Cells /\ Whole(s.mem, B, o, e) /\ B \subseteq Addr
      /\ hand \subseteq FreeOf(s.mem, B) /\ FreeOf(s.mem, B) \subseteq B /\ Rings(s, L)
  BY SoundParts
<1>2. s.mem[b].len >= MINARRAYBLOCKSIZE
  BY <1>1, WholeFacts
<1>3. L \in SUBSET Addr /\ b \in Addr \ L
  BY <1>1
<1>4. d \in Memory /\ d.mem = s.mem /\ Rings(d, L \cup {b})
  <2> HIDE DEF L
  <2>1. QED
    BY <1>1, <1>2, <1>3, RingsPut
<1> HIDE DEF d
<1>5. L \cup {b} = FreeOf(d.mem, B) \ (hand \ {b})
  BY <1>1, <1>4
<1>6. Rings(d, FreeOf(d.mem, B) \ (hand \ {b}))
  BY <1>4, <1>5
<1>7. hand \ {b} \subseteq FreeOf(d.mem, B)
  BY <1>1, <1>4
<1>8. QED
  BY <1>1, <1>4, <1>6, <1>7 DEF Sound, d

-----------------------------------------------------------------------------
(* arrayblockmerger.                                                       *)

\* How a length outside a word of the header wraps.
LEMMA DLwords ==
  ASSUME NEW n \in Int
  PROVE  /\ n \in 0 .. MAXARRAYBLOCKSIZE => DLword(n) = n
         /\ n < 0 /\ n >= - MAXARRAYBLOCKSIZE => DLword(n) = n + MAXARRAYBLOCKSIZE + 1
         /\ n > MAXARRAYBLOCKSIZE /\ n <= 2 * MAXARRAYBLOCKSIZE + 1 => DLword(n) = n - MAXARRAYBLOCKSIZE - 1
<1> DEFINE M == MAXARRAYBLOCKSIZE + 1
<1>1. M \in Nat \ {0}
  BY Constants
<1>2. DLword(n) = n % M
  BY DEF DLword
<1>3. n = M * (n \div M) + (n % M) /\ n % M \in 0 .. M - 1 /\ n \div M \in Int
  <2> HIDE DEF M
  <2>1. QED
    BY <1>1
<1> DEFINE q == n \div M
           r == n % M
<1>4. n = M * q + r /\ r \in 0 .. M - 1 /\ q \in Int
  BY <1>3
<1> HIDE DEF M, q, r
<1>5. n \in 0 .. M - 1 => q = 0
  BY <1>1, <1>4
<1>6. n < 0 /\ n >= 1 - M => q = -1
  BY <1>1, <1>4
<1>7. n >= M /\ n <= 2 * M - 1 => q = 1
  BY <1>1, <1>4
<1>8. (n \in 0 .. M - 1 => r = n) /\ (n < 0 /\ n >= 1 - M => r = n + M) /\ (n >= M /\ n <= 2 * M - 1 => r = n - M)
  BY <1>1, <1>4, <1>5, <1>6, <1>7
<1>9. QED
  BY <1>2, <1>8, Constants DEF M, r

\* makefreearrayblock writes the header and the trailer, and nothing else.
LEMMA MakeFree ==
  ASSUME NEW s \in Memory, NEW b \in Addr, NEW n \in 0 .. MAXARRAYBLOCKSIZE, b + n - 1 \in Addr
  PROVE  LET t == makefreearrayblock(s, b, n)
             w == [len |-> n, inuse |-> FALSE]
         IN  /\ t \in Memory /\ t.fwd = s.fwd /\ t.bkwd = s.bkwd /\ t.bucket = s.bucket
             /\ \A x \in Addr : t.mem[x] = IF x \in {b, b + n - 1} THEN w ELSE s.mem[x]
<1> DEFINE w == [len |-> n, inuse |-> FALSE]
           m == [[s.mem EXCEPT ![b] = w] EXCEPT ![b + n - 1] = w]
           t == [mem |-> m, fwd |-> s.fwd, bkwd |-> s.bkwd, bucket |-> s.bucket]
<1>1. /\ s.mem \in Cells /\ s.fwd \in Links /\ s.bkwd \in Links /\ s.bucket \in [Buckets -> Addr \cup {NIL}]
  BY MemoryParts
<1>2. w \in [len : 0 .. MAXARRAYBLOCKSIZE, inuse : BOOLEAN]
  OBVIOUS
<1>3. makefreearrayblock(s, b, n) = t
  <2> DEFINE u == [s EXCEPT !.mem[b] = w]
  <2>1. makefreearrayblock(s, b, n) = [u EXCEPT !.mem[b + n - 1] = w]
    BY DEF makefreearrayblock
  <2> HIDE DEF w
  <2>2. u = [mem |-> [s.mem EXCEPT ![b] = w], fwd |-> s.fwd, bkwd |-> s.bkwd, bucket |-> s.bucket]
    BY DEF Memory
  <2> HIDE DEF u
  <2>3. QED
    BY <2>1, <2>2
<1>4. m \in Cells /\ \A x \in Addr : m[x] = IF x \in {b, b + n - 1} THEN w ELSE s.mem[x]
  <2> HIDE DEF w
  <2>1. QED
    BY <1>1, <1>2 DEF Cells
<1> HIDE DEF m, w
<1>5. t \in Memory /\ t.fwd = s.fwd /\ t.bkwd = s.bkwd /\ t.bucket = s.bucket /\ t.mem = m
  BY <1>1, <1>4 DEF Memory
<1>6. QED
  BY <1>3, <1>4, <1>5 DEF w

\* Forgetting the header of the upper block touches the seam only.
LEMMA ForgetsOnly ==
  ASSUME NEW s \in Memory, NEW b \in Addr, b - 1 \in Addr
  PROVE  LET t == Forget(s, b)
         IN  /\ t \in Memory /\ t.bucket = s.bucket
             /\ \A x \in Addr \ {b - 1, b} : t.mem[x] = s.mem[x] /\ t.fwd[x] = s.fwd[x] /\ t.bkwd[x] = s.bkwd[x]
<1> DEFINE m == [[s.mem EXCEPT ![b - 1] = Data] EXCEPT ![b] = Data]
           f == [s.fwd EXCEPT ![b] = NIL]
           g == [s.bkwd EXCEPT ![b] = NIL]
           t == [mem |-> m, fwd |-> f, bkwd |-> g, bucket |-> s.bucket]
<1>1. /\ s.mem \in Cells /\ s.fwd \in Links /\ s.bkwd \in Links /\ s.bucket \in [Buckets -> Addr \cup {NIL}]
  BY MemoryParts
<1>2. Data \in [len : 0 .. MAXARRAYBLOCKSIZE, inuse : BOOLEAN]
  BY Constants DEF Data
<1>3. Forget(s, b) = t
  <2> DEFINE u == [s EXCEPT !.mem[b - 1] = Data]
  <2>1. u = [mem |-> [s.mem EXCEPT ![b - 1] = Data], fwd |-> s.fwd, bkwd |-> s.bkwd, bucket |-> s.bucket]
    BY DEF Memory
  <2>2. Forget(s, b) = [u EXCEPT !.mem[b] = Data, !.fwd[b] = NIL, !.bkwd[b] = NIL]
    BY DEF Forget
  <2> HIDE DEF u
  <2>3. QED
    BY <2>1, <2>2
<1>4. m \in Cells /\ \A x \in Addr \ {b - 1, b} : m[x] = s.mem[x]
  BY <1>1, <1>2 DEF Cells
<1>5. f \in Links /\ g \in Links /\ \A x \in Addr \ {b - 1, b} : f[x] = s.fwd[x] /\ g[x] = s.bkwd[x]
  BY <1>1 DEF Links
<1> HIDE DEF m, f, g
<1>6. t \in Memory /\ t.fwd = f /\ t.bkwd = g /\ t.bucket = s.bucket /\ t.mem = m
  BY <1>1, <1>4, <1>5 DEF Memory
<1>7. QED
  BY <1>3, <1>4, <1>5, <1>6

\* One block.
LEMMA OneLaid ==
  ASSUME NEW m \in Cells, NEW b \in Addr, NEW h \in Nat, h <= ExtensionEnd, m[b].len = h - b,
         h - b >= MINARRAYBLOCKSIZE, m[h - 1] = m[b]
  PROVE  Laid(m, {b}, b, h)
<1>1. b \in Nat /\ b + m[b].len = h /\ b < h
  BY Constants
<1>2. Tiled(m, {b}, b, h)
  BY <1>1 DEF Tiled
<1>3. QED
  BY <1>1, <1>2 DEF Laid

\* Two adjacent blocks tile what they cover.
LEMMA TwoLaid ==
  ASSUME NEW m \in Cells, NEW b \in Addr, NEW c \in Addr, NEW h, Laid(m, {b}, b, c), Laid(m, {c}, c, h)
  PROVE  Laid(m, {b, c}, b, h)
<1>1. SameOutside(m, m, c, h)
  BY DEF SameOutside
<1> DEFINE B == {b}
           C == {c}
<1>2. Laid(m, B, b, c) /\ Laid(m, C, c, h)
  OBVIOUS
<1> HIDE DEF B, C
<1>3. Laid(m, B \cup C, b, h)
  BY <1>1, <1>2, Grown
<1>4. B \cup C = {b, c}
  BY DEF B, C
<1>5. QED
  BY <1>3, <1>4

\* Other blocks between two boundaries, those of hand not yet on a ring.
LEMMA SoundRelaid ==
  ASSUME NEW s, NEW r \in Memory, NEW B, NEW C, NEW hand, NEW left, NEW o, NEW e, NEW l, NEW h,
         Sound(s, B, hand, o, e), Span(B, l, h, o, e), Laid(r.mem, C, l, h), SameOutside(s.mem, r.mem, l, h),
         \A b \in FreeOf(s.mem, B) : b \in l .. h - 1 <=> b \in hand,
         left \subseteq FreeOf(r.mem, C),
         Rings(r, (FreeOf(s.mem, B) \ hand) \cup (FreeOf(r.mem, C) \ left))
  PROVE  Sound(r, (B \ (l .. h - 1)) \cup C, left, o, e)
<1> DEFINE N == (B \ (l .. h - 1)) \cup C
           m == s.mem
           n == r.mem
<1>1. /\ s \in Memory /\ m \in Cells /\ Whole(m, B, o, e) /\ B \subseteq Addr
      /\ hand \subseteq FreeOf(m, B) /\ FreeOf(m, B) \subseteq B
  BY SoundParts
<1>2. n \in Cells
  BY MemoryParts
<1>3. Whole(n, N, o, e)
  <2> HIDE DEF m, n
  <2>1. Laid(n, C, l, h) /\ SameOutside(m, n, l, h)
    BY DEF m, n
  <2>2. QED
    BY <1>1, <1>2, <2>1, WholeRetiled
<1>4. \A x \in B \ (l .. h - 1) : n[x] = m[x]
  BY <1>1 DEF SameOutside
<1>5. \A x \in C : x \in l .. h - 1
  <2>1. Fits(n, C, l, h)
    <3> HIDE DEF n
    <3>1. Laid(n, C, l, h)
      BY DEF n
    <3>2. QED
      BY <3>1, TiledFits
  <2>2. QED
    BY <2>1 DEF Fits
<1>6. FreeOf(n, N) \ left = (FreeOf(m, B) \ hand) \cup (FreeOf(n, C) \ left)
  <2>1. ASSUME NEW x \in FreeOf(n, N), x \notin left PROVE x \in (FreeOf(m, B) \ hand) \cup (FreeOf(n, C) \ left)
    <3>1. CASE x \in C
      BY <2>1, <3>1 DEF FreeOf
    <3>2. CASE x \in B \ (l .. h - 1)
      <4>1. x \in FreeOf(m, B)
        BY <1>4, <2>1, <3>2 DEF FreeOf
      <4>2. QED
        BY <3>2, <4>1
    <3>3. QED
      BY <2>1, <3>1, <3>2 DEF FreeOf
  <2>2. ASSUME NEW x \in FreeOf(m, B), x \notin hand PROVE x \in FreeOf(n, N) \ left
    <3>1. x \in B \ (l .. h - 1)
      BY <1>1, <2>2
    <3>2. x \in FreeOf(n, N) /\ x \notin C
      BY <1>4, <1>5, <2>2, <3>1 DEF FreeOf
    <3>3. QED
      BY <3>2 DEF FreeOf
  <2>3. FreeOf(n, C) \subseteq FreeOf(n, N)
    BY DEF FreeOf
  <2>4. QED
    BY <2>1, <2>2, <2>3
<1>7. left \subseteq FreeOf(n, N)
  BY DEF FreeOf
<1>8. QED
  BY <1>3, <1>6, <1>7 DEF Sound

\* minblocksize is between the shortest and the longest block.
LEMMA BlockMinimum == minblocksize \in Nat /\ MINARRAYBLOCKSIZE <= minblocksize /\ minblocksize <= MAXARRAYBLOCKSIZE
BY Constants DEF minblocksize

\* Where arrayblockmerger moves the boundary when both blocks together are too long.
Resized(base, a, nl) ==
  LET secondbite == DLword(MAXARRAYBLOCKSIZE - a)
      left == DLword(nl - secondbite)
      shaveback == ShaveBack(left)
      rest == IF shaveback = 0 THEN left ELSE minblocksize
      at == LeftoverAt(base + a, secondbite, shaveback)
      big == DLword(MAXARRAYBLOCKSIZE + shaveback)
  IN  /\ rest \in Nat /\ MINARRAYBLOCKSIZE <= rest /\ rest <= MAXARRAYBLOCKSIZE
      /\ big \in Nat /\ MINARRAYBLOCKSIZE <= big /\ big <= MAXARRAYBLOCKSIZE
      /\ big + rest = a + nl /\ at = base + big /\ minblocksize <= rest /\ minblocksize <= big

\* The two blocks arrayblockmerger leaves of a long pair are long enough and cover the pair.
LEMMA MergedSizes ==
  ASSUME NEW base \in Nat, NEW a \in Nat, NEW nl \in Nat, MINARRAYBLOCKSIZE <= a, a <= MAXARRAYBLOCKSIZE,
         nl <= MAXARRAYBLOCKSIZE, minblocksize <= nl, minblocksize <= a, a + nl > MAXARRAYBLOCKSIZE
  PROVE  Resized(base, a, nl)
<1> DEFINE M == MAXARRAYBLOCKSIZE
           P == minblocksize
           second == DLword(M - a)
           left == DLword(nl - second)
           shave == ShaveBack(left)
           at == LeftoverAt(base + a, second, shave)
           big == DLword(M + shave)
<1>1. P \in Nat /\ MINARRAYBLOCKSIZE <= P /\ P <= M /\ M \in Nat /\ MINARRAYBLOCKSIZE \in Nat
  BY BlockMinimum, Constants
<1>2. second = M - a
  <2>1. M - a \in Int /\ M - a \in 0 .. M
    BY <1>1
  <2>2. QED
    BY <2>1, DLwords
<1>3. left = a + nl - M
  <2>1. nl - second = a + nl - M /\ a + nl - M \in 0 .. M
    BY <1>1, <1>2
  <2>2. QED
    BY <2>1, DLwords
<1>4. left \in 1 .. M
  BY <1>1, <1>3
<1>5. CASE left >= P
  <2>1. shave = 0
    <3> HIDE DEF left
    <3>1. QED
      BY <1>1, <1>4, <1>5 DEF ShaveBack
  <2>2. at = base + M
    <3>1. M - a \in 0 .. M /\ M - a \in Int /\ second + shave = M - a
      BY <1>1, <1>2, <2>1
    <3>2. DLword(second + shave) = M - a
      BY <3>1, DLwords
    <3>3. QED
      BY <1>1, <3>2 DEF LeftoverAt
  <2>3. big = M
    <3>1. M + shave = M /\ M \in 0 .. M /\ M \in Int
      BY <1>1, <2>1
    <3>2. QED
      BY <3>1, DLwords
  <2>4. (IF shave = 0 THEN left ELSE P) = left
    BY <2>1
  <2> HIDE DEF left, shave, at, big, second
  <2>5. M + left = a + nl
    BY <1>1, <1>3
  <2>6. QED
    BY <1>1, <1>4, <1>5, <2>2, <2>3, <2>4, <2>5 DEF left, shave, at, big, second, Resized
<1>6. CASE left < P
  <2>1. shave = left - P + M + 1
    <3>1. left - P \in Int /\ left - P < 0 /\ left - P >= - M
      BY <1>1, <1>4, <1>6
    <3>2. DLword(left - P) = left - P + M + 1
      BY <3>1, DLwords
    <3>3. QED
      BY <1>6, <3>2 DEF ShaveBack
  <2>2. shave # 0
    BY <1>1, <1>4, <2>1
  <2>3. at = base + a + nl - P
    <3> DEFINE sum == second + shave
    <3>1. sum = nl - P + M + 1
      <4> HIDE DEF second, shave, left
      <4>1. QED
        BY <1>1, <1>2, <1>3, <2>1
    <3>2. sum \in Int /\ sum > M /\ sum <= 2 * M + 1 /\ sum - M - 1 = nl - P
      BY <1>1, <3>1
    <3>3. DLword(sum) = nl - P
      <4> HIDE DEF sum
      <4>1. QED
        BY <3>2, DLwords
    <3>4. QED
      BY <1>1, <3>3 DEF LeftoverAt
  <2>4. big = a + nl - P
    <3> DEFINE sum == M + shave
    <3>1. sum = a + nl - P + M + 1
      <4> HIDE DEF shave, left
      <4>1. QED
        BY <1>1, <1>3, <2>1
    <3>2. sum \in Int /\ sum > M /\ sum <= 2 * M + 1 /\ sum - M - 1 = a + nl - P
      <4>1. a + nl - P = left - P + M
        BY <1>1, <1>3
      <4> HIDE DEF left
      <4>2. a + nl - P <= M /\ a + nl - P >= 0
        BY <1>1, <1>4, <1>6, <4>1
      <4>3. QED
        BY <1>1, <3>1, <4>2
    <3>3. QED
      <4> HIDE DEF sum
      <4>1. DLword(sum) = a + nl - P
        BY <3>2, DLwords
      <4>2. QED
        BY <4>1 DEF sum
  <2>5. (IF shave = 0 THEN left ELSE P) = P
    BY <2>2
  <2> HIDE DEF left, shave, at, big, second
  <2>6. a + nl - P <= M
    BY <1>1, <1>3, <1>4, <1>6
  <2>7. QED
    BY <1>1, <2>3, <2>4, <2>5, <2>6 DEF left, shave, at, big, second, Resized
<1>7. QED
  <2> HIDE DEF left
  <2>1. QED
    BY <1>1, <1>4, <1>5, <1>6

\* No block is shorter than what arrayblockmerger may leave over.
LongIn(m, C) == \A b \in C : minblocksize <= m[b].len

\* Between l and h only free blocks are left, all of them on their rings, and
\* only one where one is long enough.
Joined(s, r, B, l, h, o, e) ==
  \E C : /\ Laid(r.mem, C, l, h) /\ FreeOf(r.mem, C) = C
         /\ SameOutside(s.mem, r.mem, l, h)
         /\ Sound(r, (B \ (l .. h - 1)) \cup C, {}, o, e)
         /\ h - l <= MAXARRAYBLOCKSIZE => C = {l}
         /\ LongIn(r.mem, C)

\* Two blocks in hand, one after the other.
Pair(s, B, b, c, h, o, e) ==
  /\ Sound(s, B, {b, c}, o, e)
  /\ c = b + s.mem[b].len /\ h = c + s.mem[c].len

\* What Pair says of two adjacent free blocks, one by one.
LEMMA PairFacts ==
  ASSUME NEW s, NEW B, NEW b, NEW c, NEW h, NEW o, NEW e, Pair(s, B, b, c, h, o, e)
  PROVE  /\ s \in Memory /\ s.mem \in Cells /\ Sound(s, B, {b, c}, o, e) /\ B \subseteq Addr
         /\ s.mem[b].len \in Nat /\ MINARRAYBLOCKSIZE <= s.mem[b].len /\ s.mem[b].len <= MAXARRAYBLOCKSIZE
         /\ s.mem[c].len \in Nat /\ MINARRAYBLOCKSIZE <= s.mem[c].len /\ s.mem[c].len <= MAXARRAYBLOCKSIZE
         /\ b \in Nat /\ b \in Addr /\ c \in Addr /\ c \in Nat /\ c - 1 \in Addr /\ h \in Nat /\ h - 1 \in Addr
         /\ h <= ExtensionEnd
         /\ c = b + s.mem[b].len /\ h = c + s.mem[c].len
         /\ Span(B, b, h, o, e)
         /\ FreeOf(s.mem, B) \ {b, c} \in SUBSET Addr
         /\ Rings(s, FreeOf(s.mem, B) \ {b, c})
         /\ \A x \in FreeOf(s.mem, B) : x \in b .. h - 1 <=> x \in {b, c}
         /\ \A x \in FreeOf(s.mem, B) \ {b, c} : x \in Nat /\ (x < b \/ h <= x)
<1> DEFINE m == s.mem
<1>1. /\ s \in Memory /\ m \in Cells /\ Whole(m, B, o, e) /\ B \subseteq Addr
      /\ {b, c} \subseteq FreeOf(m, B) /\ FreeOf(m, B) \subseteq B
      /\ Rings(s, FreeOf(m, B) \ {b, c}) /\ c = b + m[b].len /\ h = c + m[c].len
      /\ Sound(s, B, {b, c}, o, e)
  BY SoundParts DEF Pair
<1>2. b \in B /\ c \in B
  BY <1>1
<1> HIDE DEF m
<1>3. /\ b \in Addr /\ b \in Nat /\ m[b].len \in Nat /\ m[b].len >= MINARRAYBLOCKSIZE
      /\ m[b].len <= MAXARRAYBLOCKSIZE /\ b + m[b].len - 1 \in Addr /\ m[b].len >= 2
  BY <1>1, <1>2, WholeFacts
<1>4. /\ c \in Addr /\ c \in Nat /\ m[c].len \in Nat /\ m[c].len >= MINARRAYBLOCKSIZE
      /\ m[c].len <= MAXARRAYBLOCKSIZE /\ c + m[c].len - 1 \in Addr /\ m[c].len >= 2
  BY <1>1, <1>2, WholeFacts
<1>5. \A x, y \in B : x < y => x + m[x].len <= y
  BY <1>1, WholeFacts
<1>6. Span(B, b, h, o, e)
  BY <1>1, <1>2, SpanTwo
<1>7. h \in Nat /\ h <= ExtensionEnd /\ c - 1 \in Addr /\ h - 1 \in Addr
  <2> DEFINE n == m[c].len
             a == m[b].len
  <2>1. h = c + n /\ n \in Nat /\ c + n - 1 \in Addr /\ c = b + a /\ a \in Nat /\ b + a - 1 \in Addr
    BY <1>1, <1>3, <1>4
  <2> HIDE DEF n, a
  <2>2. h - 1 \in Addr /\ c - 1 \in Addr /\ h \in Nat
    BY <1>3, <1>4, <2>1
  <2>3. QED
    BY <2>2, Constants
<1>8. ASSUME NEW x \in B, x # b, x # c PROVE x \in Nat /\ (x < b \/ h <= x)
  <2>1. x \in Nat
    BY <1>1, Constants
  <2>2. CASE x < b
    BY <2>1, <2>2
  <2>3. CASE b < x
    <3>1. c <= x
      BY <1>1, <1>2, <1>5, <2>3
    <3>2. c < x
      BY <1>4, <1>8, <2>1, <3>1
    <3>3. h <= x
      BY <1>1, <1>2, <1>5, <3>2
    <3>4. QED
      BY <2>1, <3>3
  <2>4. QED
    BY <1>3, <1>8, <2>1, <2>2, <2>3
<1>9. \A x \in FreeOf(m, B) : x \in b .. h - 1 <=> x \in {b, c}
  <2>1. ASSUME NEW x \in B PROVE x \in b .. h - 1 <=> x \in {b, c}
    <3>1. b < c /\ c < h
      BY <1>1, <1>3, <1>4
    <3>2. CASE x \in {b, c}
      BY <1>3, <1>4, <1>7, <3>1, <3>2
    <3>3. CASE x \notin {b, c}
      BY <1>3, <1>7, <1>8, <3>3
    <3>4. QED
      BY <3>2, <3>3
  <2>2. QED
    BY <1>1, <2>1
<1>10. FreeOf(m, B) \ {b, c} \in SUBSET Addr /\ \A x \in FreeOf(m, B) \ {b, c} : x \in Nat /\ (x < b \/ h <= x)
  BY <1>1, <1>8
<1>11. QED
  BY <1>1, <1>3, <1>4, <1>6, <1>7, <1>9, <1>10, Zenon DEF m

\* arrayblockmerger makes one block of a pair that fits into one.
LEMMA MergesShort ==
  ASSUME NEW s, NEW B, NEW b, NEW c, NEW h, NEW o, NEW e, Pair(s, B, b, c, h, o, e),
         h - b <= MAXARRAYBLOCKSIZE, minblocksize <= s.mem[b].len
  PROVE  Joined(s, arrayblockmerger(s, b, c), B, b, h, o, e)
<1>1. /\ s \in Memory /\ s.mem \in Cells /\ Sound(s, B, {b, c}, o, e) /\ B \subseteq Addr
      /\ Span(B, b, h, o, e)
      /\ b \in Addr /\ c \in Addr /\ c - 1 \in Addr /\ h - 1 \in Addr
      /\ \A x \in FreeOf(s.mem, B) : x \in b .. h - 1 <=> x \in {b, c}
  BY PairFacts
<1>2. /\ s.mem[b].len \in Nat /\ MINARRAYBLOCKSIZE <= s.mem[b].len /\ s.mem[b].len <= MAXARRAYBLOCKSIZE
       /\ s.mem[c].len \in Nat /\ MINARRAYBLOCKSIZE <= s.mem[c].len /\ s.mem[c].len <= MAXARRAYBLOCKSIZE
  BY PairFacts
<1>3. c = b + s.mem[b].len /\ h = c + s.mem[c].len
  BY DEF Pair
<1>4. b \in Nat /\ c \in Nat /\ h \in Nat /\ h <= ExtensionEnd
  BY PairFacts
<1> DEFINE a == s.mem[b].len
           n == s.mem[c].len
           L == FreeOf(s.mem, B) \ {b, c}
           t == Forget(s, c)
           len == h - b
           u == makefreearrayblock(t, b, len)
           r == linkblock(u, b)
           w == [len |-> len, inuse |-> FALSE]
<1>5. /\ a \in Nat /\ MINARRAYBLOCKSIZE <= a /\ a <= MAXARRAYBLOCKSIZE
       /\ n \in Nat /\ MINARRAYBLOCKSIZE <= n /\ n <= MAXARRAYBLOCKSIZE
       /\ b \in Nat /\ c \in Nat /\ h \in Nat
       /\ h <= ExtensionEnd /\ c = b + a /\ h = c + n
  BY <1>2, <1>4, <1>3
<1>6. a + n = len
  <2> HIDE DEF a, n
  <2>1. QED
    BY <1>5
<1>7. L \in SUBSET Addr /\ Rings(s, L) /\ \A x \in L : x \in Nat /\ (x < b \/ h <= x)
  BY PairFacts
<1>8. arrayblockmerger(s, b, c) = r
  <2>1. MAXARRAYBLOCKSIZE - a \in Int /\ MAXARRAYBLOCKSIZE - a \in 0 .. MAXARRAYBLOCKSIZE
    <3> HIDE DEF a, n
    <3>1. QED
      BY <1>5, Constants
  <2>2. DLword(MAXARRAYBLOCKSIZE - a) = MAXARRAYBLOCKSIZE - a
    BY <2>1, DLwords
  <2>3. a + n = len /\ len \in 0 .. MAXARRAYBLOCKSIZE /\ len \in Int
    <3> HIDE DEF a, n
    <3>1. QED
      BY <1>5, Constants
  <2>4. DLword(len) = len
    <3> HIDE DEF len
    <3>1. QED
      BY <2>3, DLwords
  <2>5. n <= DLword(MAXARRAYBLOCKSIZE - a) /\ DLword(a + n) = len
    <3> HIDE DEF a, n, len
    <3>1. n <= MAXARRAYBLOCKSIZE - a
      BY <1>5, <2>3, Constants
    <3>2. QED
      BY <2>2, <2>3, <2>4, <3>1
  <2>6. QED
    BY <2>5 DEF arrayblockmerger
<1>9. len \in 0 .. MAXARRAYBLOCKSIZE /\ len \in Nat /\ len = a + n /\ b + len = h /\ len >= MINARRAYBLOCKSIZE
      /\ b + len - 1 = h - 1
  <2> HIDE DEF a, n
  <2>1. QED
    BY <1>5, Constants
<1>10. t \in Memory /\ t.bucket = s.bucket
      /\ \A x \in Addr \ {c - 1, c} : t.mem[x] = s.mem[x] /\ t.fwd[x] = s.fwd[x] /\ t.bkwd[x] = s.bkwd[x]
  BY <1>1, ForgetsOnly
<1> HIDE DEF a, n, len, t, w
<1>11. /\ u \in Memory /\ u.fwd = t.fwd /\ u.bkwd = t.bkwd /\ u.bucket = t.bucket
      /\ \A x \in Addr : u.mem[x] = IF x \in {b, h - 1} THEN w ELSE t.mem[x]
  BY <1>1, <1>5, <1>9, <1>10, MakeFree DEF w
<1>12. {b, h - 1, c - 1, c} \subseteq b .. h - 1
  <2>1. b < c /\ c < h
    <3> HIDE DEF a, n
    <3>1. QED
      BY <1>5, Constants
  <2>2. QED
    BY <1>4, <2>1
<1> HIDE DEF u
<1>13. SameRest(s, u, b, h)
  BY <1>10, <1>11, <1>12 DEF SameRest, SameOutside
<1>14. Rings(u, L)
  <2>1. \A x \in L : x \notin b .. h - 1
    BY <1>5, <1>7
  <2> HIDE DEF L
  <2>2. QED
    BY <1>13, <1>7, <2>1, RingsKept
<1>15. u.mem[b] = w /\ u.mem[h - 1] = w /\ w.len = len
  BY <1>1, <1>5, <1>11 DEF w
<1>16. b \in Addr \ L
  BY <1>1, <1>5, <1>7
<1>17. r \in Memory /\ r.mem = u.mem /\ Rings(r, L \cup {b})
  <2>1. u.mem[b].len >= MINARRAYBLOCKSIZE
    BY <1>9, <1>15
  <2> HIDE DEF L
  <2>2. QED
    BY <1>7, <1>11, <1>14, <1>16, <2>1, RingsPut
<1> HIDE DEF r
<1>18. r.mem \in Cells /\ r.mem[b] = w /\ r.mem[h - 1] = r.mem[b] /\ r.mem[b].len = h - b
  BY <1>15, <1>17, MemoryParts DEF len
<1>19. Laid(r.mem, {b}, b, h)
  <2>1. h - b >= MINARRAYBLOCKSIZE
    BY <1>9 DEF len
  <2>2. QED
    BY <1>1, <1>5, <1>18, <2>1, OneLaid
<1>20. FreeOf(r.mem, {b}) = {b}
  BY <1>18 DEF FreeOf, w
<1>21. SameOutside(s.mem, r.mem, b, h)
  BY <1>13, <1>17 DEF SameRest
<1>22. Sound(r, (B \ (b .. h - 1)) \cup {b}, {}, o, e)
  <2> DEFINE C == {b}
             hand == {b, c}
             left == {}
  <2>1. L \cup {b} = (FreeOf(s.mem, B) \ hand) \cup (FreeOf(r.mem, C) \ left)
    BY <1>20
  <2>2. Rings(r, (FreeOf(s.mem, B) \ hand) \cup (FreeOf(r.mem, C) \ left))
    BY <1>17, <2>1
  <2>3. Sound(s, B, hand, o, e) /\ Laid(r.mem, C, b, h) /\ left \subseteq FreeOf(r.mem, C)
        /\ \A x \in FreeOf(s.mem, B) : x \in b .. h - 1 <=> x \in hand
    BY <1>1, <1>19
  <2> HIDE DEF C, hand, left
  <2>4. Sound(r, (B \ (b .. h - 1)) \cup C, left, o, e)
    BY <1>1, <1>17, <1>21, <2>2, <2>3, SoundRelaid
  <2>5. QED
    BY <2>4 DEF C, left
<1>23. LongIn(r.mem, {b})
  <2>1. minblocksize <= a
    BY DEF a
  <2>2. minblocksize <= len
    BY <1>9, <1>5, <2>1, BlockMinimum
  <2>3. QED
    BY <1>15, <1>17, <2>2 DEF LongIn
<1>24. QED
  BY <1>8, <1>19, <1>20, <1>21, <1>22, <1>23 DEF Joined

\* arrayblockmerger makes a longest block and a rest of a pair that does not.
LEMMA MergesLong ==
  ASSUME NEW s, NEW B, NEW b, NEW c, NEW h, NEW o, NEW e, Pair(s, B, b, c, h, o, e),
         h - b > MAXARRAYBLOCKSIZE, minblocksize <= s.mem[c].len, minblocksize <= s.mem[b].len
  PROVE  Joined(s, arrayblockmerger(s, b, c), B, b, h, o, e)
<1>1. /\ s \in Memory /\ s.mem \in Cells /\ Sound(s, B, {b, c}, o, e) /\ B \subseteq Addr
      /\ Span(B, b, h, o, e)
      /\ b \in Addr /\ c \in Addr /\ c - 1 \in Addr /\ h - 1 \in Addr
      /\ \A x \in FreeOf(s.mem, B) : x \in b .. h - 1 <=> x \in {b, c}
  BY PairFacts
<1>2. /\ s.mem[b].len \in Nat /\ MINARRAYBLOCKSIZE <= s.mem[b].len /\ s.mem[b].len <= MAXARRAYBLOCKSIZE
      /\ s.mem[c].len \in Nat /\ MINARRAYBLOCKSIZE <= s.mem[c].len /\ s.mem[c].len <= MAXARRAYBLOCKSIZE
  BY PairFacts
<1>3. c = b + s.mem[b].len /\ h = c + s.mem[c].len
  BY DEF Pair
<1>4. b \in Nat /\ c \in Nat /\ h \in Nat /\ h <= ExtensionEnd
  BY PairFacts
<1> DEFINE a == s.mem[b].len
           n == s.mem[c].len
           L == FreeOf(s.mem, B) \ {b, c}
           second == DLword(MAXARRAYBLOCKSIZE - a)
           over == DLword(n - second)
           shave == ShaveBack(over)
           rest == IF shave = 0 THEN over ELSE minblocksize
           at == LeftoverAt(c, second, shave)
           big == DLword(MAXARRAYBLOCKSIZE + shave)
           t == Forget(s, c)
           u == makefreearrayblock(t, at, rest)
           v == linkblock(u, at)
           x == makefreearrayblock(v, b, big)
           r == linkblock(x, b)
           w1 == [len |-> rest, inuse |-> FALSE]
           w2 == [len |-> big, inuse |-> FALSE]
<1>5. L \in SUBSET Addr /\ Rings(s, L) /\ \A y \in L : y \in Nat /\ (y < b \/ h <= y)
  BY PairFacts
<1>6. /\ a \in Nat /\ MINARRAYBLOCKSIZE <= a /\ a <= MAXARRAYBLOCKSIZE
      /\ n \in Nat /\ MINARRAYBLOCKSIZE <= n /\ n <= MAXARRAYBLOCKSIZE /\ minblocksize <= n /\ minblocksize <= a
      /\ b \in Nat /\ c \in Nat /\ h \in Nat
      /\ h <= ExtensionEnd /\ c = b + a /\ h = c + n
  BY <1>2, <1>3, <1>4
<1>7. /\ rest \in Nat /\ MINARRAYBLOCKSIZE <= rest /\ rest <= MAXARRAYBLOCKSIZE
      /\ big \in Nat /\ MINARRAYBLOCKSIZE <= big /\ big <= MAXARRAYBLOCKSIZE
      /\ big + rest = a + n /\ at = b + big /\ minblocksize <= rest /\ minblocksize <= big
  <2> HIDE DEF a, n
  <2>1. a + n > MAXARRAYBLOCKSIZE
    BY <1>6, Constants
  <2>2. Resized(b, a, n)
    BY <1>6, <2>1, MergedSizes
  <2>3. QED
    BY <1>6, <2>2, Zenon DEF Resized
<1>8. arrayblockmerger(s, b, c) = r
  <2>1. MAXARRAYBLOCKSIZE - a \in Int /\ MAXARRAYBLOCKSIZE - a \in 0 .. MAXARRAYBLOCKSIZE
    <3> HIDE DEF a
    <3>1. QED
      BY <1>6, Constants
  <2>2. second = MAXARRAYBLOCKSIZE - a
    BY <2>1, DLwords
  <2>3. ~(n <= second)
    <3> HIDE DEF a, n, second
    <3>1. QED
      BY <1>6, <2>2, Constants
  <2>4. QED
    BY <2>3 DEF arrayblockmerger
<1>9. t \in Memory /\ t.bucket = s.bucket
      /\ \A y \in Addr \ {c - 1, c} : t.mem[y] = s.mem[y] /\ t.fwd[y] = s.fwd[y] /\ t.bkwd[y] = s.bkwd[y]
  BY <1>1, ForgetsOnly
<1> HIDE DEF a, n, t, w1, w2, big, rest, at, shave, over, second
<1>10. /\ at \in Nat /\ at + rest = h /\ b < at /\ at < h /\ b < at - 1 /\ at < h - 1
       /\ at + rest - 1 = h - 1 /\ b + big = at /\ b + big - 1 = at - 1
       /\ rest \in 0 .. MAXARRAYBLOCKSIZE /\ big \in 0 .. MAXARRAYBLOCKSIZE
       /\ b < c /\ c < h
  <2>1. big >= 2 /\ rest >= 2 /\ a >= 2 /\ n >= 2
    BY <1>6, <1>7, Constants
  <2>2. at = b + big /\ h = b + big + rest
    BY <1>6, <1>7
  <2>3. at \in Nat /\ at + rest = h /\ b < at /\ at < h /\ b < at - 1 /\ at < h - 1
    BY <1>6, <1>7, <2>1, <2>2
  <2>4. at + rest - 1 = h - 1 /\ b + big = at /\ b + big - 1 = at - 1
    BY <1>6, <1>7, <2>2
  <2>5. rest \in 0 .. MAXARRAYBLOCKSIZE /\ big \in 0 .. MAXARRAYBLOCKSIZE
    BY <1>7, Constants
  <2>6. b < c /\ c < h
    BY <1>6, <2>1
  <2>7. QED
    BY <2>3, <2>4, <2>5, <2>6
<1>11. at \in Addr /\ at - 1 \in Addr
  <2>1. ArraySpace <= b /\ ArraySpace \in Nat /\ ExtensionEnd \in Nat
    BY <1>1, Constants
  <2>2. at \in ArraySpace .. ExtensionEnd - 1 /\ at - 1 \in ArraySpace .. ExtensionEnd - 1
    BY <1>4, <1>10, <2>1
  <2>3. QED
    BY <2>2 DEF Addr
<1>12. /\ u \in Memory /\ u.fwd = t.fwd /\ u.bkwd = t.bkwd /\ u.bucket = t.bucket
       /\ \A y \in Addr : u.mem[y] = IF y \in {at, h - 1} THEN w1 ELSE t.mem[y]
  <2>1. at + rest - 1 \in Addr
    BY <1>1, <1>10
  <2>2. /\ u \in Memory /\ u.fwd = t.fwd /\ u.bkwd = t.bkwd /\ u.bucket = t.bucket
        /\ \A y \in Addr : u.mem[y] = IF y \in {at, at + rest - 1} THEN w1 ELSE t.mem[y]
    BY <1>9, <1>10, <1>11, <2>1, MakeFree DEF w1
  <2>3. QED
    BY <1>10, <2>2
<1>13. {at, at - 1, b, h - 1, c - 1, c} \subseteq b .. h - 1
  BY <1>4, <1>10
<1> HIDE DEF u
<1>14. SameRest(s, u, b, h)
  BY <1>9, <1>12, <1>13 DEF SameRest, SameOutside
<1>15. Rings(u, L)
  <2>1. \A y \in L : y \notin b .. h - 1
    BY <1>5, <1>6
  <2> HIDE DEF L
  <2>2. QED
    BY <1>5, <1>14, <2>1, RingsKept
<1>16. u.mem[at] = w1 /\ u.mem[h - 1] = w1 /\ w1.len = rest /\ w2.len = big
  BY <1>1, <1>11, <1>12 DEF w1, w2
<1>17. at \in Addr \ L /\ b \in Addr \ L
  BY <1>1, <1>5, <1>6, <1>10, <1>11
<1>18. v \in Memory /\ v.mem = u.mem /\ Rings(v, L \cup {at})
  <2>1. u.mem[at].len >= MINARRAYBLOCKSIZE
    BY <1>7, <1>16
  <2> HIDE DEF L
  <2>2. QED
    BY <1>5, <1>12, <1>15, <1>17, <2>1, RingsPut
<1> HIDE DEF v
<1>19. /\ x \in Memory /\ x.fwd = v.fwd /\ x.bkwd = v.bkwd /\ x.bucket = v.bucket
       /\ \A y \in Addr : x.mem[y] = IF y \in {b, at - 1} THEN w2 ELSE v.mem[y]
  BY <1>1, <1>10, <1>11, <1>18, MakeFree DEF w2
<1>20. {b, at - 1} \subseteq b .. at - 1
  BY <1>4, <1>10
<1> HIDE DEF x
<1>21. SameRest(v, x, b, at)
  BY <1>19, <1>20 DEF SameRest, SameOutside
<1> DEFINE K == L \cup {at}
<1>22. K \in SUBSET Addr /\ b \in Addr \ K
  BY <1>5, <1>10, <1>11, <1>17, <1>6
<1>23. Rings(x, K)
  <2>1. \A y \in K : y \notin b .. at - 1
    BY <1>5, <1>6, <1>10
  <2>2. Rings(v, K)
    BY <1>18
  <2> HIDE DEF K
  <2>3. QED
    BY <1>22, <1>21, <2>1, <2>2, RingsKept
<1>24. x.mem[b] = w2 /\ x.mem[at - 1] = w2 /\ x.mem[at] = w1 /\ x.mem[h - 1] = w1
  <2>1. at \notin {b, at - 1} /\ h - 1 \notin {b, at - 1}
    BY <1>6, <1>10
  <2>2. QED
    BY <1>1, <1>11, <1>16, <1>18, <1>19, <2>1
<1>25. r \in Memory /\ r.mem = x.mem /\ Rings(r, K \cup {b})
  <2>1. x.mem[b].len >= MINARRAYBLOCKSIZE
    BY <1>7, <1>16, <1>24
  <2> HIDE DEF K
  <2>2. QED
    BY <1>19, <1>22, <1>23, <2>1, RingsPut
<1> HIDE DEF r
<1>26. r.mem \in Cells
  BY <1>25, MemoryParts
<1>27. Laid(r.mem, {b}, b, at)
  <2>1. r.mem[b].len = at - b /\ at - b >= MINARRAYBLOCKSIZE /\ r.mem[at - 1] = r.mem[b] /\ at <= ExtensionEnd
    <3>1. r.mem[b].len = at - b
      BY <1>4, <1>7, <1>10, <1>16, <1>24, <1>25
    <3>2. at - b >= MINARRAYBLOCKSIZE /\ at <= ExtensionEnd
      BY <1>4, <1>7, <1>10, Constants
    <3>3. QED
      BY <1>24, <1>25, <3>1, <3>2
  <2>2. QED
    BY <1>1, <1>10, <1>26, <2>1, OneLaid
<1>28. Laid(r.mem, {at}, at, h)
  <2>1. r.mem[at].len = h - at /\ h - at >= MINARRAYBLOCKSIZE /\ r.mem[h - 1] = r.mem[at]
    <3>1. r.mem[at] = w1 /\ r.mem[h - 1] = w1 /\ w1.len = rest
      BY <1>16, <1>24, <1>25
    <3>2. h - at = rest
      BY <1>6, <1>7, <1>10
    <3>3. QED
      BY <1>7, <3>1, <3>2
  <2>2. QED
    BY <1>6, <1>11, <1>26, <2>1, OneLaid
<1>29. Laid(r.mem, {b, at}, b, h)
  BY <1>1, <1>11, <1>26, <1>27, <1>28, TwoLaid
<1>30. FreeOf(r.mem, {b, at}) = {b, at}
  BY <1>24, <1>25 DEF FreeOf, w1, w2
<1>31. SameOutside(s.mem, r.mem, b, h)
  <2>1. \A y \in Addr : y \notin b .. h - 1 => x.mem[y] = v.mem[y]
    BY <1>13, <1>19
  <2>2. SameOutside(s.mem, u.mem, b, h)
    BY <1>14 DEF SameRest
  <2>3. QED
    BY <1>18, <1>25, <2>1, <2>2 DEF SameOutside
<1>32. Sound(r, (B \ (b .. h - 1)) \cup {b, at}, {}, o, e)
  <2> DEFINE C == {b, at}
             hand == {b, c}
             left == {}
  <2>1. K \cup {b} = (FreeOf(s.mem, B) \ hand) \cup (FreeOf(r.mem, C) \ left)
    BY <1>30
  <2>2. Rings(r, (FreeOf(s.mem, B) \ hand) \cup (FreeOf(r.mem, C) \ left))
    BY <1>25, <2>1
  <2>3. Sound(s, B, hand, o, e) /\ Laid(r.mem, C, b, h) /\ left \subseteq FreeOf(r.mem, C)
        /\ \A y \in FreeOf(s.mem, B) : y \in b .. h - 1 <=> y \in hand
    BY <1>1, <1>29
  <2> HIDE DEF C, hand, left
  <2>4. Sound(r, (B \ (b .. h - 1)) \cup C, left, o, e)
    BY <1>1, <1>25, <1>31, <2>2, <2>3, SoundRelaid
  <2>5. QED
    BY <2>4 DEF C, left
<1>33. ~(h - b <= MAXARRAYBLOCKSIZE)
  BY <1>4, Constants
<1>34. LongIn(r.mem, {b, at})
  BY <1>7, <1>16, <1>24, <1>25 DEF LongIn
<1>35. QED
  BY <1>8, <1>29, <1>30, <1>31, <1>32, <1>33, <1>34 DEF Joined

\* arrayblockmerger, both cases.
LEMMA Merges ==
  ASSUME NEW s, NEW B, NEW b, NEW c, NEW h, NEW o, NEW e, Pair(s, B, b, c, h, o, e),
         minblocksize <= s.mem[c].len, minblocksize <= s.mem[b].len
  PROVE  Joined(s, arrayblockmerger(s, b, c), B, b, h, o, e)
<1>1. b \in Nat /\ h \in Nat
  BY PairFacts
<1>2. h - b <= MAXARRAYBLOCKSIZE \/ h - b > MAXARRAYBLOCKSIZE
  BY <1>1, Constants
<1>3. QED
  BY <1>2, MergesShort, MergesLong

-----------------------------------------------------------------------------
(* mergebackward and mergeforward.                                         *)

\* A block is the first of its space or follows another.
LEMMA Predecessor ==
  ASSUME NEW m \in Cells, NEW B, NEW o, NEW e, Whole(m, B, o, e), NEW b \in B
  PROVE  /\ b \in {ArraySpace, Extension} => \A c \in B : c + m[c].len # b
         /\ b \notin {ArraySpace, Extension} => \E c \in B : c + m[c].len = b
         /\ \A c, d \in B : c + m[c].len = b /\ d + m[d].len = b => c = d
<1>1. Laid(m, Low(B), ArraySpace, o) /\ Laid(m, High(B), Extension, e) /\ o <= ArrayEnd
  BY WholeLaid
<1>2. /\ B = Low(B) \cup High(B)
      /\ \A c \in Low(B) : c \in Nat /\ ArraySpace <= c /\ m[c].len \in Nat /\ m[c].len >= 2 /\ c + m[c].len <= o
      /\ \A c \in High(B) : c \in Nat /\ Extension <= c /\ m[c].len \in Nat /\ m[c].len >= 2
      /\ o \in Nat
  BY <1>1, LaidFacts DEF Low, High
<1>3. ASSUME b \in {ArraySpace, Extension}, NEW c \in B, c + m[c].len = b PROVE FALSE
  <2>1. CASE c \in Low(B)
    BY <1>1, <1>2, <1>3, <2>1, Constants
  <2>2. CASE c \in High(B)
    BY <1>2, <1>3, <2>2, Constants
  <2>3. QED
    BY <1>2, <2>1, <2>2
<1>4. ASSUME b \notin {ArraySpace, Extension} PROVE \E c \in B : c + m[c].len = b
  <2>1. CASE b \in Low(B)
    <3>1. \E c \in Low(B) : c + m[c].len = b
      BY <1>1, <1>4, <2>1, LaidFacts
    <3>2. QED
      BY <1>2, <3>1
  <2>2. CASE b \in High(B)
    <3>1. \E c \in High(B) : c + m[c].len = b
      BY <1>1, <1>4, <2>2, LaidFacts
    <3>2. QED
      BY <1>2, <3>1
  <2>3. QED
    BY <1>2, <2>1, <2>2
<1>5. ASSUME NEW c \in B, NEW d \in B, c + m[c].len = b, d + m[d].len = b, c < d PROVE FALSE
  <2>1. c + m[c].len <= d
    BY <1>5, WholeFacts
  <2>2. d \in Nat /\ m[d].len \in Nat /\ m[d].len >= 2
    BY <1>2
  <2>3. QED
    BY <1>5, <2>1, <2>2
<1>6. ASSUME NEW c \in B, NEW d \in B, c + m[c].len = b, d + m[d].len = b PROVE c = d
  <2>1. ~(c < d) /\ ~(d < c)
    BY <1>5, <1>6
  <2>2. c \in Nat /\ d \in Nat
    BY <1>2
  <2>3. QED
    BY <2>1, <2>2
<1>7. QED
  BY <1>3, <1>4, <1>6

\* The second space, once there is one, is the extension.
SecondKnown(e) == IF ArraySpace2 = NIL THEN e = Extension ELSE ArraySpace2 = Extension

\* l is where the block that now holds b begins.
Behind(s, B, b, l) ==
  LET prev == {c \in FreeOf(s.mem, B) : c + s.mem[c].len = b}
  IN  IF merging /\ prev # {} THEN l \in prev ELSE l = b

\* A block that is not merged is linked as it is.
LEMMA JoinsNothing ==
  ASSUME NEW s, NEW B, NEW b, NEW o, NEW e, Sound(s, B, {b}, o, e), LongIn(s.mem, B)
  PROVE  Joined(s, linkblock(s, b), B, b, b + s.mem[b].len, o, e)
<1> DEFINE r == linkblock(s, b)
           m == s.mem
           h == b + m[b].len
           hand == {b}
           C == {b}
<1>1. s \in Memory /\ m \in Cells /\ Whole(m, B, o, e) /\ B \subseteq Addr /\ b \in FreeOf(m, B) /\ b \in B
  BY SoundParts DEF FreeOf
<1>2. Sound(r, B, {}, o, e) /\ r.mem = m
  <2>1. Sound(s, B, hand, o, e) /\ b \in hand
    OBVIOUS
  <2> HIDE DEF hand
  <2>2. Sound(r, B, hand \ {b}, o, e) /\ r.mem = m
    BY <2>1, SoundPut
  <2>3. QED
    BY <2>2 DEF hand
<1>3. /\ b \in Addr /\ b \in Nat /\ m[b].len \in Nat /\ m[b].len >= MINARRAYBLOCKSIZE /\ m[b].len >= 2
      /\ m[b + m[b].len - 1] = m[b] /\ b + m[b].len - 1 \in Addr
      /\ \A x, y \in B : x < y => x + m[x].len <= y
  <2> HIDE DEF m
  <2>1. QED
    BY <1>1, WholeFacts
<1> HIDE DEF r, m
<1>4. h \in Nat /\ h <= ExtensionEnd /\ h - b = m[b].len /\ h - 1 = b + m[b].len - 1
  <2> DEFINE n == m[b].len
  <2>1. b \in Nat /\ n \in Nat /\ h = b + n /\ b + n - 1 \in Addr
    BY <1>3
  <2> HIDE DEF n, h
  <2>2. h \in Nat /\ h - b = n /\ h - 1 = b + n - 1 /\ h - 1 \in Addr
    BY <2>1
  <2>3. h <= ExtensionEnd
    BY <2>2, Constants
  <2>4. QED
    BY <2>2, <2>3 DEF n
<1>5. Laid(m, C, b, h)
  <2>1. h - b >= MINARRAYBLOCKSIZE /\ m[h - 1] = m[b] /\ m[b].len = h - b
    BY <1>3, <1>4
  <2> HIDE DEF h
  <2>2. QED
    BY <1>1, <1>3, <1>4, <2>1, OneLaid
<1>6. (B \ (b .. h - 1)) \cup C = B
  <2>1. ASSUME NEW x \in B, x \in b .. h - 1 PROVE x = b
    <3>1. x \in Nat /\ b <= x /\ x < h
      BY <1>4, <2>1, <1>3
    <3>2. ~(b < x)
      BY <1>1, <1>3, <1>4, <3>1
    <3>3. QED
      BY <1>3, <3>1, <3>2
  <2>2. b \in b .. h - 1
    BY <1>3, <1>4
  <2>3. QED
    BY <1>1, <2>1, <2>2
<1>7. FreeOf(m, C) = C
  BY <1>1 DEF FreeOf
<1>8. LongIn(m, C)
  BY <1>1 DEF LongIn, m
<1>9. SameOutside(m, m, b, h)
  BY DEF SameOutside
<1>10. Sound(r, (B \ (b .. h - 1)) \cup C, {}, o, e)
  BY <1>2, <1>6
<1>11. Joined(s, r, B, b, h, o, e)
  <2>1. /\ Laid(r.mem, C, b, h) /\ FreeOf(r.mem, C) = C /\ SameOutside(s.mem, r.mem, b, h)
        /\ LongIn(r.mem, C)
    BY <1>2, <1>5, <1>7, <1>8, <1>9 DEF m
  <2> HIDE DEF h
  <2>2. QED
    BY <1>10, <2>1 DEF Joined
<1>12. QED
  BY <1>11 DEF r, m

\* mergebackward merges the block in hand with a free block that ends where it starts, and with no other.
LEMMA MergesBackward ==
  ASSUME NEW s, NEW B, NEW b, NEW o, NEW e, Sound(s, B, {b}, o, e), LongIn(s.mem, B), SecondKnown(e)
  PROVE  LET l == mergebackward(s, b).base
         IN  /\ Joined(s, mergebackward(s, b).s, B, l, b + s.mem[b].len, o, e)
             /\ Behind(s, B, b, l)
<1> DEFINE m == s.mem
           n == m[b].len
           h == b + n
           p == b - m[b - 1].len
           d == deleteblock(s, p)
<1>1. s \in Memory /\ m \in Cells /\ Whole(m, B, o, e) /\ B \subseteq Addr /\ b \in FreeOf(m, B) /\ b \in B
  BY SoundParts DEF FreeOf
<1>2. \A x \in B : /\ x \in Addr /\ x \in Nat /\ m[x].len \in Nat /\ m[x].len >= 2
                   /\ m[x + m[x].len - 1] = m[x] /\ m[x].inuse \in BOOLEAN
  <2> HIDE DEF m
  <2>1. QED
    BY <1>1, WholeFacts
<1>3. /\ b \in {ArraySpace, Extension} => \A c \in B : c + m[c].len # b
      /\ b \notin {ArraySpace, Extension} => \E c \in B : c + m[c].len = b
      /\ \A c, x \in B : c + m[c].len = b /\ x + m[x].len = b => c = x
  <2> HIDE DEF m
  <2>1. QED
    BY <1>1, Predecessor
<1>4. b \in {ArraySpace, ArraySpace2} <=> b \in {ArraySpace, Extension}
  <2>1. b # NIL
    BY <1>1, Constants
  <2>2. CASE ArraySpace2 # NIL
    BY <2>2 DEF SecondKnown
  <2>3. CASE ArraySpace2 = NIL
    <3>1. e = Extension
      BY <2>3 DEF SecondKnown
    <3>2. b # Extension
      <4>1. Laid(m, High(B), Extension, Extension)
        <5> HIDE DEF m
        <5>1. QED
          BY <1>1, <3>1, WholeLaid
      <4>2. Extension \notin High(B)
        BY <4>1, LaidFacts
      <4>3. QED
        BY <1>1, <4>2, Constants DEF High
    <3>3. QED
      BY <2>1, <2>3, <3>2
  <2>4. QED
    BY <2>2, <2>3
<1>5. ASSUME NEW c \in B, c + m[c].len = b PROVE p = c /\ m[b - 1] = m[c]
  <2>1. b - 1 = c + m[c].len - 1
    <3> DEFINE k == m[c].len
    <3>1. c + k = b /\ c \in Nat /\ k \in Nat
      BY <1>2, <1>5
    <3> HIDE DEF k
    <3>2. b - 1 = c + k - 1
      BY <3>1
    <3>3. QED
      BY <3>2 DEF k
  <2>2. m[b - 1] = m[c]
    BY <1>2, <2>1
  <2> DEFINE k == m[c].len
  <2>3. c \in Nat /\ k \in Nat /\ b = c + k /\ m[b - 1].len = k
    BY <1>2, <1>5, <2>2
  <2> HIDE DEF k
  <2>4. p = c
    BY <2>3
  <2>5. QED
    BY <2>2, <2>4
<1>6. CASE Disqualified(s, b)
  <2>1. mergebackward(s, b) = [s |-> linkblock(s, b), base |-> b]
    BY <1>6 DEF mergebackward
  <2>2. Joined(s, linkblock(s, b), B, b, h, o, e)
    BY JoinsNothing
  <2>3. Behind(s, B, b, b)
    <3>1. ASSUME merging, NEW c \in FreeOf(m, B), c + m[c].len = b PROVE FALSE
      <4>1. c \in B /\ ~m[c].inuse
        BY <3>1 DEF FreeOf
      <4>2. b \notin {ArraySpace, ArraySpace2} /\ ~m[b - 1].inuse
        BY <1>3, <1>4, <1>5, <3>1, <4>1
      <4>3. QED
        BY <1>6, <3>1, <4>2 DEF Disqualified
    <3>2. QED
      BY <3>1 DEF Behind
  <2>4. QED
    BY <2>1, <2>2, <2>3
<1>7. CASE ~Disqualified(s, b)
  <2>1. mergebackward(s, b) = [s |-> arrayblockmerger(d, p, b), base |-> p]
    BY <1>7 DEF mergebackward
  <2>2. merging /\ b \notin {ArraySpace, Extension} /\ ~m[b - 1].inuse
    BY <1>4, <1>7 DEF Disqualified
  <2>3. p \in B /\ p + m[p].len = b /\ ~m[p].inuse
    BY <1>3, <1>5, <2>2
  <2>4. p \in FreeOf(m, B) /\ p # b
    BY <1>2, <2>3 DEF FreeOf
  <2> HIDE DEF p
  <2>5. Sound(d, B, {b, p}, o, e) /\ d.mem = m
    <3> DEFINE hand == {b}
    <3>1. p \in FreeOf(s.mem, B) \ hand /\ Sound(s, B, hand, o, e)
      BY <2>4
    <3> HIDE DEF hand
    <3>2. Sound(d, B, hand \cup {p}, o, e) /\ d.mem = m
      BY <3>1, SoundCut
    <3>3. hand \cup {p} = {b, p}
      BY DEF hand
    <3>4. QED
      BY <3>2, <3>3
  <2>6. Pair(d, B, p, b, h, o, e)
    <3>1. {b, p} = {p, b}
      OBVIOUS
    <3>2. QED
      BY <2>3, <2>5, <3>1 DEF Pair
  <2> HIDE DEF d, h
  <2>7. minblocksize <= d.mem[b].len /\ minblocksize <= d.mem[p].len
    BY <1>1, <2>3, <2>5 DEF LongIn
  <2>8. Joined(d, arrayblockmerger(d, p, b), B, p, h, o, e)
    BY <2>6, <2>7, Merges
  <2>9. Joined(s, arrayblockmerger(d, p, b), B, p, h, o, e)
    BY <2>5, <2>8 DEF Joined
  <2>10. Behind(s, B, b, p)
    BY <1>3, <2>2, <2>3, <2>4 DEF Behind
  <2>11. QED
    BY <2>1, <2>9, <2>10 DEF h
<1>8. QED
  BY <1>6, <1>7

\* Where the two spaces end.
EndsKnown(o, e) ==
  IF ArraySpace2 = NIL THEN e = Extension /\ ArrayFrLst = o /\ ArrayFrLst2 = NIL
  ELSE ArraySpace2 = Extension /\ ArrayFrLst = e /\ ArrayFrLst2 = o

\* g is where what now holds the cells from l to h ends.
Ahead(s, B, l, h, g) ==
  /\ g = h \/ (h \in FreeOf(s.mem, B) /\ g = h + s.mem[h].len)
  /\ merging /\ h \in FreeOf(s.mem, B) /\ h - l <= MAXARRAYBLOCKSIZE => g = h + s.mem[h].len

\* No block starts at an end of a space, and every block is followed by a block or an end.
LEMMA EndsAreEnds ==
  ASSUME NEW m \in Cells, NEW B, NEW o, NEW e, Whole(m, B, o, e), EndsKnown(o, e)
  PROVE  /\ \A b \in B : b \notin {ArrayFrLst, ArrayFrLst2}
         /\ \A b \in B : b + m[b].len \in B \cup {ArrayFrLst, ArrayFrLst2}
<1>1. /\ B \subseteq Addr /\ o \in Nat /\ e \in Nat /\ o <= ArrayEnd /\ o \notin B /\ e \notin B
      /\ \A b \in B : /\ b \in Addr /\ b \in Nat /\ m[b].len \in Nat
                      /\ Span(B, b, b + m[b].len, o, e)
                      /\ b + m[b].len \in B \cup {o, e}
  BY WholeFacts
<1>2. Laid(m, High(B), Extension, e)
  BY WholeLaid
<1>3. CASE ArraySpace2 = NIL
  <2>1. e = Extension /\ ArrayFrLst = o /\ ArrayFrLst2 = NIL
    BY <1>3 DEF EndsKnown
  <2>2. High(B) = {}
    <3>1. \A b \in High(B) : b \in Nat /\ Extension <= b /\ b < e
      BY <1>2, LaidFacts
    <3>2. \A b \in High(B) : FALSE
      BY <2>1, <3>1, Constants
    <3>3. QED
      BY <3>2
  <2>3. ASSUME NEW b \in B PROVE b + m[b].len \in B \cup {o}
    <3>1. b \in 0 .. ArrayEnd
      BY <2>2, <2>3 DEF High
    <3>2. QED
      BY <1>1, <3>1, <2>3 DEF Span, Low
  <2>4. QED
    BY <1>1, <2>1, <2>3, Constants
<1>4. CASE ArraySpace2 # NIL
  BY <1>1, <1>4 DEF EndsKnown
<1>5. QED
  BY <1>3, <1>4

\* A second merge, of the first two blocks of what the first one left or of
\* all of it with the block behind.
LEMMA JoinedAgain ==
  ASSUME NEW s, NEW t, NEW r, NEW B, NEW C, NEW l, NEW h, NEW g, NEW o, NEW e,
         Laid(t.mem, C, l, h), FreeOf(t.mem, C) = C, SameOutside(s.mem, t.mem, l, h), LongIn(t.mem, C),
         Joined(t, r, (B \ (l .. h - 1)) \cup C, l, g, o, e),
         l < h, g \in Nat, l < g
  PROVE  /\ h <= g => Joined(s, r, B, l, g, o, e)
         /\ g \in C \cup {h} /\ h - l > MAXARRAYBLOCKSIZE => Joined(s, r, B, l, h, o, e)
<1> DEFINE N == (B \ (l .. h - 1)) \cup C
<1>1. PICK D : /\ Laid(r.mem, D, l, g) /\ FreeOf(r.mem, D) = D
               /\ SameOutside(t.mem, r.mem, l, g)
               /\ Sound(r, (N \ (l .. g - 1)) \cup D, {}, o, e)
               /\ g - l <= MAXARRAYBLOCKSIZE => D = {l}
               /\ LongIn(r.mem, D)
  BY DEF Joined
<1>2. /\ l \in Nat /\ h \in Nat /\ l \in C \cup {h}
      /\ \A x \in C : x \in Nat /\ l <= x /\ x < h /\ x \in Addr
  BY LaidFacts
<1>3. ASSUME h <= g PROVE Joined(s, r, B, l, g, o, e)
  <2>1. l .. h - 1 \subseteq l .. g - 1 /\ C \subseteq l .. g - 1
    BY <1>2, <1>3
  <2>2. (N \ (l .. g - 1)) \cup D = (B \ (l .. g - 1)) \cup D
    BY <2>1
  <2>3. SameOutside(s.mem, r.mem, l, g)
    BY <1>1, <2>1 DEF SameOutside
  <2>4. Sound(r, (B \ (l .. g - 1)) \cup D, {}, o, e)
    BY <1>1, <2>2
  <2>5. QED
    BY <1>1, <2>3, <2>4 DEF Joined
<1>4. ASSUME g \in C \cup {h}, h - l > MAXARRAYBLOCKSIZE PROVE Joined(s, r, B, l, h, o, e)
  <2> DEFINE E == (C \ (l .. g - 1)) \cup D
  <2>1. l \in C
    BY <1>2
  <2>2. Laid(r.mem, E, l, h)
    BY <1>1, <1>4, <2>1, Retiled
  <2>3. l .. g - 1 \subseteq l .. h - 1
    BY <1>2, <1>4
  <2>4. (N \ (l .. g - 1)) \cup D = (B \ (l .. h - 1)) \cup E
    BY <2>3
  <2>5. ASSUME NEW x \in C \ (l .. g - 1) PROVE r.mem[x] = t.mem[x]
    BY <1>1, <1>2 DEF SameOutside
  <2>6. FreeOf(r.mem, E) = E
    <3>1. \A x \in C \ (l .. g - 1) : ~r.mem[x].inuse
      BY <2>5 DEF FreeOf
    <3>2. \A x \in D : ~r.mem[x].inuse
      BY <1>1 DEF FreeOf
    <3>3. QED
      BY <3>1, <3>2 DEF FreeOf
  <2>7. LongIn(r.mem, E)
    BY <1>1, <2>5 DEF LongIn
  <2>8. SameOutside(s.mem, r.mem, l, h)
    BY <1>1, <2>3 DEF SameOutside
  <2>9. Sound(r, (B \ (l .. h - 1)) \cup E, {}, o, e)
    BY <1>1, <2>4
  <2>10. ~(h - l <= MAXARRAYBLOCKSIZE)
    BY <1>2, <1>4, Constants
  <2> HIDE DEF E
  <2>11. QED
    BY <2>2, <2>6, <2>7, <2>8, <2>9, <2>10 DEF Joined
<1>5. QED
  BY <1>3, <1>4

\* mergeforward merges a free block with a free block that starts where it ends, and with no other.
LEMMA MergesForward ==
  ASSUME NEW s, NEW t, NEW B, NEW l, NEW h, NEW o, NEW e, Joined(s, t, B, l, h, o, e),
         s.mem \in Cells, Whole(s.mem, B, o, e), LongIn(s.mem, B), EndsKnown(o, e), l < h
  PROVE  \E g : Joined(s, mergeforward(t, l), B, l, g, o, e) /\ Ahead(s, B, l, h, g)
<1>1. PICK C : /\ Laid(t.mem, C, l, h) /\ FreeOf(t.mem, C) = C
               /\ SameOutside(s.mem, t.mem, l, h)
               /\ Sound(t, (B \ (l .. h - 1)) \cup C, {}, o, e)
               /\ h - l <= MAXARRAYBLOCKSIZE => C = {l}
               /\ LongIn(t.mem, C)
  BY DEF Joined
<1> DEFINE N == (B \ (l .. h - 1)) \cup C
           m == t.mem
           n == l + m[l].len
           g == n + m[n].len
           d1 == deleteblock(t, n)
           d == deleteblock(d1, l)
           r == arrayblockmerger(d, l, n)
<1>2. /\ l \in Nat /\ h \in Nat /\ l \in C \cup {h} /\ h \notin C
      /\ \A x \in C : /\ x \in Nat /\ l <= x /\ x < h /\ x \in Addr
                      /\ m[x].len \in Nat /\ m[x].len >= 2 /\ x + m[x].len \in C \cup {h}
  BY <1>1, LaidFacts
<1>3. l \in C /\ l \in N /\ n \in C \cup {h} /\ l < n /\ l # n
  BY <1>2
<1>4. t \in Memory /\ m \in Cells /\ Whole(m, N, o, e) /\ N \subseteq Addr
  <2>1. Sound(t, N, {}, o, e)
    BY <1>1
  <2> HIDE DEF N, m
  <2>2. t \in Memory /\ t.mem \in Cells /\ Whole(t.mem, N, o, e) /\ N \subseteq Addr
    BY <2>1, SoundParts
  <2>3. QED
    BY <2>2 DEF m
<1>5. /\ B \subseteq Addr
      /\ \A b \in B : b \notin {ArrayFrLst, ArrayFrLst2} /\ b \in Nat
  <2>1. B \subseteq Addr
    BY WholeFacts
  <2>2. \A b \in B : b \notin {ArrayFrLst, ArrayFrLst2}
    BY EndsAreEnds
  <2>3. QED
    BY <2>1, <2>2, Constants
<1>6. /\ \A b \in N : b + m[b].len \in N \cup {ArrayFrLst, ArrayFrLst2}
      /\ \A b \in N : b \in Addr /\ b \in Nat /\ m[b].len \in Nat /\ m[b].len >= 2 /\ m[b].inuse \in BOOLEAN
  <2> HIDE DEF N, m
  <2>1. \A b \in N : b + m[b].len \in N \cup {ArrayFrLst, ArrayFrLst2}
    BY <1>4, EndsAreEnds
  <2>2. \A b \in N : b \in Addr /\ b \in Nat /\ m[b].len \in Nat /\ m[b].len >= 2 /\ m[b].inuse \in BOOLEAN
    BY <1>4, WholeFacts
  <2>3. QED
    BY <2>1, <2>2
<1>7. \A b \in B : b \notin l .. h - 1 => m[b] = s.mem[b]
  BY <1>1, <1>5 DEF SameOutside
<1>8. h \notin l .. h - 1
  BY <1>2
<1>9. CASE ~merging \/ n \in {ArrayFrLst, ArrayFrLst2} \/ m[n].inuse
  <2>1. mergeforward(t, l) = t
    BY <1>9 DEF mergeforward
  <2>2. ~(merging /\ h \in FreeOf(s.mem, B) /\ h - l <= MAXARRAYBLOCKSIZE)
    <3>1. SUFFICES ASSUME merging, h \in FreeOf(s.mem, B), h - l <= MAXARRAYBLOCKSIZE PROVE FALSE
      OBVIOUS
    <3>2. h \in B /\ ~s.mem[h].inuse
      BY <3>1 DEF FreeOf
    <3> HIDE DEF n
    <3>3. n = h
      BY <1>1, <1>3, <3>1
    <3>4. m[n] = s.mem[h] /\ n \notin {ArrayFrLst, ArrayFrLst2}
      BY <1>5, <1>7, <1>8, <3>2, <3>3
    <3> HIDE DEF m
    <3>5. QED
      BY <1>9, <3>1, <3>2, <3>4
  <2>3. Ahead(s, B, l, h, h)
    BY <2>2 DEF Ahead
  <2>4. QED
    BY <2>1, <2>3
<1>10. CASE ~(~merging \/ n \in {ArrayFrLst, ArrayFrLst2} \/ m[n].inuse)
  <2>1. mergeforward(t, l) = r
    BY <1>10 DEF mergeforward
  <2>2. n \in N /\ n \in FreeOf(m, N) /\ merging
    BY <1>3, <1>6, <1>10 DEF FreeOf
  <2>3. l \in FreeOf(m, N)
    BY <1>1, <1>3 DEF FreeOf
  <2> HIDE DEF d
  <2>4. Sound(d, N, {l, n}, o, e) /\ d.mem = m
    <3> DEFINE none == {}
               one == {n}
    <3>1. Sound(t, N, none, o, e) /\ n \in FreeOf(t.mem, N) \ none
      BY <1>1, <2>2
    <3> HIDE DEF N, none, n, d1
    <3>2. Sound(d1, N, none \cup {n}, o, e) /\ d1.mem = t.mem
      BY <3>1, SoundCut DEF d1
    <3>3. Sound(d1, N, one, o, e) /\ l \in FreeOf(d1.mem, N) \ one
      BY <1>3, <2>3, <3>2 DEF none
    <3> HIDE DEF one
    <3>4. Sound(d, N, one \cup {l}, o, e) /\ d.mem = d1.mem
      BY <3>3, SoundCut DEF d
    <3>5. one \cup {l} = {l, n}
      BY DEF one
    <3>6. QED
      BY <3>2, <3>4, <3>5
  <2> HIDE DEF d1
  <2>5. Pair(d, N, l, n, g, o, e)
    BY <2>4 DEF Pair
  <2>6. LongIn(m, N)
    <3>1. \A b \in B \ (l .. h - 1) : minblocksize <= m[b].len
      BY <1>7 DEF LongIn
    <3>2. QED
      BY <1>1, <3>1 DEF LongIn
  <2>7. g \in Nat /\ l < g /\ n < g
    <3> DEFINE k == m[n].len
    <3>1. n \in Nat /\ k \in Nat /\ k >= 2 /\ g = n + k
      BY <1>6, <2>2
    <3> HIDE DEF k, n, g
    <3>2. QED
      BY <1>2, <1>3, <3>1
  <2>8. Joined(t, r, N, l, g, o, e)
    <3>1. minblocksize <= d.mem[l].len /\ minblocksize <= d.mem[n].len
      BY <1>3, <2>2, <2>4, <2>6 DEF LongIn
    <3> HIDE DEF N, n, g
    <3>2. Joined(d, r, N, l, g, o, e)
      BY <2>5, <3>1, Merges
    <3>3. QED
      BY <2>4, <3>2 DEF Joined
  <2> HIDE DEF r
  <2>9. /\ h <= g => Joined(s, r, B, l, g, o, e)
        /\ g \in C \cup {h} /\ h - l > MAXARRAYBLOCKSIZE => Joined(s, r, B, l, h, o, e)
    <3> HIDE DEF g, n
    <3>1. Joined(t, r, (B \ (l .. h - 1)) \cup C, l, g, o, e)
      BY <2>8
    <3> HIDE DEF N
    <3>2. QED
      BY <1>1, <2>7, <3>1, JoinedAgain
  <2>10. CASE n = h
    <3>1. h \in B /\ h \in Nat
      BY <1>2, <2>2, <2>10
    <3>2. m[h] = s.mem[h]
      BY <1>7, <1>8, <3>1
    <3>3. h \in FreeOf(s.mem, B)
      BY <2>2, <2>10, <3>1, <3>2 DEF FreeOf
    <3>4. g = h + s.mem[h].len
      BY <2>10, <3>2
    <3>5. h <= g
      <4> HIDE DEF g, n
      <4>1. QED
        BY <1>2, <2>7, <2>10
    <3>6. Ahead(s, B, l, h, g)
      <4> HIDE DEF g, n
      <4>1. QED
        BY <3>3, <3>4 DEF Ahead
    <3>7. QED
      BY <2>1, <2>9, <3>5, <3>6
  <2>11. CASE n # h
    <3>1. n \in C
      BY <1>3, <2>11
    <3>2. g \in C \cup {h}
      BY <1>2, <3>1
    <3>3. ~(h - l <= MAXARRAYBLOCKSIZE)
      <4> HIDE DEF n
      <4>1. QED
        BY <1>1, <1>2, <1>3, <3>1
    <3>4. h - l > MAXARRAYBLOCKSIZE
      BY <1>2, <3>3, Constants
    <3>5. Ahead(s, B, l, h, h)
      BY <3>3 DEF Ahead
    <3> HIDE DEF g, n
    <3>6. QED
      BY <2>1, <2>9, <3>2, <3>4, <3>5
  <2>12. QED
    BY <2>10, <2>11
<1>11. QED
  BY <1>9, <1>10

-----------------------------------------------------------------------------
(* Reclaiming a block.                                                     *)

\* A block's cells hold no other block.
LEMMA BlockApart ==
  ASSUME NEW m \in Cells, NEW B, NEW o, NEW e, Whole(m, B, o, e), NEW b \in B
  PROVE  \A x \in B : x \in b .. b + m[b].len - 1 <=> x = b
<1> DEFINE n == m[b].len
<1>1. /\ \A x \in B : x \in Nat
      /\ b \in Nat /\ n \in Nat /\ n >= 2
      /\ \A x, y \in B : x < y => x + m[x].len <= y
  BY WholeFacts
<1>2. \A x \in B : b < x => b + n <= x
  BY <1>1
<1> HIDE DEF n
<1>3. ASSUME NEW x \in B PROVE x \in b .. b + n - 1 <=> x = b
  BY <1>1, <1>2
<1>4. QED
  BY <1>3 DEF n

\* makefreearrayblock on a block in use.
Handed(s, u, B, b, o, e) ==
  /\ Sound(u, B, {b}, o, e)
  /\ FreeOf(u.mem, B) = FreeOf(s.mem, B) \cup {b}
  /\ SameOutside(s.mem, u.mem, b, b + s.mem[b].len)
  /\ \A x \in B : u.mem[x].len = s.mem[x].len

\* The reclaimed block is free and in hand.
LEMMA MadeFree ==
  ASSUME NEW s, NEW B, NEW b \in UsedOf(s.mem, B), NEW o, NEW e, Sound(s, B, {}, o, e)
  PROVE  Handed(s, makefreearrayblock(s, b, s.mem[b].len), B, b, o, e)
<1> DEFINE m == s.mem
           n == m[b].len
           h == b + n
           u == makefreearrayblock(s, b, n)
           w == [len |-> n, inuse |-> FALSE]
           F == FreeOf(m, B)
           C == {b}
<1>1. s \in Memory /\ m \in Cells /\ Whole(m, B, o, e) /\ B \subseteq Addr /\ Rings(s, F) /\ F \subseteq B
  <2>1. /\ s \in Memory /\ m \in Cells /\ Whole(m, B, o, e) /\ B \subseteq Addr /\ Rings(s, F \ {}) /\ F \subseteq B
    BY SoundParts
  <2>2. F \ {} = F
    OBVIOUS
  <2>3. QED
    BY <2>1, <2>2
<1>2. b \in B /\ m[b].inuse
  BY DEF UsedOf
<1>3. /\ b \in Addr /\ b \in Nat /\ n \in Nat /\ n >= MINARRAYBLOCKSIZE /\ n >= 2 /\ n <= MAXARRAYBLOCKSIZE
      /\ b + n - 1 \in Addr /\ Span(B, b, h, o, e)
  <2> HIDE DEF m
  <2>1. QED
    BY <1>1, <1>2, WholeFacts
<1>4. \A x \in B : x \in b .. h - 1 <=> x = b
  <2>1. \A x \in B : x \in b .. b + n - 1 <=> x = b
    <3> HIDE DEF m
    <3>1. QED
      BY <1>1, <1>2, BlockApart
  <2> DEFINE k == b + n - 1
  <2>2. k = h - 1
    <3> HIDE DEF n
    <3>1. QED
      BY <1>3
  <2>3. \A x \in B : x \in b .. k <=> x = b
    BY <2>1
  <2> HIDE DEF k, h
  <2>4. QED
    BY <2>2, <2>3
<1> HIDE DEF n
<1>5. h \in Nat /\ h <= ExtensionEnd /\ b + n - 1 = h - 1 /\ h - b = n /\ n \in 0 .. MAXARRAYBLOCKSIZE
  BY <1>3, Constants
<1>6. /\ u \in Memory /\ u.fwd = s.fwd /\ u.bkwd = s.bkwd /\ u.bucket = s.bucket
      /\ \A x \in Addr : u.mem[x] = IF x \in {b, b + n - 1} THEN w ELSE m[x]
  <2>1. b + n - 1 \in Addr /\ b \in Addr /\ n \in 0 .. MAXARRAYBLOCKSIZE
    BY <1>3, <1>5
  <2>2. /\ u \in Memory /\ u.fwd = s.fwd /\ u.bkwd = s.bkwd /\ u.bucket = s.bucket
        /\ \A x \in Addr : u.mem[x] = IF x \in {b, b + n - 1} THEN w ELSE s.mem[x]
    BY <1>1, <2>1, MakeFree
  <2>3. QED
    BY <2>2
<1>7. b \in b .. h - 1 /\ h - 1 \in b .. h - 1
  BY <1>3, <1>5
<1> HIDE DEF u
<1>8. SameOutside(m, u.mem, b, h)
  BY <1>5, <1>6, <1>7 DEF SameOutside
<1>9. SameRest(s, u, b, h)
  BY <1>6, <1>8 DEF SameRest, SameOutside
<1>10. b \notin F
  BY <1>2 DEF FreeOf
<1>11. Rings(u, F)
  <2>1. F \in SUBSET Addr /\ \A x \in F : x \notin b .. h - 1
    BY <1>1, <1>4, <1>10
  <2> HIDE DEF F, h
  <2>2. QED
    BY <1>1, <1>9, <2>1, RingsKept
<1>12. u.mem \in Cells /\ u.mem[b] = w /\ u.mem[h - 1] = w
  <2>1. h - 1 \in Addr /\ h - 1 \in {b, b + n - 1}
    BY <1>3, <1>5
  <2>2. u.mem \in Cells
    BY <1>6, MemoryParts
  <2>3. QED
    BY <1>3, <1>6, <2>1, <2>2
<1>13. Laid(u.mem, C, b, h)
  <2>1. u.mem[b].len = h - b /\ h - b >= MINARRAYBLOCKSIZE /\ u.mem[h - 1] = u.mem[b]
    BY <1>3, <1>5, <1>12
  <2> HIDE DEF h
  <2>2. QED
    BY <1>3, <1>5, <1>12, <2>1, OneLaid
<1>14. FreeOf(u.mem, C) = {b}
  BY <1>12 DEF FreeOf
<1>15. (B \ (b .. h - 1)) \cup C = B
  BY <1>2, <1>4, <1>7
<1>16. Sound(u, B, {b}, o, e)
  <2> DEFINE hand == {}
             left == {b}
  <2>1. F = (FreeOf(s.mem, B) \ hand) \cup (FreeOf(u.mem, C) \ left)
    BY <1>14
  <2>2. Rings(u, (FreeOf(s.mem, B) \ hand) \cup (FreeOf(u.mem, C) \ left))
    BY <1>11, <2>1
  <2>3. /\ Sound(s, B, hand, o, e) /\ SameOutside(s.mem, u.mem, b, h) /\ left \subseteq FreeOf(u.mem, C)
        /\ \A x \in FreeOf(s.mem, B) : x \in b .. h - 1 <=> x \in hand
    BY <1>1, <1>4, <1>8, <1>10, <1>14
  <2> HIDE DEF C, hand, left, h
  <2>4. Sound(u, (B \ (b .. h - 1)) \cup C, left, o, e)
    BY <1>3, <1>6, <1>13, <2>2, <2>3, SoundRelaid
  <2>5. QED
    BY <1>15, <2>4 DEF left
<1>17. \A x \in B \ {b} : u.mem[x] = m[x]
  BY <1>1, <1>4, <1>8 DEF SameOutside
<1>18. FreeOf(u.mem, B) = F \cup {b}
  BY <1>2, <1>10, <1>12, <1>17 DEF FreeOf
<1>19. \A x \in B : u.mem[x].len = m[x].len
  BY <1>12, <1>17 DEF n
<1>20. QED
  BY <1>8, <1>16, <1>18, <1>19 DEF Handed, n, u

\* l and h delimit b and the free blocks beside it that are merged with it.
Around(m, B, b, l, h) ==
  LET c == b + m[b].len
      prev == {x \in FreeOf(m, B) : x + m[x].len = b}
  IN  /\ IF merging /\ prev # {} THEN l \in prev ELSE l = b
      /\ h = c \/ (c \in FreeOf(m, B) /\ h = c + m[c].len)
      /\ merging /\ c \in FreeOf(m, B) /\ c - l <= MAXARRAYBLOCKSIZE => h = c + m[c].len

\* reclaimarrayblock leaves a tiling in which the block and its free neighbours are free.
LEMMA Reclaims ==
  ASSUME NEW s, NEW B, NEW b \in UsedOf(s.mem, B), NEW o, NEW e, Sound(s, B, {}, o, e),
         LongIn(s.mem, B), EndsKnown(o, e)
  PROVE  LET m == mergebackward(makefreearrayblock(s, b, s.mem[b].len), b)
             r == mergeforward(m.s, m.base)
         IN  \E l, h : Joined(s, r, B, l, h, o, e) /\ Around(s.mem, B, b, l, h)
<1> DEFINE u == makefreearrayblock(s, b, s.mem[b].len)
           v == mergebackward(u, b)
           l == v.base
           r == mergeforward(v.s, l)
           m == s.mem
           c == b + m[b].len
<1>1. Handed(s, u, B, b, o, e)
  BY MadeFree
<1>2. m \in Cells /\ Whole(m, B, o, e) /\ b \in B /\ b \notin FreeOf(m, B) /\ FreeOf(m, B) \subseteq B
  BY SoundParts DEF UsedOf, FreeOf
<1> HIDE DEF u
<1>3. /\ Sound(u, B, {b}, o, e) /\ FreeOf(u.mem, B) = FreeOf(m, B) \cup {b}
      /\ SameOutside(m, u.mem, b, c) /\ \A x \in B : u.mem[x].len = m[x].len
      /\ u.mem \in Cells /\ Whole(u.mem, B, o, e)
  BY <1>1, SoundParts DEF Handed
<1>4. LongIn(u.mem, B)
  BY <1>3 DEF LongIn
<1>5. SecondKnown(e)
  BY DEF EndsKnown, SecondKnown
<1>6. /\ \A x \in B : x \in Nat /\ m[x].len \in Nat /\ m[x].len >= 2
  <2> HIDE DEF m
  <2>1. QED
    BY <1>2, WholeFacts
<1>7. Joined(u, v.s, B, l, c, o, e) /\ Behind(u, B, b, l)
  <2>1. b + u.mem[b].len = c
    BY <1>2, <1>3
  <2>2. Joined(u, v.s, B, l, b + u.mem[b].len, o, e) /\ Behind(u, B, b, l)
    BY <1>3, <1>4, <1>5, MergesBackward
  <2>3. QED
    BY <2>1, <2>2
<1> DEFINE prev == {x \in FreeOf(m, B) : x + m[x].len = b}
<1>8. b + m[b].len # b
  BY <1>2, <1>6
<1>9. prev = {x \in FreeOf(u.mem, B) : x + u.mem[x].len = b}
  BY <1>2, <1>3, <1>8
<1>10. IF merging /\ prev # {} THEN l \in prev ELSE l = b
  BY <1>7, <1>9 DEF Behind
<1>11. l \in Nat /\ b \in Nat /\ c \in Nat /\ l <= b /\ b < c /\ l \in B
  <2>1. CASE l \in prev
    BY <1>2, <1>6, <2>1
  <2>2. CASE l = b
    BY <1>2, <1>6, <2>2
  <2>3. QED
    BY <1>10, <2>1, <2>2
<1>12. PICK h : Joined(u, r, B, l, h, o, e) /\ Ahead(u, B, l, c, h)
  <2>1. l < c
    BY <1>11
  <2> HIDE DEF l, c
  <2>2. QED
    BY <1>3, <1>4, <1>7, <2>1, MergesForward
<1>13. c # b
  BY <1>11
<1>14. /\ h = c \/ (c \in FreeOf(m, B) /\ h = c + m[c].len)
       /\ merging /\ c \in FreeOf(m, B) /\ c - l <= MAXARRAYBLOCKSIZE => h = c + m[c].len
  <2>1. c \in FreeOf(u.mem, B) <=> c \in FreeOf(m, B)
    BY <1>3, <1>13
  <2>2. c \in FreeOf(m, B) => u.mem[c].len = m[c].len
    BY <1>2, <1>3
  <2> HIDE DEF c, l
  <2>3. QED
    BY <1>12, <2>1, <2>2 DEF Ahead
<1>15. h \in Nat /\ c <= h
  <2>1. CASE h = c
    BY <1>11, <2>1
  <2>2. CASE c \in FreeOf(m, B) /\ h = c + m[c].len
    BY <1>2, <1>6, <2>2
  <2>3. QED
    BY <1>14, <2>1, <2>2
<1>16. Joined(s, r, B, l, h, o, e)
  <2>1. b .. c - 1 \subseteq l .. h - 1
    <3> HIDE DEF c, l
    <3>1. QED
      BY <1>11, <1>15
  <2>2. SameOutside(u.mem, r.mem, l, h) => SameOutside(m, r.mem, l, h)
    BY <1>3, <2>1 DEF SameOutside
  <2>3. QED
    BY <1>12, <2>2 DEF Joined
<1>17. Around(m, B, b, l, h)
  <2> HIDE DEF l
  <2>1. QED
    BY <1>10, <1>14 DEF Around
<1>18. QED
  BY <1>16, <1>17 DEF u

-----------------------------------------------------------------------------
(* Allocating a block.                                                     *)

\* A block in use of n cells, made of cells between b and b + n.
Made(s, t, b, n) ==
  /\ t \in Memory
  /\ SameRest(s, t, b, b + n)
  /\ Laid(t.mem, {b}, b, b + n) /\ FreeOf(t.mem, {b}) = {}

\* Taking a block into use writes its header and trailer only.
LEMMA UsingMakes ==
  ASSUME NEW s \in Memory, NEW b \in Addr, NEW n \in MINARRAYBLOCKSIZE .. MAXARRAYBLOCKSIZE, b + n <= ExtensionEnd
  PROVE  Made(s, Using(s, b, n), b, n)
<1> DEFINE w == [len |-> n, inuse |-> TRUE]
           h == b + n
           In == b .. b + n - 1
           m0 == [x \in Addr |-> IF x \in In THEN Data ELSE s.mem[x]]
           f == [x \in Addr |-> IF x \in In THEN NIL ELSE s.fwd[x]]
           g == [x \in Addr |-> IF x \in In THEN NIL ELSE s.bkwd[x]]
           t0 == [mem |-> m0, fwd |-> f, bkwd |-> g, bucket |-> s.bucket]
           k == b + n - 1
           m1 == [m0 EXCEPT ![b] = w]
           m == [m1 EXCEPT ![k] = w]
           t == [mem |-> m, fwd |-> f, bkwd |-> g, bucket |-> s.bucket]
<1>1. /\ s.mem \in Cells /\ s.fwd \in Links /\ s.bkwd \in Links /\ s.bucket \in [Buckets -> Addr \cup {NIL}]
  BY MemoryParts
<1>2. b \in Nat /\ n \in Nat /\ n >= 2 /\ n >= MINARRAYBLOCKSIZE /\ n <= MAXARRAYBLOCKSIZE
  BY Constants
<1>3. k \in Addr /\ k \in Nat /\ h \in Nat /\ k = h - 1 /\ b < k
  <2>1. k \in Nat /\ h \in Nat /\ k = h - 1 /\ b < k
    BY <1>2
  <2> HIDE DEF k, h
  <2>2. ArraySpace <= b /\ h <= ExtensionEnd /\ ArraySpace \in Nat /\ ExtensionEnd \in Nat
    BY Constants DEF h
  <2>3. k \in ArraySpace .. ExtensionEnd - 1
    BY <1>2, <2>1, <2>2
  <2>4. QED
    BY <2>1, <2>3 DEF Addr
<1>4. Using(s, b, n) = [[t0 EXCEPT !.mem[b] = w] EXCEPT !.mem[k] = w]
  <2> DEFINE x == [s EXCEPT !.mem = m0]
             y == [x EXCEPT !.fwd = f]
             v == [y EXCEPT !.bkwd = g]
  <2>1. Using(s, b, n) = [v EXCEPT !.mem[b] = w, !.mem[k] = w]
    BY DEF Using
  <2> HIDE DEF m0, f, g, w, k
  <2>2. x = [mem |-> m0, fwd |-> s.fwd, bkwd |-> s.bkwd, bucket |-> s.bucket]
    BY DEF Memory
  <2> HIDE DEF x
  <2>3. y = [mem |-> m0, fwd |-> f, bkwd |-> s.bkwd, bucket |-> s.bucket]
    BY <2>2
  <2> HIDE DEF y
  <2>4. v = t0
    BY <2>3
  <2> HIDE DEF v, t0
  <2>5. [v EXCEPT !.mem[b] = w, !.mem[k] = w] = [[v EXCEPT !.mem[b] = w] EXCEPT !.mem[k] = w]
    OBVIOUS
  <2>6. QED
    BY <2>1, <2>4, <2>5
<1>5. Using(s, b, n) = t
  <2> DEFINE u == [t0 EXCEPT !.mem[b] = w]
  <2>1. Using(s, b, n) = [u EXCEPT !.mem[k] = w]
    BY <1>4
  <2> HIDE DEF m0, f, g, w, k
  <2>2. u = [mem |-> m1, fwd |-> f, bkwd |-> g, bucket |-> s.bucket]
    OBVIOUS
  <2> HIDE DEF u, m1
  <2>3. QED
    BY <2>1, <2>2
<1>6. w \in [len : 0 .. MAXARRAYBLOCKSIZE, inuse : BOOLEAN] /\ Data \in [len : 0 .. MAXARRAYBLOCKSIZE, inuse : BOOLEAN]
  BY <1>2, Constants DEF Data
<1>7. m0 \in Cells /\ f \in Links /\ g \in Links
  <2> HIDE DEF In, w
  <2>1. QED
    BY <1>1, <1>6 DEF Cells, Links
<1>8. \A x \in Addr : x \notin In => m0[x] = s.mem[x] /\ f[x] = s.fwd[x] /\ g[x] = s.bkwd[x]
  OBVIOUS
<1> HIDE DEF m0, f, g, w, k
<1>9. m \in Cells /\ m[b] = w /\ m[k] = w /\ \A x \in Addr \ {b, k} : m[x] = m0[x]
  BY <1>3, <1>6, <1>7 DEF Cells
<1>10. In = b .. h - 1 /\ {b, k} \subseteq In
  BY <1>2, <1>3 DEF k
<1> HIDE DEF m, In
<1>11. t \in Memory /\ t.mem = m /\ t.fwd = f /\ t.bkwd = g /\ t.bucket = s.bucket
  BY <1>1, <1>7, <1>9 DEF Memory
<1>12. SameRest(s, t, b, h)
  <2>1. \A x \in Addr : x \notin b .. h - 1 => m[x] = s.mem[x] /\ f[x] = s.fwd[x] /\ g[x] = s.bkwd[x]
    BY <1>8, <1>9, <1>10
  <2> HIDE DEF t, h
  <2>2. QED
    BY <1>11, <2>1 DEF SameRest, SameOutside
<1>13. Laid(m, {b}, b, h)
  <2>1. m[b].len = n /\ m[h - 1] = m[b]
    BY <1>3, <1>9 DEF w
  <2>2. m[b].len = h - b /\ h - b >= MINARRAYBLOCKSIZE /\ h <= ExtensionEnd
    BY <1>2, <2>1
  <2> HIDE DEF h
  <2>3. QED
    BY <1>3, <1>9, <2>1, <2>2, OneLaid
<1>14. FreeOf(m, {b}) = {}
  BY <1>9 DEF FreeOf, w
<1>15. QED
  BY <1>5, <1>11, <1>12, <1>13, <1>14 DEF Made

\* A block from a free one, with what is left of it.
Placed(s, r, B, o, e) ==
  \E C, l, h : Sound(r, (B \ (l .. h - 1)) \cup C, {}, o, e)

\* Allocation from a ring: the block is split, and its rest linked.
LEMMA TakesOld ==
  ASSUME NEW s, NEW B, NEW b \in FreeOf(s.mem, B), NEW o, NEW e, Sound(s, B, {}, o, e),
         NEW n \in Nat, minblocksize <= n, s.mem[b].len - n = 0 \/ s.mem[b].len - n >= minblocksize
  PROVE  LET rest == s.mem[b].len - n
             t == Using(deleteblock(s, b), b, n)
         IN  Placed(s, IF rest = 0 THEN t ELSE linkblock(makefreearrayblock(t, b + n, rest), b + n), B, o, e)
<1> DEFINE m == s.mem
           len == m[b].len
           h == b + len
           rest == len - n
           d == deleteblock(s, b)
           t == Using(d, b, n)
           c == b + n
           u == makefreearrayblock(t, c, rest)
           r == linkblock(u, c)
           L == FreeOf(m, B) \ {b}
           w == [len |-> rest, inuse |-> FALSE]
           none == {}
           hand == {b}
<1>1. s \in Memory /\ m \in Cells /\ Whole(m, B, o, e) /\ B \subseteq Addr /\ b \in B /\ FreeOf(m, B) \subseteq B
  BY SoundParts DEF FreeOf
<1>2. /\ b \in Addr /\ b \in Nat /\ len \in Nat /\ len >= MINARRAYBLOCKSIZE /\ len >= 2
      /\ len <= MAXARRAYBLOCKSIZE /\ b + len - 1 \in Addr /\ Span(B, b, h, o, e)
  <2> HIDE DEF m
  <2>1. QED
    BY <1>1, WholeFacts
<1>3. \A x \in B : x \in b .. b + len - 1 <=> x = b
  <2> HIDE DEF m
  <2>1. QED
    BY <1>1, BlockApart
<1>4. rest = 0 \/ (rest \in Nat /\ rest >= minblocksize)
  <2>1. rest = 0 \/ rest >= minblocksize
    OBVIOUS
  <2> HIDE DEF len
  <2>2. rest \in Int
    BY <1>2
  <2> HIDE DEF rest
  <2>3. QED
    BY <2>1, <2>2, BlockMinimum
<1>5. Sound(d, B, hand, o, e) /\ d.mem = m
  <2>1. Sound(s, B, none, o, e) /\ b \in FreeOf(s.mem, B) \ none
    OBVIOUS
  <2>2. none \cup {b} = hand
    OBVIOUS
  <2> HIDE DEF none, hand
  <2>3. Sound(d, B, none \cup {b}, o, e) /\ d.mem = m
    BY <2>1, SoundCut
  <2>4. QED
    BY <2>2, <2>3
<1>6. d \in Memory /\ Rings(d, L)
  <2>1. d \in Memory /\ Rings(d, FreeOf(d.mem, B) \ hand)
    <3> HIDE DEF d, hand
    <3>1. QED
      BY <1>5, SoundParts
  <2>2. QED
    BY <1>5, <2>1
<1>7. L \in SUBSET Addr /\ b \notin L /\ L \subseteq B
  BY <1>1
<1> HIDE DEF d, len
<1>8. /\ n \in MINARRAYBLOCKSIZE .. MAXARRAYBLOCKSIZE /\ n <= len /\ c <= h /\ c <= ExtensionEnd
      /\ h \in Nat /\ c \in Nat /\ h <= ExtensionEnd /\ b < c /\ b + len - 1 = h - 1
  <2>1. n <= len /\ n >= MINARRAYBLOCKSIZE /\ n <= MAXARRAYBLOCKSIZE
    BY <1>2, <1>4, BlockMinimum, Constants
  <2>2. n >= 2 /\ h \in Nat /\ c \in Nat /\ c <= h /\ b < c /\ b + len - 1 = h - 1
    BY <1>2, <2>1, Constants
  <2>3. h - 1 \in Addr
    BY <1>2, <2>2
  <2> HIDE DEF h, c
  <2>4. h <= ExtensionEnd /\ c <= ExtensionEnd
    BY <2>2, <2>3, Constants
  <2>5. QED
    BY <2>1, <2>2, <2>4, Constants
<1>9. \A x \in B : x \in b .. h - 1 <=> x = b
  BY <1>3, <1>8
<1>10. Made(d, t, b, n)
  <2> HIDE DEF t
  <2>1. b + n <= ExtensionEnd
    BY <1>8
  <2>2. QED
    BY <1>2, <1>6, <1>8, <2>1, UsingMakes DEF t
<1>11. t \in Memory /\ SameRest(d, t, b, c) /\ Laid(t.mem, {b}, b, c) /\ FreeOf(t.mem, {b}) = {}
  BY <1>10 DEF Made
<1> HIDE DEF t, h, c
<1>12. b .. c - 1 \subseteq b .. h - 1
  BY <1>2, <1>8
<1>13. Rings(t, L)
  <2>1. \A x \in L : x \notin b .. c - 1
    BY <1>7, <1>9, <1>12
  <2> HIDE DEF L
  <2>2. QED
    BY <1>6, <1>7, <1>11, <2>1, RingsKept
<1>14. SameOutside(d.mem, t.mem, b, h)
  BY <1>11, <1>12 DEF SameRest, SameOutside
<1>15. \A x \in FreeOf(d.mem, B) : x \in b .. h - 1 <=> x \in hand
  BY <1>1, <1>5, <1>9
<1>16. CASE rest = 0
  <2> DEFINE C == {b}
  <2>1. c = h
    BY <1>2, <1>16 DEF h, c
  <2>2. Laid(t.mem, C, b, h) /\ FreeOf(t.mem, C) = {}
    BY <1>11, <2>1
  <2>3. L = (FreeOf(d.mem, B) \ hand) \cup (FreeOf(t.mem, C) \ none)
    BY <1>5, <2>2
  <2>4. Rings(t, (FreeOf(d.mem, B) \ hand) \cup (FreeOf(t.mem, C) \ none)) /\ none \subseteq FreeOf(t.mem, C)
    BY <1>13, <2>3
  <2> HIDE DEF C, hand, none, L
  <2>5. Sound(t, (B \ (b .. h - 1)) \cup C, none, o, e)
    BY <1>2, <1>5, <1>11, <1>14, <1>15, <2>2, <2>4, SoundRelaid DEF h
  <2>6. Placed(s, t, B, o, e)
    BY <2>5 DEF Placed, none
  <2>7. QED
    BY <1>16, <2>6 DEF t, len, d
<1>17. CASE rest # 0
  <2> DEFINE C == {b, c}
  <2>1. /\ rest \in Nat /\ rest >= MINARRAYBLOCKSIZE /\ rest >= 2 /\ rest \in 0 .. MAXARRAYBLOCKSIZE
        /\ c + rest = h /\ c + rest - 1 = h - 1 /\ c < h /\ b < c /\ c < h - 1
    <3>1. rest \in Nat /\ rest >= MINARRAYBLOCKSIZE /\ rest >= 2
      BY <1>4, <1>17, BlockMinimum, Constants
    <3>2. rest <= MAXARRAYBLOCKSIZE /\ rest \in 0 .. MAXARRAYBLOCKSIZE
      BY <1>2, <3>1, Constants
    <3>3. c + rest = h
      BY <1>2 DEF h, c
    <3> HIDE DEF rest
    <3>4. QED
      BY <1>8, <3>1, <3>2, <3>3
  <2> HIDE DEF rest
  <2>2. c \in Addr /\ h - 1 \in Addr
    <3>1. h - 1 \in Addr
      BY <1>2, <1>8
    <3>2. c \in ArraySpace .. ExtensionEnd - 1
      <4>1. ArraySpace <= b /\ ArraySpace \in Nat /\ ExtensionEnd \in Nat
        BY <1>2, Constants
      <4>2. QED
        BY <1>2, <1>8, <2>1, <4>1
    <3>3. QED
      BY <3>1, <3>2 DEF Addr
  <2>3. /\ u \in Memory /\ u.fwd = t.fwd /\ u.bkwd = t.bkwd /\ u.bucket = t.bucket
        /\ \A x \in Addr : u.mem[x] = IF x \in {c, h - 1} THEN w ELSE t.mem[x]
    <3>1. c + rest - 1 \in Addr
      BY <2>1, <2>2
    <3>2. /\ u \in Memory /\ u.fwd = t.fwd /\ u.bkwd = t.bkwd /\ u.bucket = t.bucket
          /\ \A x \in Addr : u.mem[x] = IF x \in {c, c + rest - 1} THEN w ELSE t.mem[x]
      BY <1>11, <2>1, <2>2, <3>1, MakeFree
    <3>3. QED
      BY <2>1, <3>2
  <2> HIDE DEF u, w
  <2>4. {c, h - 1} \subseteq c .. h - 1 /\ c .. h - 1 \subseteq b .. h - 1
    BY <1>2, <1>8, <2>1
  <2>5. SameRest(t, u, c, h)
    BY <2>3, <2>4 DEF SameRest, SameOutside
  <2>6. Rings(u, L)
    <3>1. \A x \in L : x \notin c .. h - 1
      BY <1>7, <1>9, <2>4
    <3> HIDE DEF L
    <3>2. QED
      BY <1>7, <1>13, <2>5, <3>1, RingsKept
  <2>7. c \in Addr \ L
    BY <1>7, <1>9, <2>1, <2>2, <2>4
  <2>8. u.mem[c] = w /\ u.mem[h - 1] = w /\ w.len = rest
    BY <2>2, <2>3 DEF w
  <2>9. r \in Memory /\ r.mem = u.mem /\ Rings(r, L \cup {c})
    <3>1. u.mem[c].len >= MINARRAYBLOCKSIZE
      BY <2>1, <2>8
    <3> HIDE DEF L
    <3>2. QED
      BY <1>7, <2>3, <2>6, <2>7, <3>1, RingsPut
  <2> HIDE DEF r
  <2>10. u.mem \in Cells
    BY <2>3, MemoryParts
  <2>11. SameOutside(t.mem, u.mem, c, h)
    BY <2>5 DEF SameRest
  <2>12. Laid(u.mem, {c}, c, h)
    <3>1. u.mem[c].len = h - c /\ h - c >= MINARRAYBLOCKSIZE /\ u.mem[h - 1] = u.mem[c]
      BY <1>8, <2>1, <2>8
    <3>2. QED
      BY <1>8, <2>2, <2>10, <3>1, OneLaid
  <2>13. Laid(u.mem, C, b, h) /\ u.mem[b] = t.mem[b]
    <3> DEFINE B1 == {b}
               C1 == {c}
    <3>1. Laid(t.mem, B1, b, c) /\ Laid(u.mem, C1, c, h)
      BY <1>11, <2>12
    <3>2. B1 \cup C1 = C
      OBVIOUS
    <3> HIDE DEF B1, C1, C
    <3>3. Laid(u.mem, B1 \cup C1, b, h)
      BY <2>11, <3>1, Grown
    <3>4. u.mem[b] = t.mem[b]
      BY <1>2, <1>8, <2>3, <2>1
    <3>5. QED
      BY <3>2, <3>3, <3>4
  <2>14. FreeOf(u.mem, C) = {c}
    <3>1. t.mem[b].inuse
      BY <1>11 DEF FreeOf
    <3>2. QED
      BY <2>8, <2>13, <3>1 DEF FreeOf, w
  <2>15. SameOutside(d.mem, r.mem, b, h) /\ Laid(r.mem, C, b, h)
    BY <1>14, <2>4, <2>9, <2>11, <2>13 DEF SameOutside
  <2>16. L \cup {c} = (FreeOf(d.mem, B) \ hand) \cup (FreeOf(r.mem, C) \ none)
    BY <1>5, <2>9, <2>14
  <2>17. Rings(r, (FreeOf(d.mem, B) \ hand) \cup (FreeOf(r.mem, C) \ none)) /\ none \subseteq FreeOf(r.mem, C)
    BY <2>9, <2>16
  <2> HIDE DEF C, hand, none, L
  <2>18. Sound(r, (B \ (b .. h - 1)) \cup C, none, o, e)
    BY <1>2, <1>5, <1>15, <2>9, <2>15, <2>17, SoundRelaid DEF h
  <2>19. Placed(s, r, B, o, e)
    BY <2>18 DEF Placed, none
  <2>20. Placed(s, IF rest = 0 THEN t ELSE r, B, o, e)
    BY <1>17, <2>19 DEF rest
  <2>21. QED
    BY <2>20 DEF t, len, u, r, c, d, rest
<1>18. QED
  BY <1>16, <1>17

-----------------------------------------------------------------------------
(* Array space grows at the end of a space.                                *)

\* One of the two spaces grows by C, up to h.
Growth(B, C, l, h, o, e, o2, e2) ==
  \/ l = o /\ h <= ArrayEnd /\ o2 = h /\ e2 = e
  \/ l = e /\ o2 = o /\ e2 = h

\* A space may be tiled further.
LEMMA WholeGrown ==
  ASSUME NEW m \in Cells, NEW n \in Cells, NEW B, NEW C, NEW l, NEW h, NEW o, NEW e, NEW o2, NEW e2,
         Whole(m, B, o, e), Laid(n, C, l, h), SameOutside(m, n, l, h), Growth(B, C, l, h, o, e, o2, e2)
  PROVE  Whole(n, B \cup C, o2, e2) /\ \A b \in B : b \notin l .. h - 1
<1>1. Laid(m, Low(B), ArraySpace, o) /\ Laid(m, High(B), Extension, e) /\ o <= ArrayEnd
  BY WholeLaid
<1>2. /\ B \subseteq Addr /\ o \in Nat /\ e \in Nat /\ ArraySpace <= o /\ Extension <= e /\ e <= ExtensionEnd
  BY WholeParts
<1>3. /\ \A b \in Low(B) : b \in Nat /\ b < o
      /\ \A b \in High(B) : b \in Nat /\ Extension <= b /\ b < e
      /\ l \in Nat /\ h \in Nat /\ l <= h
      /\ \A b \in C : b \in Nat /\ l <= b /\ b < h
  BY <1>1, LaidFacts
<1>4. B = Low(B) \cup High(B)
  BY DEF Low, High
<1>5. CASE l = o /\ h <= ArrayEnd /\ o2 = h /\ e2 = e
  <2>1. \A b \in C : b \in 0 .. ArrayEnd
    BY <1>3, <1>5, Constants
  <2>2. Low(B \cup C) = Low(B) \cup C /\ High(B \cup C) = High(B)
    BY <2>1 DEF Low, High
  <2>3. Laid(n, Low(B) \cup C, ArraySpace, h)
    BY <1>1, <1>5, Grown
  <2>4. Laid(n, High(B), Extension, e)
    <3>1. h <= Extension
      BY <1>3, <1>5, Constants
    <3>2. QED
      BY <1>1, <1>3, <3>1, Untouched
  <2>5. Whole(n, B \cup C, h, e)
    BY <1>5, <2>2, <2>3, <2>4, WholeLaid
  <2>6. ASSUME NEW b \in B PROVE b \notin l .. h - 1
    <3>1. CASE b \in Low(B)
      BY <1>3, <1>5, <3>1
    <3>2. CASE b \in High(B)
      BY <1>3, <1>5, <3>2, Constants
    <3>3. QED
      BY <1>4, <3>1, <3>2
  <2>7. QED
    BY <1>5, <2>5, <2>6
<1>6. CASE l = e /\ o2 = o /\ e2 = h
  <2>1. \A b \in C : b \notin 0 .. ArrayEnd
    BY <1>2, <1>3, <1>6, Constants
  <2>2. Low(B \cup C) = Low(B) /\ High(B \cup C) = High(B) \cup C
    BY <2>1 DEF Low, High
  <2>3. Laid(n, High(B) \cup C, Extension, h)
    BY <1>1, <1>6, Grown
  <2>4. Laid(n, Low(B), ArraySpace, o)
    <3>1. o <= l
      BY <1>1, <1>2, <1>6, Constants
    <3>2. QED
      BY <1>1, <1>3, <3>1, Untouched
  <2>5. Whole(n, B \cup C, o, h)
    BY <1>1, <2>2, <2>3, <2>4, WholeLaid
  <2>6. ASSUME NEW b \in B PROVE b \notin l .. h - 1
    <3>1. CASE b \in Low(B)
      BY <1>1, <1>2, <1>3, <1>6, <3>1, Constants
    <3>2. CASE b \in High(B)
      BY <1>3, <1>6, <3>2
    <3>3. QED
      BY <1>4, <3>1, <3>2
  <2>7. QED
    BY <1>6, <2>5, <2>6
<1>7. QED
  BY <1>5, <1>6 DEF Growth

\* The same with the rings.
LEMMA SoundGrown ==
  ASSUME NEW s, NEW r \in Memory, NEW B, NEW C, NEW l, NEW h, NEW o, NEW e, NEW o2, NEW e2,
         Sound(s, B, {}, o, e), Laid(r.mem, C, l, h), SameRest(s, r, l, h), Growth(B, C, l, h, o, e, o2, e2)
  PROVE  Sound(r, B \cup C, FreeOf(r.mem, C), o2, e2)
<1> DEFINE m == s.mem
           n == r.mem
           F == FreeOf(m, B)
           G == FreeOf(n, C)
<1>1. s \in Memory /\ m \in Cells /\ Whole(m, B, o, e) /\ B \subseteq Addr /\ F \subseteq B /\ Rings(s, F \ {})
  BY SoundParts
<1>2. n \in Cells
  BY MemoryParts
<1>3. SameOutside(m, n, l, h)
  BY DEF SameRest
<1>4. Whole(n, B \cup C, o2, e2) /\ \A b \in B : b \notin l .. h - 1
  <2>1. Laid(n, C, l, h)
    OBVIOUS
  <2> HIDE DEF m, n
  <2>2. QED
    BY <1>1, <1>2, <1>3, <2>1, WholeGrown
<1>5. Rings(r, F)
  <2>1. Rings(s, F) /\ F \in SUBSET Addr /\ \A b \in F : b \notin l .. h - 1
    <3>1. F \ {} = F
      OBVIOUS
    <3>2. QED
      BY <1>1, <1>4, <3>1
  <2> HIDE DEF F
  <2>2. QED
    BY <2>1, RingsKept
<1>6. \A b \in C : b \in l .. h - 1
  <2>1. \A b \in C : b \in Nat /\ l <= b /\ b < h /\ l \in Nat /\ h \in Nat
    BY LaidFacts
  <2>2. QED
    BY <2>1
<1>7. \A b \in B : n[b] = m[b] /\ b \notin C
  BY <1>1, <1>3, <1>4, <1>6 DEF SameOutside
<1>8. FreeOf(n, B \cup C) = F \cup G /\ F \cap G = {}
  BY <1>7 DEF FreeOf
<1>9. FreeOf(n, B \cup C) \ G = F /\ G \subseteq FreeOf(n, B \cup C)
  BY <1>8
<1>10. QED
  BY <1>4, <1>5, <1>9 DEF Sound

\* Allocation at the end of a space.
LEMMA TakesNew ==
  ASSUME NEW s, NEW B, NEW n \in Nat, NEW l, NEW o, NEW e, NEW o2, NEW e2, Sound(s, B, {}, o, e),
         minblocksize <= n, n <= MAXARRAYBLOCKSIZE,
         (l = o /\ l + n <= ArrayEnd /\ o2 = l + n /\ e2 = e) \/ (l = e /\ l + n <= ExtensionEnd /\ o2 = o /\ e2 = l + n)
  PROVE  \E N : Sound(Using(s, l, n), N, {}, o2, e2)
<1> DEFINE h == l + n
           r == Using(s, l, n)
           C == {l}
<1>1. s \in Memory /\ s.mem \in Cells /\ Whole(s.mem, B, o, e)
  BY SoundParts
<1>2. /\ o \in Nat /\ e \in Nat /\ ArraySpace <= o /\ o <= ArrayEnd /\ Extension <= e /\ e <= ExtensionEnd
  BY <1>1, WholeParts
<1>3. n \in MINARRAYBLOCKSIZE .. MAXARRAYBLOCKSIZE /\ n >= 2
  BY BlockMinimum, Constants
<1>4. l \in Addr /\ h <= ExtensionEnd /\ l \in Nat
  <2>1. l \in Nat /\ ArraySpace <= l /\ h <= ExtensionEnd
    BY <1>2, Constants
  <2>2. l \in ArraySpace .. ExtensionEnd - 1
    BY <1>3, <2>1, Constants
  <2>3. QED
    BY <2>1, <2>2 DEF Addr
<1>5. Made(s, r, l, n)
  BY <1>1, <1>3, <1>4, UsingMakes
<1> HIDE DEF r
<1>6. r \in Memory /\ SameRest(s, r, l, h) /\ Laid(r.mem, C, l, h) /\ FreeOf(r.mem, C) = {}
  BY <1>5 DEF Made
<1>7. Growth(B, C, l, h, o, e, o2, e2)
  BY DEF Growth
<1> HIDE DEF C, h
<1>8. Sound(r, B \cup C, FreeOf(r.mem, C), o2, e2)
  BY <1>6, <1>7, SoundGrown
<1>9. QED
  BY <1>6, <1>8 DEF r

\* advance_array_seg: the rest of a page becomes a block and is merged.
LEMMA Advances ==
  ASSUME NEW s, NEW B, NEW n \in Nat, NEW o, Sound(s, B, {}, o, Extension), LongIn(s.mem, B),
         minblocksize <= n, n <= MAXARRAYBLOCKSIZE, o + n <= ArrayEnd, ArraySpace2 = NIL
  PROVE  \E N : Sound(mergebackward(makefreearrayblock(s, o, DLword(n)), o).s, N, {}, o + n, Extension)
<1> DEFINE h == o + n
           u == makefreearrayblock(s, o, n)
           w == [len |-> n, inuse |-> FALSE]
           C == {o}
           N == B \cup C
           v == mergebackward(u, o)
<1>1. s \in Memory /\ s.mem \in Cells /\ Whole(s.mem, B, o, Extension) /\ B \subseteq Addr
  BY SoundParts
<1>2. o \in Nat /\ ArraySpace <= o
  BY <1>1, WholeParts
<1>3. n \in 0 .. MAXARRAYBLOCKSIZE /\ n >= 2 /\ n >= MINARRAYBLOCKSIZE /\ n \in Int
  BY BlockMinimum, Constants
<1>4. DLword(n) = n
  BY <1>3, DLwords
<1>5. /\ h \in Nat /\ h <= ExtensionEnd /\ o < h /\ h - o = n /\ o + n - 1 = h - 1
      /\ o \in Addr /\ h - 1 \in Addr
  <2>1. h \in Nat /\ h <= ExtensionEnd /\ o < h /\ h - o = n /\ o + n - 1 = h - 1
    BY <1>2, <1>3, Constants
  <2> HIDE DEF h
  <2>2. o \in ArraySpace .. ExtensionEnd - 1 /\ h - 1 \in ArraySpace .. ExtensionEnd - 1
    BY <1>2, <2>1, Constants
  <2>3. QED
    BY <2>1, <2>2 DEF Addr
<1>6. /\ u \in Memory /\ u.fwd = s.fwd /\ u.bkwd = s.bkwd /\ u.bucket = s.bucket
      /\ \A x \in Addr : u.mem[x] = IF x \in {o, o + n - 1} THEN w ELSE s.mem[x]
  <2>1. o + n - 1 \in Addr
    BY <1>5
  <2>2. QED
    BY <1>1, <1>3, <1>5, <2>1, MakeFree
<1>7. {o, h - 1} \subseteq o .. h - 1
  BY <1>2, <1>5
<1> HIDE DEF u, h, w
<1>8. SameRest(s, u, o, h)
  BY <1>5, <1>6, <1>7 DEF SameRest, SameOutside
<1>9. u.mem \in Cells /\ u.mem[o] = w /\ u.mem[h - 1] = w /\ w.len = n /\ ~w.inuse
  <2>1. u.mem \in Cells
    BY <1>6, MemoryParts
  <2>2. QED
    BY <1>5, <1>6, <2>1 DEF w
<1>10. Laid(u.mem, C, o, h) /\ FreeOf(u.mem, C) = {o}
  <2>1. u.mem[o].len = h - o /\ h - o >= MINARRAYBLOCKSIZE /\ u.mem[h - 1] = u.mem[o]
    BY <1>3, <1>5, <1>9
  <2>2. Laid(u.mem, C, o, h)
    BY <1>5, <1>9, <2>1, OneLaid
  <2>3. QED
    BY <1>9, <2>2 DEF FreeOf
<1>11. Sound(u, N, {o}, h, Extension)
  <2>1. Growth(B, C, o, h, o, Extension, h, Extension)
    BY DEF Growth, h
  <2>2. Laid(u.mem, C, o, h)
    BY <1>10
  <2> HIDE DEF C
  <2>3. Sound(u, B \cup C, FreeOf(u.mem, C), h, Extension)
    BY <1>6, <1>8, <2>1, <2>2, SoundGrown
  <2>4. QED
    BY <1>10, <2>3 DEF C
<1>12. LongIn(u.mem, N)
  <2>1. \A b \in B : b \in Addr /\ b \notin {o}
    BY <1>1, WholeFacts
  <2>2. \A b \in B : u.mem[b].len = s.mem[b].len
    <3>1. ASSUME NEW b \in B PROVE u.mem[b].len = s.mem[b].len
      <4>1. b # h - 1
        <5>1. SUFFICES ASSUME b = h - 1 PROVE FALSE
          OBVIOUS
        <5>2. b \in B /\ b \in Low(B) /\ b < o
          <6>1. Laid(s.mem, Low(B), ArraySpace, o)
            BY <1>1, WholeLaid
          <6>2. b \in Low(B)
            BY <1>2, <1>5, <5>1, Constants DEF Low, h
          <6>3. QED
            BY <6>1, <6>2, LaidFacts
        <5>3. QED
          BY <1>2, <1>5, <5>1, <5>2
      <4>2. QED
        BY <1>5, <1>6, <2>1, <4>1
    <3>2. QED
      BY <3>1
  <2>3. minblocksize <= u.mem[o].len
    BY <1>9
  <2>4. QED
    BY <2>2, <2>3 DEF LongIn
<1>13. SecondKnown(Extension)
  BY DEF SecondKnown
<1>14. Joined(u, v.s, N, v.base, o + u.mem[o].len, h, Extension)
  <2> HIDE DEF N
  <2>1. QED
    BY <1>11, <1>12, <1>13, MergesBackward
<1>15. \E M : Sound(v.s, M, {}, h, Extension)
  BY <1>14 DEF Joined
<1>16. QED
  BY <1>4, <1>15 DEF u, h

-----------------------------------------------------------------------------
(* The inductive invariant holds.                                          *)

\* When Lisp has turned hunking on, no block is shorter than the minimum it
\* raises, and array space does not move on with a rest of a page that is.
NoneTooShort == hunking => \A b \in Blocks : as.mem[b].len >= HunkMin
RestNotTooShort ==
  hunking /\ ArraySpace2' # ArraySpace2 => ArrayFrLst2' - ArrayFrLst \notin 1 .. HunkMin - 1

\* What the pointers say, for one state.
EndOf(fr, fr2) == IF fr2 = NIL THEN fr ELSE fr2
EndsOf(fr, second) == IF second = NIL THEN Extension ELSE fr

\* The blocks the model walks over are those of the tiling.
LEMMA BlocksKnown ==
  ASSUME NEW s, NEW B, NEW fr, NEW fr2, NEW second, second = NIL \/ second = Extension,
         Sound(s, B, {}, EndOf(fr, fr2), EndsOf(fr, second))
  PROVE  BlocksFrom(s, EndOf(fr, fr2), second, fr) = B
<1> DEFINE o == EndOf(fr, fr2)
           e == EndsOf(fr, second)
<1>1. s.mem \in Cells /\ Whole(s.mem, B, o, e)
  BY SoundParts
<1>2. EndsAgree(second, fr, e)
  BY DEF EndsAgree, EndsOf
<1> HIDE DEF o, e
<1>3. BlocksFrom(s, o, second, fr) = B
  BY <1>1, <1>2, BlocksFound
<1>4. QED
  BY <1>3 DEF o

\* The walk and the ends, as operators of the state's parts.
LEMMA Names ==
  /\ OldEnd = EndOf(ArrayFrLst, ArrayFrLst2) /\ Ends = EndsOf(ArrayFrLst, ArraySpace2)
  /\ Blocks = BlocksFrom(as, EndOf(ArrayFrLst, ArrayFrLst2), ArraySpace2, ArrayFrLst)
BY DEF OldEnd, EndOf, Ends, EndsOf, Blocks, BlocksFrom

\* The same in the next state.
LEMMA NamesNext ==
  /\ OldEnd' = EndOf(ArrayFrLst', ArrayFrLst2') /\ Ends' = EndsOf(ArrayFrLst', ArraySpace2')
  /\ Blocks' = BlocksFrom(as', EndOf(ArrayFrLst', ArrayFrLst2'), ArraySpace2', ArrayFrLst')
BY DEF OldEnd, EndOf, Ends, EndsOf, Blocks, BlocksFrom

\* A sound next state is all the invariant needs.
LEMMA Kept ==
  ASSUME Pointers', NEW B, Sound(as', B, {}, OldEnd', Ends')
  PROVE  IInv' /\ Blocks' = B
<1> DEFINE s == as'
           fr == ArrayFrLst'
           fr2 == ArrayFrLst2'
           second == ArraySpace2'
<1>1. second = NIL \/ second = Extension
  BY DEF Pointers
<1>2. Sound(s, B, {}, EndOf(fr, fr2), EndsOf(fr, second))
  BY NamesNext
<1>3. Blocks' = BlocksFrom(s, EndOf(fr, fr2), second, fr)
  BY NamesNext
<1> HIDE DEF s, fr, fr2, second
<1>4. BlocksFrom(s, EndOf(fr, fr2), second, fr) = B
  BY <1>1, <1>2, BlocksKnown
<1>5. QED
  BY <1>3, <1>4 DEF IInv

\* What the invariant says, one by one.
LEMMA Now ==
  ASSUME IInv
  PROVE  /\ Pointers /\ Sound(as, Blocks, {}, OldEnd, Ends)
         /\ as \in Memory /\ as.mem \in Cells /\ Whole(as.mem, Blocks, OldEnd, Ends) /\ Blocks \subseteq Addr
         /\ OldEnd \in Nat /\ ArraySpace <= OldEnd /\ OldEnd <= ArrayEnd
         /\ Ends \in Nat /\ Extension <= Ends /\ Ends <= ExtensionEnd
         /\ EndsKnown(OldEnd, Ends)
         /\ InUse = UsedOf(as.mem, Blocks) /\ Free = FreeOf(as.mem, Blocks)
<1>1. Pointers /\ Sound(as, Blocks, {}, OldEnd, Ends)
  BY DEF IInv
<1>2. as \in Memory /\ as.mem \in Cells /\ Whole(as.mem, Blocks, OldEnd, Ends) /\ Blocks \subseteq Addr
  BY <1>1, SoundParts
<1>3. /\ OldEnd \in Nat /\ ArraySpace <= OldEnd /\ OldEnd <= ArrayEnd
      /\ Ends \in Nat /\ Extension <= Ends /\ Ends <= ExtensionEnd
  BY <1>2, WholeParts
<1>4. EndsKnown(OldEnd, Ends)
  BY <1>1 DEF EndsKnown, Pointers, OldEnd, Ends
<1>5. InUse = UsedOf(as.mem, Blocks) /\ Free = FreeOf(as.mem, Blocks)
  BY <1>2 DEF InUse, UsedOf, Free, FreeOf
<1>6. QED
  BY <1>1, <1>2, <1>3, <1>4, <1>5

\* No block is shorter than the shortest.
LEMMA NowSizes ==
  ASSUME IInv
  PROVE  \A b \in Blocks : as.mem[b].len \in Nat /\ as.mem[b].len >= MINARRAYBLOCKSIZE
<1> DEFINE m == as.mem
           B == Blocks
           o == OldEnd
           e == Ends
<1>1. m \in Cells /\ Whole(m, B, o, e)
  BY Now
<1> HIDE DEF m, B, o, e
<1>2. \A b \in B : m[b].len \in Nat /\ m[b].len >= MINARRAYBLOCKSIZE
  BY <1>1, WholeFacts
<1>3. QED
  BY <1>2 DEF m, B

\* No block is too short to be merged.
LEMMA NowLong ==
  ASSUME IInv, NoneTooShort
  PROVE  LongIn(as.mem, Blocks)
<1>1. \A b \in Blocks : as.mem[b].len \in Nat /\ as.mem[b].len >= MINARRAYBLOCKSIZE
  BY NowSizes
<1>2. QED
  BY <1>1 DEF LongIn, minblocksize, NoneTooShort

\* Allocation from a ring keeps the invariant.
LEMMA AllocOldKeeps ==
  ASSUME IInv, NEW b \in Addr, NEW n \in 1 .. MAXARRAYBLOCKSIZE, AllocOld(b, n)
  PROVE  IInv'
<1> DEFINE rest == as.mem[b].len - n
           t == Using(deleteblock(as, b), b, n)
           r == IF rest = 0 THEN t ELSE linkblock(makefreearrayblock(t, b + n, rest), b + n)
<1>1. /\ b \in FreeOf(as.mem, Blocks) /\ n \in Nat /\ minblocksize <= n
      /\ rest = 0 \/ rest >= minblocksize
      /\ as' = r
      /\ UNCHANGED <<ArrayFrLst, ArrayFrLst2, ArraySpace2, hunking, merging>>
  <2>1. /\ b \in Free /\ n >= minblocksize
        /\ rest = 0 \/ rest >= minblocksize
        /\ UNCHANGED <<ArrayFrLst, ArrayFrLst2, ArraySpace2, hunking, merging>>
    BY DEF AllocOld
  <2>2. as' = r
    BY DEF AllocOld
  <2>3. n \in Nat /\ minblocksize <= n
    BY <2>1, BlockMinimum, Constants
  <2> HIDE DEF r, rest
  <2>4. QED
    BY <2>1, <2>2, <2>3, Now
<1>2. Sound(as, Blocks, {}, OldEnd, Ends) /\ Pointers
  BY Now
<1>3. Placed(as, r, Blocks, OldEnd, Ends)
  BY <1>1, <1>2, TakesOld
<1>4. PICK N : Sound(as', N, {}, OldEnd, Ends)
  BY <1>1, <1>3 DEF Placed
<1>5. Pointers' /\ OldEnd' = OldEnd /\ Ends' = Ends
  BY <1>1, <1>2 DEF Pointers, OldEnd, Ends
<1>6. QED
  BY <1>4, <1>5, Kept

\* Allocation at the end keeps the invariant.
LEMMA AllocNewKeeps ==
  ASSUME IInv, NEW n \in 1 .. MAXARRAYBLOCKSIZE, AllocNew(n)
  PROVE  IInv'
<1> DEFINE l == ArrayFrLst
           r == Using(as, l, n)
<1>1. /\ n \in Nat /\ minblocksize <= n /\ n <= MAXARRAYBLOCKSIZE /\ l + n <= Limit
      /\ as' = r /\ ArrayFrLst' = l + n
      /\ UNCHANGED <<ArrayFrLst2, ArraySpace2, hunking, merging>>
  BY BlockMinimum, Constants DEF AllocNew
<1>2. Sound(as, Blocks, {}, OldEnd, Ends) /\ Pointers /\ EndsKnown(OldEnd, Ends)
  BY Now
<1>3. Pointers'
  BY <1>1, <1>2 DEF Pointers
<1>4. CASE ArraySpace2 = NIL
  <2>1. l = OldEnd /\ ArrayFrLst2 = NIL /\ l + n <= ArrayEnd
    BY <1>1, <1>2, <1>4 DEF EndsKnown, Limit
  <2>2. OldEnd' = l + n /\ Ends' = Ends
    BY <1>1, <1>4, <2>1 DEF OldEnd, Ends
  <2>3. PICK N : Sound(as', N, {}, OldEnd', Ends')
    <3>1. \E N : Sound(r, N, {}, l + n, Ends)
      BY <1>1, <1>2, <2>1, TakesNew
    <3>2. QED
      BY <1>1, <2>2, <3>1
  <2>4. QED
    BY <1>3, <2>3, Kept
<1>5. CASE ArraySpace2 # NIL
  <2>1. l = Ends /\ l + n <= ExtensionEnd
    BY <1>1, <1>2, <1>5 DEF EndsKnown, Limit
  <2>2. OldEnd' = OldEnd /\ Ends' = l + n
    BY <1>1, <1>2, <1>5 DEF OldEnd, Ends, Pointers
  <2>3. PICK N : Sound(as', N, {}, OldEnd', Ends')
    <3>1. \E N : Sound(r, N, {}, OldEnd, l + n)
      BY <1>1, <1>2, <2>1, TakesNew
    <3>2. QED
      BY <1>1, <2>2, <3>1
  <2>4. QED
    BY <1>3, <2>3, Kept
<1>6. QED
  BY <1>4, <1>5

\* What a reclamation leaves.
Reclaimed(b, l, h, C) ==
  /\ Laid(as'.mem, C, l, h) /\ FreeOf(as'.mem, C) = C
  /\ SameOutside(as.mem, as'.mem, l, h)
  /\ h - l <= MAXARRAYBLOCKSIZE => C = {l}
  /\ Around(as.mem, Blocks, b, l, h)
  /\ Blocks' = (Blocks \ (l .. h - 1)) \cup C

\* Reclaiming keeps the invariant.
LEMMA ReclaimKeeps ==
  ASSUME IInv, NoneTooShort, NEW b \in Addr, Reclaim(b)
  PROVE  IInv' /\ \E l, h, C : Reclaimed(b, l, h, C)
<1> DEFINE m == mergebackward(makefreearrayblock(as, b, as.mem[b].len), b)
           r == mergeforward(m.s, m.base)
<1>1. /\ b \in UsedOf(as.mem, Blocks) /\ as' = r
      /\ UNCHANGED <<ArrayFrLst, ArrayFrLst2, ArraySpace2, hunking, merging>>
  BY Now DEF Reclaim
<1>2. Sound(as, Blocks, {}, OldEnd, Ends) /\ Pointers /\ EndsKnown(OldEnd, Ends)
  BY Now
<1>3. LongIn(as.mem, Blocks)
  BY NowLong
<1>4. PICK l, h : Joined(as, r, Blocks, l, h, OldEnd, Ends) /\ Around(as.mem, Blocks, b, l, h)
  BY <1>1, <1>2, <1>3, Reclaims
<1> HIDE DEF r
<1>5. PICK C : /\ Laid(r.mem, C, l, h) /\ FreeOf(r.mem, C) = C
               /\ SameOutside(as.mem, r.mem, l, h)
               /\ Sound(r, (Blocks \ (l .. h - 1)) \cup C, {}, OldEnd, Ends)
               /\ h - l <= MAXARRAYBLOCKSIZE => C = {l}
  BY <1>4 DEF Joined
<1>6. Pointers' /\ OldEnd' = OldEnd /\ Ends' = Ends
  BY <1>1, <1>2 DEF Pointers, OldEnd, Ends
<1>7. Sound(as', (Blocks \ (l .. h - 1)) \cup C, {}, OldEnd', Ends')
  BY <1>1, <1>5, <1>6
<1>8. IInv' /\ Blocks' = (Blocks \ (l .. h - 1)) \cup C
  BY <1>6, <1>7, Kept
<1>9. Reclaimed(b, l, h, C)
  BY <1>1, <1>4, <1>5, <1>8 DEF Reclaimed
<1>10. QED
  BY <1>8, <1>9

\* Switching to the second space keeps the invariant.
LEMMA AdvanceKeeps ==
  ASSUME IInv, NoneTooShort, RestNotTooShort, NEW n \in 0 .. CELLSPER_PAGE - 1, AdvanceArraySeg(n)
  PROVE  IInv'
<1> DEFINE l == ArrayFrLst
           r == mergebackward(makefreearrayblock(as, l, DLword(n)), l).s
<1>1. /\ ArraySpace2 = NIL /\ l + n <= ArrayEnd
      /\ ArrayFrLst' = Extension /\ ArraySpace2' = Extension
      /\ UNCHANGED <<hunking, merging>>
  BY DEF AdvanceArraySeg
<1>2. Sound(as, Blocks, {}, OldEnd, Ends) /\ Pointers /\ EndsKnown(OldEnd, Ends) /\ OldEnd \in Nat
  BY Now
<1>3. Ends = Extension /\ l = OldEnd /\ Extension # NIL /\ n \in Nat /\ n <= MAXARRAYBLOCKSIZE
  BY <1>1, <1>2, Constants DEF EndsKnown
<1>4. Ends' = Extension
  BY <1>1, <1>3 DEF Ends
<1>5. CASE n >= MINARRAYBLOCKSIZE
  <2>1. as' = r /\ ArrayFrLst2' = l + n
    BY <1>5 DEF AdvanceArraySeg
  <2>2. l + n # NIL
    <3> HIDE DEF l
    <3>1. l + n \in ArraySpace .. ExtensionEnd
      <4>1. ArraySpace <= l
        BY <1>3, Now
      <4>2. QED
        BY <1>1, <1>2, <1>3, <4>1, Constants
    <3>2. QED
      BY <3>1, Constants
  <2>3. OldEnd' = l + n
    BY <2>1, <2>2 DEF OldEnd
  <2>4. Pointers'
    BY <1>1, <1>2, <1>3, <2>1, <2>2 DEF Pointers
  <2>5. minblocksize <= n
    <3>1. CASE hunking
      <4>1. ArraySpace2' # ArraySpace2 /\ ArrayFrLst2' - ArrayFrLst = n
        BY <1>1, <1>2, <1>3, <2>1
      <4>2. n \notin 1 .. HunkMin - 1
        BY <3>1, <4>1 DEF RestNotTooShort
      <4>3. QED
        BY <1>3, <1>5, <3>1, <4>2, Constants DEF minblocksize
    <3>2. CASE ~hunking
      BY <1>5, <3>2 DEF minblocksize
    <3>3. QED
      BY <3>1, <3>2
  <2>6. LongIn(as.mem, Blocks)
    BY NowLong
  <2>7. PICK N : Sound(r, N, {}, l + n, Extension)
    <3> DEFINE o == OldEnd
    <3>1. Sound(as, Blocks, {}, o, Extension) /\ o + n <= ArrayEnd /\ l = o
      BY <1>1, <1>2, <1>3
    <3> HIDE DEF o
    <3>2. \E N : Sound(mergebackward(makefreearrayblock(as, o, DLword(n)), o).s, N, {}, o + n, Extension)
      BY <1>1, <1>3, <2>5, <2>6, <3>1, Advances
    <3>3. QED
      BY <3>1, <3>2
  <2>8. Sound(as', N, {}, OldEnd', Ends')
    BY <1>4, <2>1, <2>3, <2>7
  <2>9. QED
    BY <2>4, <2>8, Kept
<1>6. CASE ~(n >= MINARRAYBLOCKSIZE)
  <2>1. as' = as /\ ArrayFrLst2' = l
    BY <1>6 DEF AdvanceArraySeg
  <2>2. l # NIL
    <3>1. OldEnd \in ArraySpace .. ExtensionEnd
      BY Now, Constants
    <3>2. QED
      BY <1>3, <3>1, Constants
  <2>3. OldEnd' = OldEnd /\ Ends' = Ends
    BY <1>3, <1>4, <2>1, <2>2 DEF OldEnd
  <2>4. Pointers'
    BY <1>1, <1>2, <1>3, <2>1, <2>2 DEF Pointers
  <2>5. Sound(as', Blocks, {}, OldEnd', Ends')
    BY <1>2, <2>1, <2>3
  <2>6. QED
    BY <2>4, <2>5, Kept
<1>7. QED
  BY <1>5, <1>6

\* Every step keeps the invariant.
LEMMA StepKeeps ==
  ASSUME IInv, NoneTooShort, RestNotTooShort, [Next]_vars
  PROVE  IInv'
<1>1. ASSUME UNCHANGED <<as, ArrayFrLst, ArrayFrLst2, ArraySpace2>>, hunking' \in BOOLEAN, merging' \in BOOLEAN
      PROVE  IInv'
  <2>1. Sound(as, Blocks, {}, OldEnd, Ends) /\ Pointers
    BY Now
  <2>2. Pointers' /\ OldEnd' = OldEnd /\ Ends' = Ends
    BY <1>1, <2>1 DEF Pointers, OldEnd, Ends
  <2>3. Sound(as', Blocks, {}, OldEnd', Ends')
    BY <1>1, <2>1, <2>2
  <2>4. QED
    BY <2>2, <2>3, Kept
<1>2. hunking \in BOOLEAN /\ merging \in BOOLEAN
  BY Now DEF Pointers
<1>3. ASSUME NEW b \in Addr, NEW n \in 1 .. MAXARRAYBLOCKSIZE, AllocOld(b, n) PROVE IInv'
  BY <1>3, AllocOldKeeps
<1>4. ASSUME NEW n \in 1 .. MAXARRAYBLOCKSIZE, AllocNew(n) PROVE IInv'
  BY <1>4, AllocNewKeeps
<1>5. ASSUME NEW b \in Addr, Reclaim(b) PROVE IInv'
  BY <1>5, ReclaimKeeps
<1>6. ASSUME NEW n \in 0 .. CELLSPER_PAGE - 1, AdvanceArraySeg(n) PROVE IInv'
  BY <1>6, AdvanceKeeps
<1>7. CASE StartHunking
  BY <1>1, <1>2, <1>7 DEF StartHunking
<1>8. ASSUME NEW on \in BOOLEAN, SetMerging(on) PROVE IInv'
  BY <1>1, <1>2, <1>8 DEF SetMerging
<1>9. CASE UNCHANGED vars
  BY <1>1, <1>2, <1>9 DEF vars
<1>10. QED
  BY <1>3, <1>4, <1>5, <1>6, <1>7, <1>8, <1>9 DEF Next

\* Initially array space is empty.
LEMMA InitHolds == Init => IInv
<1> SUFFICES ASSUME Init PROVE IInv
  OBVIOUS
<1> DEFINE none == {}
<1>1. /\ ArrayFrLst = ArraySpace /\ ArrayFrLst2 = NIL /\ ArraySpace2 = NIL
      /\ hunking = FALSE /\ merging = TRUE
      /\ as = [mem |-> [x \in Addr |-> Data], fwd |-> [x \in Addr |-> NIL],
               bkwd |-> [x \in Addr |-> NIL], bucket |-> [i \in 0 .. MAXBUCKETINDEX |-> NIL]]
  BY DEF Init
<1>2. Pointers
  BY <1>1 DEF Pointers
<1>3. OldEnd = ArraySpace /\ Ends = Extension
  BY <1>1 DEF OldEnd, Ends
<1>4. as \in Memory
  <2>1. Data \in [len : 0 .. MAXARRAYBLOCKSIZE, inuse : BOOLEAN]
    BY Constants DEF Data
  <2>2. /\ [x \in Addr |-> Data] \in Cells /\ [x \in Addr |-> NIL] \in Links
        /\ [i \in 0 .. MAXBUCKETINDEX |-> NIL] \in [Buckets -> Addr \cup {NIL}]
    BY <2>1 DEF Cells, Links, Buckets
  <2>3. QED
    BY <1>1, <2>2 DEF Memory
<1>5. as.mem \in Cells /\ as.bucket = [i \in Buckets |-> NIL]
  BY <1>1, <1>4, MemoryParts DEF Buckets
<1>6. Whole(as.mem, none, ArraySpace, Extension)
  <2>1. Low(none) = {} /\ High(none) = {}
    BY DEF Low, High
  <2>2. \A lo \in Nat : lo <= ExtensionEnd => Laid(as.mem, {}, lo, lo)
    BY <1>5, Constants DEF Laid, Tiled
  <2>3. /\ ArraySpace \in Nat /\ ArraySpace <= ExtensionEnd /\ ArraySpace <= ArrayEnd
        /\ Extension \in Nat /\ Extension <= ExtensionEnd
    BY Constants
  <2>4. Laid(as.mem, {}, ArraySpace, ArraySpace) /\ Laid(as.mem, {}, Extension, Extension)
    BY <2>2, <2>3
  <2>5. Laid(as.mem, Low(none), ArraySpace, ArraySpace) /\ Laid(as.mem, High(none), Extension, Extension)
    BY <2>1, <2>4
  <2> HIDE DEF none
  <2>6. QED
    BY <1>5, <2>3, <2>5, WholeLaid
<1>7. Rings(as, {})
  <2>1. ASSUME NEW i \in Buckets PROVE OneRing(as.fwd, as.bkwd, OfSize(as.mem, {}, i), as.bucket[i])
    <3>1. OfSize(as.mem, {}, i) = {} /\ as.bucket[i] = NIL
      BY <1>5 DEF OfSize
    <3>2. OneRing(as.fwd, as.bkwd, {}, NIL)
      BY DEF OneRing
    <3>3. QED
      BY <3>1, <3>2
  <2>2. QED
    BY <2>1 DEF Rings
<1>8. Sound(as, none, {}, OldEnd, Ends)
  <2>1. FreeOf(as.mem, none) = {}
    BY DEF FreeOf
  <2>2. QED
    BY <1>3, <1>4, <1>6, <1>7, <2>1 DEF Sound
<1>9. Blocks = none
  <2>1. ArraySpace2 = NIL \/ ArraySpace2 = Extension
    BY <1>1
  <2>2. Sound(as, none, {}, EndOf(ArrayFrLst, ArrayFrLst2), EndsOf(ArrayFrLst, ArraySpace2))
    BY <1>8, Names
  <2> HIDE DEF none
  <2>3. BlocksFrom(as, EndOf(ArrayFrLst, ArrayFrLst2), ArraySpace2, ArrayFrLst) = none
    BY <2>1, <2>2, BlocksKnown
  <2>4. QED
    BY <2>3, Names
<1>10. QED
  BY <1>2, <1>8, <1>9 DEF IInv

-----------------------------------------------------------------------------
(* What the invariant says.                                                *)

TilesFrom(s, lo, hi) ==
  /\ hi \in Starts(s, lo, hi)
  /\ \A b \in Starts(s, lo, hi) \ {hi} :
       b < hi /\ s.mem[b].len > 0 /\ b + s.mem[b].len <= hi
         /\ s.mem[b + s.mem[b].len - 1] = s.mem[b]

\* A tiling is what BlocksTile asks of a space.
LEMMA TilesOne ==
  ASSUME NEW s, NEW B, NEW lo, NEW hi, Laid(s.mem, B, lo, hi)
  PROVE  TilesFrom(s, lo, hi)
<1> DEFINE m == s.mem
           S == Starts(s, lo, hi)
<1>1. S = B \cup {hi}
  BY StartsTiled
<1>2. \A b \in B : /\ b < hi /\ m[b].len \in Nat /\ m[b].len >= 2 /\ b + m[b].len <= hi
                   /\ m[b + m[b].len - 1] = m[b]
  <2> HIDE DEF m
  <2>1. Laid(m, B, lo, hi)
    BY DEF m
  <2>2. QED
    BY <2>1, LaidFacts
<1> HIDE DEF S, m
<1>3. \A b \in B : m[b].len > 0
  BY <1>2
<1>4. \A b \in S \ {hi} : b < hi /\ m[b].len > 0 /\ b + m[b].len <= hi /\ m[b + m[b].len - 1] = m[b]
  BY <1>1, <1>2, <1>3
<1>5. QED
  BY <1>1, <1>4 DEF S, m, TilesFrom

\* The blocks tile both spaces.
LEMMA TilesNow ==
  ASSUME IInv
  PROVE  BlocksTile
<1>1. as.mem \in Cells /\ Whole(as.mem, Blocks, OldEnd, Ends) /\ Pointers
  BY Now
<1>2. Laid(as.mem, Low(Blocks), ArraySpace, OldEnd) /\ Laid(as.mem, High(Blocks), Extension, Ends)
  BY <1>1, WholeLaid
<1>3. TilesFrom(as, ArraySpace, OldEnd) /\ TilesFrom(as, Extension, Ends)
  BY <1>2, TilesOne
<1>4. ArraySpace2 # NIL => ArraySpace2 = Extension /\ Ends = ArrayFrLst
  BY <1>1 DEF Pointers, Ends
<1>5. ArraySpace2 # NIL => TilesFrom(as, ArraySpace2, ArrayFrLst)
  BY <1>3, <1>4
<1>6. QED
  BY <1>3, <1>5 DEF BlocksTile, TilesFrom

\* The rings hold the free blocks, each on the ring of its size.
LEMMA RingsNow ==
  ASSUME IInv
  PROVE  FreeListsExact
<1>1. /\ as \in Memory /\ as.mem \in Cells /\ Whole(as.mem, Blocks, OldEnd, Ends) /\ Blocks \subseteq Addr
      /\ Sound(as, Blocks, {}, OldEnd, Ends) /\ Free = FreeOf(as.mem, Blocks)
  BY Now
<1>2. Rings(as, Free) /\ Free \subseteq Addr
  <2>1. Rings(as, Free \ {}) /\ Free \subseteq Blocks
    BY <1>1, SoundParts
  <2>2. Free \ {} = Free
    OBVIOUS
  <2>3. QED
    BY <1>1, <2>1, <2>2
<1>3. IsFiniteSet(Free) /\ Cardinality(Free) \in Nat
  <2>1. IsFiniteSet(ArraySpace .. ExtensionEnd - 1)
    BY FS_Interval, Constants
  <2>2. IsFiniteSet(Free)
    BY <1>2, <2>1, FS_Subset DEF Addr
  <2>3. QED
    BY <2>2, FS_CardinalityType
<1>4. ASSUME NEW i \in Buckets
      PROVE  /\ Ring(i) = OfSize(as.mem, Free, i)
             /\ \A b \in Ring(i) : as.bkwd[as.fwd[b]] = b /\ as.fwd[as.bkwd[b]] = b
  <2> DEFINE R == OfSize(as.mem, Free, i)
             h == as.bucket[i]
             n == Cardinality(Free)
             f == as.fwd
             g == as.bkwd
  <2>1. OneRing(f, g, R, h)
    BY <1>2 DEF Rings
  <2>2. R \subseteq Free /\ NIL \notin R
    BY <1>2, Constants DEF OfSize
  <2>3. IsFiniteSet(R) /\ Cardinality(R) <= n
    BY <1>3, <2>2, FS_Subset
  <2>4. Ring(i) = IF h = NIL THEN {} ELSE Walk(f, h, n)
    BY DEF Ring
  <2> HIDE DEF R, h, n, f, g
  <2>5. (IF h = NIL THEN {} ELSE Walk(f, h, n)) = R
    BY <1>3, <2>1, <2>2, <2>3, RingFound DEF n
  <2>6. \A b \in R : g[f[b]] = b /\ f[g[b]] = b
    BY <2>1 DEF OneRing
  <2>7. QED
    BY <2>4, <2>5, <2>6 DEF R, f, g
<1>5. \A b \in Free : as.mem[b].len >= MINARRAYBLOCKSIZE
  BY <1>1, WholeFacts DEF FreeOf
<1>6. ASSUME NEW i \in Buckets
      PROVE  Ring(i) = {b \in Free : as.mem[b].len >= MINARRAYBLOCKSIZE /\ BucketIndex(as.mem[b].len) = i}
  BY <1>4, <1>5 DEF OfSize
<1>7. QED
  BY <1>4, <1>6 DEF FreeListsExact, Buckets

\* The invariant is strong enough.
LEMMA HoldsNow ==
  ASSUME IInv
  PROVE  SpaceInv
<1>1. TypeOK
  <2>1. /\ as.mem \in Cells /\ as.fwd \in Links /\ as.bkwd \in Links /\ as.bucket \in [Buckets -> Addr \cup {NIL}]
    BY Now, MemoryParts
  <2>2. ArrayFrLst \in ArraySpace .. ExtensionEnd
    <3>1. ArrayFrLst \in {OldEnd, Ends}
      BY Now DEF EndsKnown
    <3>2. ArrayFrLst \in Nat /\ ArraySpace <= ArrayFrLst /\ ArrayFrLst <= ExtensionEnd
      BY <3>1, Now, Constants
    <3>3. QED
      BY <3>2, Constants
  <2>3. QED
    BY <2>1, <2>2 DEF TypeOK, Cells, Links, Buckets
<1>2. QED
  BY <1>1, TilesNow, RingsNow DEF SpaceInv

-----------------------------------------------------------------------------
(* What a reclamation leaves of its neighbours.                            *)

\* The cells it joins hold no block in use but the one reclaimed.
LEMMA AroundApart ==
  ASSUME NEW m \in Cells, NEW B, NEW o, NEW e, Whole(m, B, o, e), NEW b \in UsedOf(m, B), NEW l, NEW h,
         Around(m, B, b, l, h)
  PROVE  /\ b \in l .. h - 1 /\ l \in Nat /\ h \in Nat /\ l <= b /\ b < h
         /\ \A x \in UsedOf(m, B) \ {b} : x + m[x].len <= l \/ h <= x
<1> DEFINE c == b + m[b].len
           F == FreeOf(m, B)
<1>1. /\ \A x \in B : x \in Nat /\ m[x].len \in Nat /\ m[x].len >= 2
      /\ \A x, y \in B : x < y => x + m[x].len <= y
  BY WholeFacts
<1>2. b \in B /\ F \subseteq B /\ b \notin F /\ \A x \in UsedOf(m, B) : x \in B /\ x \notin F
  BY DEF UsedOf, FreeOf
<1>3. l = b \/ (l \in F /\ l + m[l].len = b)
  BY DEF Around
<1>4. h = c \/ (c \in F /\ h = c + m[c].len)
  BY DEF Around
<1>5. b \in Nat /\ c \in Nat /\ b < c /\ c = b + m[b].len
  BY <1>1, <1>2
<1> HIDE DEF c, F
<1>6. l \in Nat /\ l <= b
  <2>1. CASE l = b
    BY <1>5, <2>1
  <2>2. CASE l \in F /\ l + m[l].len = b
    <3>1. l \in B /\ l \in Nat /\ m[l].len \in Nat
      BY <1>1, <1>2, <2>2
    <3>2. QED
      BY <2>2, <3>1
  <2>3. QED
    BY <1>3, <2>1, <2>2
<1>7. h \in Nat /\ c <= h
  BY <1>1, <1>2, <1>4, <1>5
<1>8. ASSUME NEW x \in UsedOf(m, B) \ {b} PROVE x + m[x].len <= l \/ h <= x
  <2>1. x \in B /\ x \notin F /\ x \in Nat /\ m[x].len \in Nat
    BY <1>1, <1>2
  <2>2. CASE x < b
    <3>1. x + m[x].len <= b
      BY <1>1, <1>2, <2>1, <2>2
    <3>2. CASE l = b
      BY <3>1, <3>2
    <3>3. CASE l \in F /\ l + m[l].len = b
      <4>1. l \in B /\ l # x
        BY <1>2, <2>1, <3>3
      <4>2. l < x => b <= x
        BY <1>1, <2>1, <3>3, <4>1
      <4>3. x < l
        BY <1>5, <1>6, <2>1, <2>2, <4>1, <4>2
      <4>4. QED
        BY <1>1, <2>1, <4>1, <4>3
    <3>4. QED
      BY <1>3, <3>2, <3>3
  <2>3. CASE b < x
    <3>1. c <= x
      BY <1>1, <1>2, <1>5, <2>1, <2>3
    <3>2. CASE h = c
      BY <3>1, <3>2
    <3>3. CASE c \in F /\ h = c + m[c].len
      <4>1. c \in B /\ c # x
        BY <1>2, <2>1, <3>3
      <4>2. c < x
        BY <1>5, <2>1, <3>1, <4>1
      <4>3. QED
        BY <1>1, <2>1, <3>3, <4>1, <4>2
    <3>4. QED
      BY <1>4, <3>2, <3>3
  <2>4. QED
    BY <1>5, <2>1, <2>2, <2>3
<1>9. b \in l .. h - 1 /\ b < h
  BY <1>5, <1>6, <1>7
<1>10. QED
  BY <1>6, <1>7, <1>8, <1>9

\* Blocks in use outside of the range that is retiled keep their cells.
LEMMA UsedKept ==
  ASSUME NEW m \in Cells, NEW n, NEW B, NEW C, NEW o, NEW e, Whole(m, B, o, e),
         NEW b \in UsedOf(m, B), NEW l, NEW h,
         Around(m, B, b, l, h), SameOutside(m, n, l, h), FreeOf(n, C) = C
  PROVE  /\ UsedOf(n, (B \ (l .. h - 1)) \cup C) = UsedOf(m, B) \ {b}
         /\ \A c \in UsedOf(m, B) \ {b} : \A x \in c .. c + m[c].len - 1 : n[x] = m[x]
<1> DEFINE U == UsedOf(m, B) \ {b}
           V == UsedOf(n, (B \ (l .. h - 1)) \cup C)
<1>1. /\ b \in l .. h - 1 /\ l \in Nat /\ h \in Nat
      /\ \A x \in U : x + m[x].len <= l \/ h <= x
  BY AroundApart
<1>2. \A x \in B : /\ x \in Addr /\ x \in Nat /\ m[x].len \in Nat /\ m[x].len >= 2
                   /\ x + m[x].len - 1 \in Addr
  BY WholeFacts
<1>3. \A x \in U : x \in B /\ m[x].inuse
  BY DEF UsedOf
<1>4. ASSUME NEW c \in U, NEW x \in c .. c + m[c].len - 1 PROVE x \in Addr /\ x \notin l .. h - 1
  <2> DEFINE k == m[c].len
  <2>1. c \in Addr /\ c \in Nat /\ k \in Nat /\ k >= 2 /\ c + k - 1 \in Addr /\ (c + k <= l \/ h <= c)
        /\ x \in c .. c + k - 1
    BY <1>1, <1>2, <1>3
  <2> HIDE DEF k, U
  <2>2. x \in Addr
    BY <2>1, Constants
  <2>3. x \notin l .. h - 1
    BY <1>1, <2>1
  <2>4. QED
    BY <2>2, <2>3
<1>5. \A c \in U : \A x \in c .. c + m[c].len - 1 : n[x] = m[x]
  BY <1>4 DEF SameOutside
<1>6. \A c \in U : c \in c .. c + m[c].len - 1
  <2>1. \A c \in U : c \in Nat /\ m[c].len \in Nat /\ m[c].len >= 2
    BY <1>2, <1>3
  <2> HIDE DEF U
  <2>2. QED
    BY <2>1
<1>7. \A x \in B \ (l .. h - 1) : n[x] = m[x]
  BY <1>2 DEF SameOutside
<1>8. ASSUME NEW x \in V PROVE x \in U
  <2>1. x \in (B \ (l .. h - 1)) \cup C /\ n[x].inuse
    BY DEF UsedOf
  <2>2. x \notin C
    BY <2>1 DEF FreeOf
  <2>3. x \in B \ (l .. h - 1) /\ n[x] = m[x]
    BY <1>7, <2>1, <2>2
  <2>4. QED
    BY <1>1, <2>1, <2>3 DEF UsedOf
<1>9. ASSUME NEW x \in U PROVE x \in V
  <2>1. x \in B /\ m[x].inuse /\ x \notin l .. h - 1 /\ n[x] = m[x]
    BY <1>3, <1>4, <1>5, <1>6
  <2>2. QED
    BY <2>1 DEF UsedOf
<1>10. QED
  BY <1>5, <1>8, <1>9

\* A reclamation takes one block out of use and changes no cell of another.
LEMMA UsedStaysIntact ==
  ASSUME IInv, NoneTooShort, NEW b \in InUse, Reclaim(b)
  PROVE  /\ InUse' = InUse \ {b}
         /\ \A c \in InUse \ {b} : \A x \in Extent(as, c) : as'.mem[x] = as.mem[x]
<1> DEFINE m == as.mem
           n == as'.mem
           B == Blocks
<1>1. m \in Cells /\ Whole(m, B, OldEnd, Ends) /\ InUse = UsedOf(m, B) /\ B \subseteq Addr
  BY Now
<1>2. b \in Addr
  BY <1>1 DEF UsedOf
<1>3. PICK l, h, C : Reclaimed(b, l, h, C)
  BY <1>2, ReclaimKeeps
<1>4. IInv'
  BY <1>2, ReclaimKeeps
<1>5. Around(m, B, b, l, h) /\ SameOutside(m, n, l, h) /\ FreeOf(n, C) = C /\ Blocks' = (B \ (l .. h - 1)) \cup C
  BY <1>3 DEF Reclaimed
<1>6. InUse' = UsedOf(n, Blocks')
  <2>1. Blocks' \subseteq Addr
    BY <1>4, SoundParts DEF IInv
  <2>2. QED
    BY <2>1 DEF InUse, UsedOf
<1> DEFINE o == OldEnd
           e == Ends
<1> HIDE DEF m, n, B, o, e
<1>7. /\ UsedOf(n, (B \ (l .. h - 1)) \cup C) = UsedOf(m, B) \ {b}
      /\ \A c \in UsedOf(m, B) \ {b} : \A x \in c .. c + m[c].len - 1 : n[x] = m[x]
  <2>1. Whole(m, B, o, e) /\ b \in UsedOf(m, B)
    BY <1>1 DEF o, e
  <2>2. QED
    BY <1>1, <1>5, <2>1, UsedKept
<1>8. QED
  BY <1>1, <1>5, <1>6, <1>7 DEF m, n, Extent

\* Joining a block with its free neighbours.
CellsOf(m, S) == UNION {x .. x + m[x].len - 1 : x \in S}

\* Two adjacent ranges.
LEMMA TwoRuns ==
  ASSUME NEW x \in Nat, NEW y \in Nat, NEW z \in Nat, x <= y, y <= z
  PROVE  (x .. y - 1) \cup (y .. z - 1) = x .. z - 1
OBVIOUS

\* The cells from l to h are those of the block and its free neighbours, if
\* together they are not too long for one block.
LEMMA AroundAll ==
  ASSUME NEW m \in Cells, NEW B, NEW o, NEW e, Whole(m, B, o, e), NEW b \in UsedOf(m, B), NEW l, NEW h,
         Around(m, B, b, l, h), merging, NEW all,
         all = {b} \cup {x \in FreeOf(m, B) : x + m[x].len = b} \cup {x \in FreeOf(m, B) : b + m[b].len = x}
  PROVE  /\ (CHOOSE x \in all : \A y \in all : x <= y) = l
         /\ Cardinality(CellsOf(m, all)) <= MAXARRAYBLOCKSIZE =>
              h - l <= MAXARRAYBLOCKSIZE /\ CellsOf(m, all) = l .. h - 1
<1> DEFINE c == b + m[b].len
           F == FreeOf(m, B)
           prev == {x \in F : x + m[x].len = b}
           g == IF c \in F THEN c + m[c].len ELSE c
<1>1. /\ \A x \in B : x \in Nat /\ m[x].len \in Nat /\ m[x].len >= 2
      /\ \A x, y \in B : x < y => x + m[x].len <= y
  BY WholeFacts
<1>2. b \in B /\ F \subseteq B /\ b \notin F
  BY DEF UsedOf, FreeOf
<1>3. \A x, y \in B : x + m[x].len = b /\ y + m[y].len = b => x = y
  BY <1>2, Predecessor
<1>4. IF prev # {} THEN l \in prev ELSE l = b
  BY DEF Around
<1>5. /\ h = c \/ (c \in F /\ h = c + m[c].len)
      /\ c \in F /\ c - l <= MAXARRAYBLOCKSIZE => h = c + m[c].len
  BY DEF Around
<1>6. all = {b} \cup prev \cup {x \in F : c = x}
  OBVIOUS
<1>7. b \in Nat /\ c \in Nat /\ b < c /\ c = b + m[b].len
  BY <1>1, <1>2
<1>8. \A x \in F : x \in Nat /\ m[x].len \in Nat /\ m[x].len >= 2
  BY <1>1, <1>2
<1>9. prev \subseteq {l}
  BY <1>2, <1>3, <1>4
<1>10. (l = b /\ prev = {}) \/ (l \in F /\ l + m[l].len = b /\ prev = {l})
  BY <1>4, <1>9
<1> HIDE DEF c, F, prev
<1>11. l \in Nat /\ l <= b
  <2>1. CASE l = b
    BY <1>7, <2>1
  <2>2. CASE l \in F /\ l + m[l].len = b
    <3>1. l \in Nat /\ m[l].len \in Nat
      BY <1>8, <2>2
    <3>2. QED
      BY <1>7, <2>2, <3>1
  <2>3. QED
    BY <1>10, <2>1, <2>2
<1>12. l \in all /\ \A x \in all : x \in {l, b, c}
  BY <1>6, <1>10
<1>13. \A x \in all : l <= x /\ x \in Nat
  BY <1>7, <1>11, <1>12
<1>14. (CHOOSE x \in all : \A y \in all : x <= y) = l
  <2> DEFINE P(x) == x \in all /\ \A y \in all : x <= y
  <2>1. P(l)
    BY <1>12, <1>13
  <2>2. \A x : P(x) => x = l
    BY <1>11, <1>12, <1>13
  <2>3. QED
    BY <2>1, <2>2
<1>15. g \in Nat /\ c <= g
  <2>1. c \in F => c + m[c].len \in Nat /\ c <= c + m[c].len
    BY <1>7, <1>8
  <2>2. QED
    BY <1>7, <2>1
<1>16. CellsOf(m, {b}) = b .. c - 1
  <2>1. CellsOf(m, {b}) = b .. b + m[b].len - 1
    BY DEF CellsOf
  <2>2. b + m[b].len - 1 = c - 1
    BY <1>1, <1>2, <1>7
  <2>3. QED
    BY <2>1, <2>2
<1>17. CellsOf(m, prev) = l .. b - 1
  <2>1. CASE l = b /\ prev = {}
    <3>1. b .. b - 1 = {}
      BY <1>7
    <3>2. QED
      BY <2>1, <3>1 DEF CellsOf
  <2>2. CASE l \in F /\ l + m[l].len = b /\ prev = {l}
    <3>1. CellsOf(m, prev) = l .. l + m[l].len - 1
      BY <2>2 DEF CellsOf
    <3>2. l + m[l].len - 1 = b - 1
      BY <1>7, <1>8, <2>2
    <3>3. QED
      BY <3>1, <3>2
  <2>3. QED
    BY <1>10, <2>1, <2>2
<1>18. CellsOf(m, {x \in F : c = x}) = c .. g - 1
  <2>1. CASE c \in F
    <3>1. {x \in F : c = x} = {c}
      BY <2>1
    <3>2. CellsOf(m, {c}) = c .. c + m[c].len - 1
      BY DEF CellsOf
    <3>3. c + m[c].len - 1 = g - 1
      BY <1>7, <1>8, <2>1
    <3>4. QED
      BY <3>1, <3>2, <3>3
  <2>2. CASE c \notin F
    <3>1. {x \in F : c = x} = {} /\ g = c
      BY <2>2
    <3>2. c .. c - 1 = {}
      BY <1>7
    <3>3. QED
      BY <3>1, <3>2 DEF CellsOf
  <2>3. QED
    BY <2>1, <2>2
<1>19. CellsOf(m, all) = CellsOf(m, prev) \cup CellsOf(m, {b}) \cup CellsOf(m, {x \in F : c = x})
  BY <1>6 DEF CellsOf
<1> HIDE DEF g
<1>20. CellsOf(m, all) = l .. g - 1
  <2>1. (l .. b - 1) \cup (b .. c - 1) = l .. c - 1
    BY <1>7, <1>11, TwoRuns
  <2>2. (l .. c - 1) \cup (c .. g - 1) = l .. g - 1
    BY <1>7, <1>11, <1>15, TwoRuns
  <2>3. QED
    BY <1>16, <1>17, <1>18, <1>19, <2>1, <2>2
<1>21. Cardinality(l .. g - 1) = g - l
  <2> DEFINE k == g - 1
  <2>1. l \in Int /\ k \in Int /\ l <= k /\ k - l + 1 = g - l
    BY <1>7, <1>11, <1>15
  <2> HIDE DEF k
  <2>2. Cardinality(l .. k) = k - l + 1
    BY <2>1, FS_Interval
  <2>3. QED
    BY <2>1, <2>2 DEF k
<1>22. ASSUME Cardinality(CellsOf(m, all)) <= MAXARRAYBLOCKSIZE
       PROVE  h - l <= MAXARRAYBLOCKSIZE /\ CellsOf(m, all) = l .. h - 1
  <2>1. g - l <= MAXARRAYBLOCKSIZE
    BY <1>20, <1>21, <1>22
  <2>2. c - l <= MAXARRAYBLOCKSIZE
    BY <1>7, <1>11, <1>15, <2>1, Constants
  <2>3. h = g
    BY <1>5, <2>2 DEF g
  <2>4. QED
    BY <1>20, <2>1, <2>3
<1>23. QED
  BY <1>14, <1>22

\* A single block between two boundaries fills all there is between them.
LEMMA OneFills ==
  ASSUME NEW n, NEW l, NEW h, Laid(n, {l}, l, h)
  PROVE  l .. l + n[l].len - 1 = l .. h - 1
<1> DEFINE k == n[l].len
           C == {l}
<1>1. Laid(n, C, l, h) /\ l \in C
  OBVIOUS
<1> HIDE DEF C
<1>2. l \in Nat /\ h \in Nat /\ k \in Nat /\ k >= 2 /\ l + k \in C \cup {h}
  BY <1>1, LaidFacts
<1>3. l + k # l
  <2> HIDE DEF k
  <2>1. QED
    BY <1>2
<1>4. l + k = h
  BY <1>2, <1>3 DEF C
<1> HIDE DEF k
<1>5. l + k - 1 = h - 1
  BY <1>2, <1>4
<1>6. QED
  BY <1>5 DEF k

\* A reclamation makes one block of a block and its free neighbours whenever one block can be that long.
LEMMA ReclaimCoalesces ==
  ASSUME IInv, NoneTooShort, NEW b \in InUse, Reclaim(b), merging
  PROVE  LET prev == {c \in Free : c + as.mem[c].len = b /\ b # ArraySpace2}
             next == {c \in Free : b + as.mem[b].len = c /\ c # ArraySpace2}
             all == {b} \cup prev \cup next
             lo == CHOOSE x \in all : \A y \in all : x <= y
             cells == UNION {Extent(as, c) : c \in all}
         IN  Cardinality(cells) <= MAXARRAYBLOCKSIZE => lo \in Free' /\ Extent(as', lo) = cells
<1> DEFINE m == as.mem
           n == as'.mem
           B == Blocks
           o == OldEnd
           e == Ends
           prev == {c \in Free : c + as.mem[c].len = b /\ b # ArraySpace2}
           next == {c \in Free : b + as.mem[b].len = c /\ c # ArraySpace2}
           all == {b} \cup prev \cup next
           lo == CHOOSE x \in all : \A y \in all : x <= y
           cells == UNION {Extent(as, c) : c \in all}
<1>1. /\ m \in Cells /\ Whole(m, B, o, e) /\ InUse = UsedOf(m, B) /\ Free = FreeOf(m, B) /\ B \subseteq Addr
      /\ Pointers
  BY Now
<1>2. b \in Addr /\ b \in B /\ b \in UsedOf(m, B) /\ FreeOf(m, B) \subseteq B
  BY <1>1 DEF UsedOf, FreeOf
<1>3. PICK l, h, C : Reclaimed(b, l, h, C)
  BY <1>2, ReclaimKeeps
<1>4. IInv'
  BY <1>2, ReclaimKeeps
<1>5. /\ Around(m, B, b, l, h) /\ Laid(n, C, l, h) /\ FreeOf(n, C) = C
      /\ h - l <= MAXARRAYBLOCKSIZE => C = {l}
      /\ Blocks' = (B \ (l .. h - 1)) \cup C
  BY <1>3 DEF Reclaimed
<1>6. ASSUME NEW c \in B, NEW d \in B, c + m[c].len = d PROVE d # ArraySpace2
  <2>1. d \notin {ArraySpace, Extension}
    <3> HIDE DEF m, B, o, e
    <3>1. QED
      BY <1>1, <1>6, Predecessor
  <2>2. ArraySpace2 \in {NIL, Extension}
    BY <1>1 DEF Pointers
  <2>3. d # NIL
    BY <1>1, Constants
  <2>4. QED
    BY <2>1, <2>2, <2>3
<1>7. all = {b} \cup {x \in FreeOf(m, B) : x + m[x].len = b} \cup {x \in FreeOf(m, B) : b + m[b].len = x}
  <2>1. prev = {x \in FreeOf(m, B) : x + m[x].len = b}
    BY <1>1, <1>2, <1>6
  <2>2. next = {x \in FreeOf(m, B) : b + m[b].len = x}
    BY <1>1, <1>2, <1>6
  <2>3. QED
    BY <2>1, <2>2
<1>8. cells = CellsOf(m, all)
  BY DEF CellsOf, Extent
<1> HIDE DEF m, n, B, o, e, all
<1>9. /\ lo = l
      /\ Cardinality(CellsOf(m, all)) <= MAXARRAYBLOCKSIZE =>
           h - l <= MAXARRAYBLOCKSIZE /\ CellsOf(m, all) = l .. h - 1
  <2>1. m \in Cells /\ Whole(m, B, o, e) /\ b \in UsedOf(m, B) /\ Around(m, B, b, l, h)
    BY <1>1, <1>2, <1>5
  <2>2. QED
    BY <1>7, <2>1, AroundAll DEF lo
<1>10. Free' = FreeOf(n, Blocks')
  <2>1. Blocks' \subseteq Addr
    BY <1>4, SoundParts DEF IInv
  <2>2. QED
    BY <2>1 DEF Free, FreeOf, n
<1> HIDE DEF lo, cells
<1>11. ASSUME Cardinality(cells) <= MAXARRAYBLOCKSIZE PROVE lo \in Free' /\ Extent(as', lo) = cells
  <2>1. h - l <= MAXARRAYBLOCKSIZE /\ cells = l .. h - 1 /\ C = {l}
    BY <1>5, <1>8, <1>9, <1>11
  <2>2. l \in Free'
    BY <1>5, <1>10, <2>1 DEF FreeOf
  <2>3. l .. l + n[l].len - 1 = l .. h - 1
    BY <1>5, <2>1, OneFills
  <2>4. QED
    BY <1>9, <2>1, <2>2, <2>3 DEF Extent, n
<1>12. QED
  BY <1>11 DEF cells, lo, all

-----------------------------------------------------------------------------
(* Theorems of the specification.                                          *)

\* The step in the form that the temporal theorems use.
LEMMA StepHolds == IInv /\ NoneTooShort /\ [RestNotTooShort]_vars /\ [Next]_vars => IInv'
<1> SUFFICES ASSUME IInv, NoneTooShort, [RestNotTooShort]_vars, [Next]_vars PROVE IInv'
  OBVIOUS
<1>1. RestNotTooShort \/ UNCHANGED vars
  OBVIOUS
<1>2. UNCHANGED vars => RestNotTooShort
  BY DEF vars, RestNotTooShort
<1>3. QED
  BY <1>1, <1>2, StepKeeps

\* Whatever is allocated, reclaimed, merged, shaved or left over, the blocks
\* tile both spaces, each trailer agrees with its header and the rings hold
\* exactly the free blocks: as long as arrayblockmerger never meets a block, nor
\* advance_array_seg the rest of a page, shorter than the minimum that hunking
\* has raised since it was cut (secondbite += shaveback would wrap).
THEOREM SpaceHolds == Spec /\ []NoneTooShort /\ [][RestNotTooShort]_vars => []SpaceInv
<1>1. QED
  BY StepHolds, InitHolds, HoldsNow, PTL DEF Spec

\* reclaimarrayblock writes no cell of a block in use other than the one it is
\* given, and takes no other out of use.
THEOREM UsedHolds == Spec /\ []NoneTooShort /\ [][RestNotTooShort]_vars => UsedIntact
<1>1. IInv /\ NoneTooShort =>
        [ \A b \in InUse : Reclaim(b) =>
            /\ InUse' = InUse \ {b}
            /\ \A c \in InUse \ {b} : \A x \in Extent(as, c) : as'.mem[x] = as.mem[x] ]_vars
  BY UsedStaysIntact
<1>2. QED
  BY <1>1, StepHolds, InitHolds, PTL DEF Spec, UsedIntact

\* mergebackward and mergeforward make one block of a reclaimed block and its
\* free neighbours whenever one block can be that long.
THEOREM CoalescesHolds == Spec /\ []NoneTooShort /\ [][RestNotTooShort]_vars => Coalesces
<1>1. IInv /\ NoneTooShort =>
  [ \A b \in InUse : Reclaim(b) /\ merging =>
        LET prev == {c \in Free : c + as.mem[c].len = b /\ b # ArraySpace2}
            next == {c \in Free : b + as.mem[b].len = c /\ c # ArraySpace2}
            all == {b} \cup prev \cup next
            lo == CHOOSE x \in all : \A y \in all : x <= y
            cells == UNION {Extent(as, c) : c \in all}
        IN  Cardinality(cells) <= MAXARRAYBLOCKSIZE => lo \in Free' /\ Extent(as', lo) = cells ]_vars
  BY ReclaimCoalesces
<1>2. QED
  BY <1>1, StepHolds, InitHolds, PTL DEF Spec, Coalesces

\* Where hunking raises no minimum nothing is assumed.
LEMMA SameMinimum ==
  ASSUME HunkMin = MINARRAYBLOCKSIZE
  PROVE  IInv => NoneTooShort /\ ([Next]_vars => [RestNotTooShort]_vars)
<1> SUFFICES ASSUME IInv PROVE NoneTooShort /\ ([Next]_vars => [RestNotTooShort]_vars)
  OBVIOUS
<1>1. NoneTooShort
  <2>1. \A b \in Blocks : as.mem[b].len >= MINARRAYBLOCKSIZE
    BY NowSizes
  <2>2. QED
    BY <2>1 DEF NoneTooShort
<1>2. ASSUME Next, ArraySpace2' # ArraySpace2 PROVE ArrayFrLst2' - ArrayFrLst \notin 1 .. HunkMin - 1
  <2>1. PICK n \in 0 .. CELLSPER_PAGE - 1 : AdvanceArraySeg(n)
    BY <1>2 DEF Next, AllocOld, AllocNew, Reclaim, StartHunking, SetMerging
  <2>2. ArraySpace2 = NIL
    BY <2>1 DEF AdvanceArraySeg
  <2>3. ArrayFrLst \in Nat
    BY <2>2, Now DEF EndsKnown
  <2>4. ArrayFrLst2' = IF n >= MINARRAYBLOCKSIZE THEN ArrayFrLst + n ELSE ArrayFrLst
    BY <2>1 DEF AdvanceArraySeg
  <2>5. n \in Nat
    BY Constants
  <2>6. ArrayFrLst2' - ArrayFrLst = IF n >= MINARRAYBLOCKSIZE THEN n ELSE 0
    BY <2>3, <2>4, <2>5
  <2>7. QED
    BY <2>5, <2>6, Constants
<1>3. QED
  BY <1>1, <1>2 DEF RestNotTooShort

\* With hunks no longer than the shortest block, the three hold of every
\* behaviour.
THEOREM SpaceAlwaysHolds ==
  HunkMin = MINARRAYBLOCKSIZE => (Spec => []SpaceInv /\ UsedIntact /\ Coalesces)
<1> SUFFICES ASSUME HunkMin = MINARRAYBLOCKSIZE PROVE Spec => []SpaceInv /\ UsedIntact /\ Coalesces
  OBVIOUS
<1>1. IInv => NoneTooShort /\ ([Next]_vars => [RestNotTooShort]_vars)
  BY SameMinimum
<1>2. Spec => []NoneTooShort /\ [][RestNotTooShort]_vars
  BY <1>1, StepHolds, InitHolds, PTL DEF Spec
<1>3. QED
  BY <1>2, SpaceHolds, UsedHolds, CoalescesHolds, PTL

\* The three hold for as long as Lisp has not turned hunking on.
THEOREM SpaceHoldsUnhunked ==
  Spec /\ []~hunking => []SpaceInv /\ UsedIntact /\ Coalesces
<1>1. ~hunking => NoneTooShort /\ RestNotTooShort
  BY DEF NoneTooShort, RestNotTooShort
<1>2. []~hunking => []NoneTooShort /\ [][RestNotTooShort]_vars
  BY <1>1, PTL
<1>3. QED
  BY <1>2, SpaceHolds, UsedHolds, CoalescesHolds, PTL
=============================================================================
