-------------------------- MODULE DiskFiles_proofs --------------------------
(***************************************************************************)
(* Proofs about DiskFiles, for every finite set of file names, every bound  *)
(* on versions and every number of files: with every call that changes the  *)
(* directory free to fail, but with time stamps that show each change and   *)
(* directories that can be opened (Faults is at most {"call"}).             *)
(***************************************************************************)
EXTENDS DiskFiles, FiniteSetTheorems, WellFoundedInduction, TLAPS

-----------------------------------------------------------------------------
(* Least and greatest numbers.                                             *)

\* A set of numbers has a least one.
LEMMA MinIs ==
  ASSUME NEW S \in SUBSET Nat, S # {}
  PROVE  Min(S) \in S /\ \A x \in S : Min(S) <= x
<1> DEFINE R == OpToRel(<, Nat)
<1>1. PICK m \in S : \A y \in S : ~(<<y, m>> \in R)
  BY NatLessThanWellFounded, WFMin
<1>2. \A y \in S : ~(y < m)
  BY <1>1 DEF OpToRel
<1>3. m \in S /\ \A x \in S : m <= x
  BY <1>2
<1>4. QED
  BY <1>3 DEF Min

\* A bounded set of numbers has a greatest one.
LEMMA MaxIs ==
  ASSUME NEW b \in Nat, NEW S \in SUBSET (0 .. b), S # {}
  PROVE  Max(S) \in S /\ \A x \in S : x <= Max(S)
<1> DEFINE T == {n \in 0 .. b : b - n \in S}
<1>1. T \in SUBSET Nat /\ T # {}
  <2>1. PICK x \in S : TRUE
    OBVIOUS
  <2>2. b - x \in T
    BY <2>1
  <2>3. QED
    BY <2>2
<1>2. Min(T) \in T /\ \A y \in T : Min(T) <= y
  BY <1>1, MinIs
<1>3. PICK k \in T : \A y \in T : k <= y
  BY <1>2
<1>4. b - k \in S /\ \A x \in S : x <= b - k
  <2>1. ASSUME NEW x \in S PROVE x <= b - k
    <3>1. b - x \in T
      OBVIOUS
    <3>2. k <= b - x
      BY <1>3, <3>1
    <3>3. QED
      BY <1>3, <3>2
  <2>2. QED
    BY <1>3, <2>1
<1>5. \E m \in S : \A x \in S : m >= x
  BY <1>4
<1>6. QED
  BY <1>5 DEF Max

LEMMA MaxOf ==
  ASSUME NEW b \in Nat, NEW S \in SUBSET (0 .. b), NEW m \in S, \A x \in S : x <= m
  PROVE  Max(S) = m
<1> DEFINE k == Max(S)
<1>1. k \in S /\ m <= k
  BY MaxIs
<1> HIDE DEF k
<1>2. k <= m
  BY <1>1
<1>3. k \in Nat /\ m \in Nat
  BY <1>1
<1>4. QED
  BY <1>1, <1>2, <1>3 DEF k

-----------------------------------------------------------------------------
(* A family of names as a row of the directory.                            *)

Rows == [Version -> Inode \cup {None}]
Row(e, f) == [v \in Version |-> e[<<f, v>>]]

Nums(r) == {v \in 1 .. MaxVersion : r[v] # None}
TopOf(r) == Max(Nums(r) \cup {0})
LooseRow(r) == r[0] # None /\ \A v \in Nums(r) : r[v] # r[0]
LinkedTo(r) == {v \in Nums(r) : r[v] = r[0]}

\* The versions Lisp is to see and the entries that hold them.
Known(r) == Nums(r) \cup (IF LooseRow(r) THEN {TopOf(r) + 1} ELSE {})
Entry(r, v) == r[IF v \in Nums(r) THEN v ELSE 0]
ViewRow(r) == [v \in Known(r) |-> Entry(r, v)]

\* There is room for the number of a loose file.
RoomRow(r) == LooseRow(r) => r[MaxVersion] = None
\* The versionless name is the newest version.
OrderRow(r) == Nums(r) # {} => r[0] = r[TopOf(r)]

\* Nothing changes for Lisp, but that a loose version may have got its number.
Kept(r, t) == t \in Rows /\ RoomRow(t) /\ ViewRow(t) = ViewRow(r) /\ (LooseRow(t) => LooseRow(r))

LEMMA Constants ==
  /\ MaxVersion \in Nat /\ 1 <= MaxVersion /\ 0 \in Version /\ 1 \in Version /\ MaxVersion \in Version
  /\ Version \in SUBSET Nat /\ None \notin Inode /\ None \notin Family /\ IsFiniteSet(Name)
  /\ \A v \in 1 .. MaxVersion : v \in Version
  /\ \A v \in Version : v # 0 => v \in 1 .. MaxVersion
<1>1. /\ MaxVersion \in Nat /\ 1 <= MaxVersion /\ 0 \in Version /\ 1 \in Version /\ MaxVersion \in Version
      /\ Version \in SUBSET Nat /\ None \notin Inode /\ None \notin Family
      /\ \A v \in 1 .. MaxVersion : v \in Version
      /\ \A v \in Version : v # 0 => v \in 1 .. MaxVersion
  BY FilesAssumption DEF Version, Inode
<1>2. IsFiniteSet(Version)
  BY <1>1, FS_Interval DEF Version
<1>3. IsFiniteSet(Family)
  BY FilesAssumption
<1>4. IsFiniteSet(Name)
  BY <1>2, <1>3, FS_Product DEF Name
<1>5. QED
  BY <1>1, <1>4

LEMMA TopIs ==
  ASSUME NEW r
  PROVE  /\ TopOf(r) \in 0 .. MaxVersion /\ TopOf(r) \in Nums(r) \cup {0}
         /\ Nums(r) # {} => TopOf(r) \in Nums(r)
         /\ \A v \in Nums(r) : v <= TopOf(r)
         /\ Nums(r) = {} => TopOf(r) = 0
<1> DEFINE S == Nums(r) \cup {0}
<1>1. MaxVersion \in Nat /\ S \in SUBSET (0 .. MaxVersion) /\ S # {}
  BY Constants DEF Nums
<1>2. Max(S) \in S /\ \A x \in S : x <= Max(S)
  BY <1>1, MaxIs
<1>3. Nums(r) # {} => Max(S) # 0
  BY <1>1, <1>2 DEF Nums
<1>4. QED
  BY <1>1, <1>2, <1>3 DEF TopOf

\* The top is where no higher number is.
LEMMA TopAt ==
  ASSUME NEW r, NEW t \in Nums(r), \A v \in Nums(r) : v <= t
  PROVE  TopOf(r) = t
<1>1. TopOf(r) \in Nums(r) /\ t <= TopOf(r) /\ TopOf(r) <= t
  BY TopIs
<1>2. QED
  BY <1>1, TopIs DEF Nums

LEMMA TopSame ==
  ASSUME NEW r, NEW t, Nums(t) = Nums(r)
  PROVE  TopOf(t) = TopOf(r)
BY DEF TopOf

\* What Lisp sees, version by version.
LEMMA ViewIs ==
  ASSUME NEW r \in Rows
  PROVE  /\ DOMAIN ViewRow(r) = Known(r)
         /\ \A v \in Nums(r) : v \in Known(r) /\ ViewRow(r)[v] = r[v]
         /\ LooseRow(r) => TopOf(r) + 1 \in Known(r) /\ ViewRow(r)[TopOf(r) + 1] = r[0] /\ TopOf(r) + 1 \notin Nums(r)
         /\ ~LooseRow(r) => Known(r) = Nums(r)
         /\ \A v \in Known(r) : v \in Nums(r) \/ (LooseRow(r) /\ v = TopOf(r) + 1)
         /\ RoomRow(r) => Known(r) \subseteq 1 .. MaxVersion
<1>1. TopOf(r) \in Nat /\ TopOf(r) + 1 \notin Nums(r)
  BY TopIs DEF Nums
<1>2. DOMAIN ViewRow(r) = Known(r) /\ \A v \in Known(r) : ViewRow(r)[v] = Entry(r, v)
  BY DEF ViewRow
<1>3. ASSUME RoomRow(r) PROVE Known(r) \subseteq 1 .. MaxVersion
  <2>1. LooseRow(r) => MaxVersion \notin Nums(r)
    BY <1>3 DEF RoomRow, Nums
  <2>2. LooseRow(r) => TopOf(r) + 1 \in 1 .. MaxVersion
    BY <2>1, TopIs, Constants DEF Nums
  <2>3. QED
    BY <2>2 DEF Known, Nums
<1>4. QED
  BY <1>1, <1>2, <1>3 DEF Known, Entry

LEMMA SameView ==
  ASSUME NEW r, NEW t, Known(t) = Known(r), \A v \in Known(r) : Entry(t, v) = Entry(r, v)
  PROVE  ViewRow(t) = ViewRow(r)
BY DEF ViewRow

\* The view as a function with a given domain and values.
LEMMA ViewWith ==
  ASSUME NEW r \in Rows, NEW D, NEW F, F = [v \in D |-> F[v]], Known(r) = D, \A v \in D : Entry(r, v) = F[v]
  PROVE  ViewRow(r) = F
BY DEF ViewRow

LEMMA KeptSelf == ASSUME NEW r \in Rows, RoomRow(r) PROVE Kept(r, r)
BY DEF Kept

LEMMA KeptTwice == ASSUME NEW r, NEW s, NEW t, Kept(r, s), Kept(s, t) PROVE Kept(r, t)
BY DEF Kept

-----------------------------------------------------------------------------
(* One name of a row changes.                                              *)

\* unlink of the versionless name, while it is the link to a version.
LEMMA DropLink ==
  ASSUME NEW r \in Rows, ~LooseRow(r)
  PROVE  LET t == [r EXCEPT ![0] = None]
         IN  Kept(r, t) /\ ~LooseRow(t) /\ Nums(t) = Nums(r) /\ t[0] = None /\ \A v \in Nums(r) : t[v] = r[v]
<1> DEFINE t == [r EXCEPT ![0] = None]
<1>1. t \in Rows /\ t[0] = None /\ \A v \in 1 .. MaxVersion : t[v] = r[v]
  BY Constants DEF Rows
<1> HIDE DEF t
<1>2. Nums(t) = Nums(r)
  BY <1>1 DEF Nums
<1>3. ~LooseRow(t)
  BY <1>1 DEF LooseRow
<1>4. Known(t) = Known(r)
  BY <1>2, <1>3 DEF Known
<1>5. \A v \in Known(r) : Entry(t, v) = Entry(r, v)
  BY <1>1, <1>2 DEF Known, Entry, Nums
<1>6. ViewRow(t) = ViewRow(r)
  BY <1>4, <1>5, SameView
<1>7. QED
  BY <1>1, <1>2, <1>3, <1>6 DEF Kept, RoomRow, Nums, t

\* link of the versionless name to a version.
LEMMA MakeLink ==
  ASSUME NEW r \in Rows, r[0] = None, NEW v \in Nums(r)
  PROVE  LET t == [r EXCEPT ![0] = r[v]]
         IN  Kept(r, t) /\ ~LooseRow(t) /\ Nums(t) = Nums(r) /\ t[0] = r[v] /\ \A w \in Nums(r) : t[w] = r[w]
<1> DEFINE t == [r EXCEPT ![0] = r[v]]
<1>1. t \in Rows /\ t[0] = r[v] /\ \A w \in 1 .. MaxVersion : t[w] = r[w]
  BY Constants DEF Rows, Nums
<1> HIDE DEF t
<1>2. Nums(t) = Nums(r) /\ v \in 1 .. MaxVersion
  BY <1>1 DEF Nums
<1>3. ~LooseRow(t) /\ ~LooseRow(r)
  BY <1>1, <1>2 DEF LooseRow
<1>4. Known(t) = Known(r)
  BY <1>2, <1>3 DEF Known
<1>5. \A w \in Known(r) : Entry(t, w) = Entry(r, w)
  BY <1>1, <1>2, <1>3 DEF Known, Entry, Nums
<1>6. ViewRow(t) = ViewRow(r)
  BY <1>4, <1>5, SameView
<1>7. QED
  BY <1>1, <1>2, <1>3, <1>6 DEF Kept, RoomRow, Nums, t

\* A loose file gets a name with its number, and keeps the versionless one or
\* loses it.
LEMMA NumberLoose ==
  ASSUME NEW r \in Rows, LooseRow(r), RoomRow(r), NEW x \in {r[0], None}
  PROVE  LET n == TopOf(r) + 1
             t == [[r EXCEPT ![n] = r[0]] EXCEPT ![0] = x]
         IN  /\ n \in 1 .. MaxVersion /\ r[n] = None
             /\ Kept(r, t) /\ ~LooseRow(t) /\ Nums(t) = Nums(r) \cup {n} /\ TopOf(t) = n /\ t[n] = r[0] /\ t[0] = x
<1> DEFINE n == TopOf(r) + 1
           t == [[r EXCEPT ![n] = r[0]] EXCEPT ![0] = x]
<1>1. n \in 1 .. MaxVersion /\ n \notin Nums(r) /\ TopOf(r) \in Nat
  <2>1. MaxVersion \notin Nums(r)
    BY DEF RoomRow, Nums
  <2>2. QED
    BY <2>1, TopIs, Constants DEF Nums
<1>2. n \in Version /\ n # 0 /\ r[n] = None /\ r[0] \in Inode \cup {None}
  BY <1>1, Constants DEF Nums, Rows
<1>3. t \in Rows /\ t[0] = x /\ t[n] = r[0] /\ \A v \in 1 .. MaxVersion : v # n => t[v] = r[v]
  BY <1>2, Constants DEF Rows
<1> HIDE DEF t
<1>4. Nums(t) = Nums(r) \cup {n}
  <2>1. r[0] # None
    BY DEF LooseRow
  <2>2. QED
    BY <1>1, <1>3, <2>1 DEF Nums
<1>5. ~LooseRow(t)
  BY <1>3, <1>4 DEF LooseRow
<1>6. TopOf(t) = n
  <2>1. \A v \in Nums(t) : v <= n
    BY <1>1, <1>4, TopIs DEF Nums
  <2>2. QED
    BY <1>4, <2>1, TopAt
<1>7. Known(t) = Known(r)
  BY <1>4, <1>5 DEF Known
<1>8. \A v \in Known(r) : Entry(t, v) = Entry(r, v)
  BY <1>1, <1>3, <1>4 DEF Known, Entry, Nums
<1>9. ViewRow(t) = ViewRow(r)
  BY <1>7, <1>8, SameView
<1>10. Kept(r, t)
  BY <1>3, <1>5, <1>9 DEF Kept, RoomRow
<1>11. QED
  BY <1>1, <1>2, <1>3, <1>4, <1>5, <1>6, <1>10 DEF t

\* A version is added, or taken over by another file.
LEMMA PutVersion ==
  ASSUME NEW r \in Rows, NEW v \in 1 .. MaxVersion, NEW i \in Inode,
         r[0] = None \/ \E m \in Nums(r) \ {v} : r[m] = r[0]
  PROVE  LET t == [r EXCEPT ![v] = i]
         IN  /\ t \in Rows /\ ~LooseRow(r) /\ ~LooseRow(t) /\ t[v] = i /\ t[0] = r[0]
             /\ Nums(t) = Nums(r) \cup {v} /\ \A w \in Nums(r) : w # v => t[w] = r[w]
             /\ ViewRow(t) = V!With(ViewRow(r), v, i)
<1> DEFINE t == [r EXCEPT ![v] = i]
<1>1. t \in Rows /\ t[v] = i /\ t[0] = r[0] /\ \A w \in 1 .. MaxVersion : w # v => t[w] = r[w]
  BY Constants DEF Rows
<1> HIDE DEF t
<1>2. Nums(t) = Nums(r) \cup {v}
  BY <1>1, Constants DEF Nums
<1>3. ~LooseRow(t) /\ ~LooseRow(r)
  BY <1>1, <1>2 DEF LooseRow, Nums
<1>4. Known(t) = Nums(r) \cup {v} /\ Known(r) = Nums(r)
  BY <1>2, <1>3 DEF Known
<1>5. \A w \in Known(t) : Entry(t, w) = IF w = v THEN i ELSE Entry(r, w)
  BY <1>1, <1>2, <1>4 DEF Entry, Nums
<1>6. V!With(ViewRow(r), v, i) = [w \in Known(r) \cup {v} |-> IF w = v THEN i ELSE ViewRow(r)[w]]
  BY DEF V!With, ViewRow
<1>7. \A w \in Known(r) : ViewRow(r)[w] = Entry(r, w)
  BY DEF ViewRow
<1>8. ViewRow(t) = [w \in Known(r) \cup {v} |-> IF w = v THEN i ELSE ViewRow(r)[w]]
  BY <1>4, <1>5, <1>7 DEF ViewRow
<1>9. \A w \in Nums(r) : w # v => t[w] = r[w]
  BY <1>1 DEF Nums
<1>10. QED
  BY <1>1, <1>2, <1>3, <1>6, <1>8, <1>9 DEF t

\* The versionless name of a family without versions is a new version 1.
LEMMA PutFirst ==
  ASSUME NEW r \in Rows, Nums(r) = {}, NEW i \in Inode
  PROVE  LET t == [r EXCEPT ![0] = i]
         IN  /\ t \in Rows /\ LooseRow(t) /\ t[0] = i /\ Nums(t) = {} /\ RoomRow(t)
             /\ ViewRow(t) = V!With(ViewRow(r), 1, i) /\ Known(r) \subseteq {1}
<1> DEFINE t == [r EXCEPT ![0] = i]
<1>1. t \in Rows /\ t[0] = i /\ \A w \in 1 .. MaxVersion : t[w] = r[w]
  BY Constants DEF Rows
<1> HIDE DEF t
<1>2. Nums(t) = {}
  BY <1>1 DEF Nums
<1>3. LooseRow(t) /\ RoomRow(t)
  BY <1>1, <1>2, Constants DEF LooseRow, RoomRow, Nums
<1>4. TopOf(t) + 1 = 1 /\ TopOf(r) + 1 = 1
  BY <1>2, TopIs
<1>5. Known(t) = {1} /\ Known(r) \subseteq {1}
  BY <1>2, <1>3, <1>4 DEF Known
<1>6. Entry(t, 1) = i
  BY <1>1, <1>2 DEF Entry
<1>7. V!With(ViewRow(r), 1, i) = [w \in Known(r) \cup {1} |-> IF w = 1 THEN i ELSE ViewRow(r)[w]]
  BY DEF V!With, ViewRow
<1>8. ViewRow(t) = [w \in Known(r) \cup {1} |-> IF w = 1 THEN i ELSE ViewRow(r)[w]]
  BY <1>5, <1>6 DEF ViewRow
<1>9. QED
  BY <1>1, <1>2, <1>3, <1>5, <1>7, <1>8 DEF t

-----------------------------------------------------------------------------
(* One name of a row goes, as VersionedFiles has it.                        *)

LEMMA SameMax == ASSUME NEW S PROVE V!Max(S) = Max(S)
BY DEF V!Max, Max

LEMMA RestrictIs == ASSUME NEW F, NEW S PROVE V!Restrict(F, S) = [x \in S |-> F[x]]
BY DEF V!Restrict

\* The number of the newest version.
LEMMA HighestIs ==
  ASSUME NEW r \in Rows
  PROVE  V!Highest(ViewRow(r)) = IF LooseRow(r) THEN TopOf(r) + 1 ELSE TopOf(r)
<1> DEFINE S == Known(r) \cup {0}
           m == IF LooseRow(r) THEN TopOf(r) + 1 ELSE TopOf(r)
           b == MaxVersion + 1
<1>1. b \in Nat /\ S \in SUBSET (0 .. b) /\ m \in S /\ \A x \in S : x <= m
  <2>1. TopOf(r) \in 0 .. MaxVersion /\ TopOf(r) \in Nums(r) \cup {0} /\ \A v \in Nums(r) : v <= TopOf(r)
    BY TopIs
  <2>2. Known(r) \subseteq 0 .. b
    BY <2>1, Constants DEF Known, Nums
  <2>3. m \in S
    BY <2>1 DEF Known
  <2>4. \A x \in S : x <= m
    BY <2>1 DEF Known, Nums
  <2>5. QED
    BY <2>2, <2>3, <2>4, Constants
<1> HIDE DEF S, m, b
<1>2. Max(S) = m
  BY <1>1, MaxOf
<1>3. V!Highest(ViewRow(r)) = Max(S)
  BY SameMax DEF V!Highest, ViewRow, S
<1>4. QED
  BY <1>2, <1>3 DEF m

\* A version that is not the only one behind the versionless name.
LEMMA DropVersion ==
  ASSUME NEW r \in Rows, NEW v \in Nums(r), r[0] = None \/ \E m \in Nums(r) \ {v} : r[m] = r[0]
  PROVE  LET t == [r EXCEPT ![v] = None]
         IN  /\ t \in Rows /\ ~LooseRow(r) /\ ~LooseRow(t) /\ t[0] = r[0]
             /\ Nums(t) = Nums(r) \ {v} /\ \A w \in Nums(t) : t[w] = r[w]
             /\ ViewRow(t) = V!Without(ViewRow(r), v, FALSE)
<1> DEFINE t == [r EXCEPT ![v] = None]
<1>1. t \in Rows /\ t[v] = None /\ t[0] = r[0] /\ \A w \in 1 .. MaxVersion : w # v => t[w] = r[w]
  BY Constants DEF Rows, Nums
<1> HIDE DEF t
<1>2. Nums(t) = Nums(r) \ {v}
  BY <1>1 DEF Nums
<1>3. ~LooseRow(t) /\ ~LooseRow(r)
  BY <1>1, <1>2 DEF LooseRow, Nums
<1>4. Known(t) = Known(r) \ {v} /\ Known(r) = Nums(r)
  BY <1>2, <1>3 DEF Known
<1>5. \A w \in Known(t) : Entry(t, w) = Entry(r, w)
  BY <1>1, <1>2, <1>4 DEF Entry, Nums
<1>6. V!Without(ViewRow(r), v, FALSE) = [w \in Known(r) \ {v} |-> ViewRow(r)[w]]
  BY RestrictIs DEF V!Without, ViewRow
<1>7. \A w \in Known(r) : ViewRow(r)[w] = Entry(r, w)
  BY DEF ViewRow
<1>8. ViewRow(t) = [w \in Known(r) \ {v} |-> ViewRow(r)[w]]
  BY <1>4, <1>5, <1>7 DEF ViewRow
<1>9. \A w \in Nums(t) : t[w] = r[w]
  BY <1>1, <1>2 DEF Nums
<1>10. QED
  BY <1>1, <1>2, <1>3, <1>6, <1>8, <1>9 DEF t

\* The loose version itself.
LEMMA DropLoose ==
  ASSUME NEW r \in Rows, LooseRow(r)
  PROVE  LET t == [r EXCEPT ![0] = None]
         IN  /\ t \in Rows /\ ~LooseRow(t) /\ t[0] = None
             /\ Nums(t) = Nums(r) /\ \A w \in Nums(t) : t[w] = r[w]
             /\ ViewRow(t) = V!Without(ViewRow(r), TopOf(r) + 1, TRUE)
<1> DEFINE t == [r EXCEPT ![0] = None]
           n == TopOf(r) + 1
<1>1. t \in Rows /\ t[0] = None /\ \A w \in 1 .. MaxVersion : t[w] = r[w]
  BY Constants DEF Rows
<1> HIDE DEF t
<1>2. Nums(t) = Nums(r)
  BY <1>1 DEF Nums
<1>3. ~LooseRow(t)
  BY <1>1 DEF LooseRow
<1>4. Known(t) = Nums(r) /\ Known(r) = Nums(r) \cup {n} /\ n \notin Nums(r)
  BY <1>2, <1>3, ViewIs DEF Known
<1>5. \A w \in Known(t) : Entry(t, w) = Entry(r, w)
  BY <1>1, <1>2, <1>4 DEF Entry, Nums
<1>6. V!Without(ViewRow(r), n, TRUE) = [w \in Known(r) \ {n} |-> ViewRow(r)[w]]
  <2>1. V!Highest(ViewRow(r)) = n
    BY HighestIs
  <2> HIDE DEF n
  <2>2. QED
    BY <2>1, RestrictIs DEF V!Without, ViewRow
<1>7. \A w \in Known(r) : ViewRow(r)[w] = Entry(r, w)
  BY DEF ViewRow
<1> HIDE DEF n
<1>8. ViewRow(t) = [w \in Known(r) \ {n} |-> ViewRow(r)[w]]
  BY <1>4, <1>5, <1>7 DEF ViewRow
<1>9. \A w \in Nums(t) : t[w] = r[w]
  BY <1>1, <1>2 DEF Nums
<1>10. QED
  BY <1>1, <1>2, <1>3, <1>6, <1>8, <1>9 DEF t, n

\* A version of a family whose newest is loose: that one counts anew.
LEMMA DropBelow ==
  ASSUME NEW r \in Rows, LooseRow(r), NEW v \in Nums(r)
  PROVE  LET t == [r EXCEPT ![v] = None]
         IN  /\ t \in Rows /\ LooseRow(t) /\ t[0] = r[0] /\ (RoomRow(r) => RoomRow(t))
             /\ Nums(t) = Nums(r) \ {v} /\ \A w \in Nums(t) : t[w] = r[w]
             /\ ViewRow(t) = V!Without(ViewRow(r), v, TRUE) /\ v # TopOf(r) + 1
<1> DEFINE t == [r EXCEPT ![v] = None]
           n == TopOf(r) + 1
           low == [w \in Nums(t) |-> r[w]]
           k == TopOf(t) + 1
<1>1. t \in Rows /\ t[v] = None /\ t[0] = r[0] /\ \A w \in 1 .. MaxVersion : w # v => t[w] = r[w]
  BY Constants DEF Rows, Nums
<1> HIDE DEF t
<1>2. Nums(t) = Nums(r) \ {v}
  BY <1>1 DEF Nums
<1>3. LooseRow(t) /\ (RoomRow(r) => RoomRow(t))
  <2>1. LooseRow(t)
    BY <1>1, <1>2 DEF LooseRow, Nums
  <2>2. r[MaxVersion] = None => t[MaxVersion] = None
    BY <1>1, Constants
  <2>3. QED
    BY <2>1, <2>2 DEF RoomRow
<1>4. Known(r) = Nums(r) \cup {n} /\ n \notin Nums(r) /\ v # n
  BY ViewIs DEF Known
<1>5. Known(t) = Nums(t) \cup {k} /\ k \notin Nums(t)
  BY <1>1, <1>3, ViewIs DEF Known
<1>6. \A w \in Known(t) : Entry(t, w) = IF w \in Nums(t) THEN r[w] ELSE r[0]
  BY <1>1, <1>2, <1>5 DEF Entry, Nums
<1>7. ViewRow(r)[n] = r[0] /\ \A w \in Nums(r) : ViewRow(r)[w] = r[w]
  BY ViewIs
<1>8. Max(Nums(t) \cup {0}) + 1 = k
  BY DEF TopOf
<1>9. V!Highest(ViewRow(r)) = n
  BY HighestIs
<1>10. V!Highest(low) + 1 = k
  <2>1. DOMAIN low = Nums(t)
    OBVIOUS
  <2> HIDE DEF low
  <2>2. QED
    BY <1>8, <2>1, SameMax DEF V!Highest
<1> HIDE DEF n, k
<1>11. V!Restrict(V!Restrict(ViewRow(r), DOMAIN ViewRow(r) \ {v}), DOMAIN V!Restrict(ViewRow(r), DOMAIN ViewRow(r) \ {v}) \ {n}) = low
  <2> DEFINE rest == [w \in Known(r) \ {v} |-> ViewRow(r)[w]]
  <2>1. V!Restrict(ViewRow(r), DOMAIN ViewRow(r) \ {v}) = rest
    BY RestrictIs DEF ViewRow
  <2>2. DOMAIN rest \ {n} = Nums(t)
    BY <1>2, <1>4
  <2>3. \A w \in Nums(t) : rest[w] = r[w]
    BY <1>2, <1>4, <1>7
  <2> HIDE DEF rest
  <2>4. V!Restrict(rest, Nums(t)) = [w \in Nums(t) |-> rest[w]]
    BY RestrictIs
  <2>5. QED
    BY <2>1, <2>2, <2>3, <2>4
<1>12. V!Without(ViewRow(r), v, TRUE) = [w \in DOMAIN low \cup {V!Highest(low) + 1} |-> IF w \in DOMAIN low THEN low[w] ELSE ViewRow(r)[n]]
  <2> HIDE DEF low
  <2>1. QED
    BY <1>4, <1>9, <1>11 DEF V!Without
<1>13. V!Without(ViewRow(r), v, TRUE) = [w \in Nums(t) \cup {k} |-> IF w \in Nums(t) THEN r[w] ELSE r[0]]
  BY <1>7, <1>10, <1>12
<1>14. ViewRow(t) = [w \in Nums(t) \cup {k} |-> IF w \in Nums(t) THEN r[w] ELSE r[0]]
  BY <1>5, <1>6 DEF ViewRow
<1>15. \A w \in Nums(t) : t[w] = r[w]
  BY <1>1, <1>2 DEF Nums
<1>16. QED
  BY <1>1, <1>2, <1>3, <1>4, <1>13, <1>14, <1>15 DEF t, n

-----------------------------------------------------------------------------
(* The directory, and an operation under way.                              *)

Dir == [Name -> Inode \cup {None}]
RoomIn(e) == \A f \in Family : RoomRow(Row(e, f))
\* From one directory to another only names of f have changed.
Only(e, d, f) == d \in Dir /\ \A g \in Family \ {f} : Row(d, g) = Row(e, g)

LEMMA RowIs ==
  ASSUME NEW e \in Dir, NEW f \in Family
  PROVE  Row(e, f) \in Rows /\ \A v \in Version : <<f, v>> \in Name /\ Row(e, f)[v] = e[<<f, v>>]
BY DEF Dir, Row, Rows, Name

LEMMA RowSet ==
  ASSUME NEW e \in Dir, NEW f \in Family, NEW x \in Version, NEW y \in Inode \cup {None}
  PROVE  LET d == [e EXCEPT ![<<f, x>>] = y]
         IN  Only(e, d, f) /\ Row(d, f) = [Row(e, f) EXCEPT ![x] = y]
<1> DEFINE d == [e EXCEPT ![<<f, x>>] = y]
<1>1. d \in Dir
  BY DEF Dir, Name
<1>2. \A g \in Family, v \in Version : d[<<g, v>>] = IF g = f /\ v = x THEN y ELSE e[<<g, v>>]
  BY DEF Dir, Name
<1> HIDE DEF d
<1>3. \A g \in Family \ {f} : Row(d, g) = Row(e, g)
  BY <1>2 DEF Row
<1>4. Row(d, f) = [Row(e, f) EXCEPT ![x] = y]
  BY <1>2 DEF Row
<1>5. QED
  BY <1>1, <1>3, <1>4 DEF Only, d

LEMMA OnlySelf == ASSUME NEW e \in Dir, NEW f PROVE Only(e, e, f)
BY DEF Only

LEMMA OnlyTwice ==
  ASSUME NEW a, NEW b, NEW c, NEW f, Only(a, b, f), Only(b, c, f)
  PROVE  Only(a, c, f)
BY DEF Only

VaRec == [key : Family \cup {None}, of : Family \cup {None}, files : SUBSET Version, fresh : BOOLEAN]
OpRec == [ent : Dir, va : VaRec, ok : BOOLEAN, hit : Inode \cup {None}, room : BOOLEAN,
          orders : SUBSET Family, left : Nat, ticks : Nat, od : {FALSE}]

Present(e, f) == {v \in Version : e[<<f, v>>] # None}
\* A version array whose key fits is right.
Cached(e, c) == c.fresh /\ c.key # None => c.of = c.key /\ c.files = Present(e, c.key)
Op(s) == s \in OpRec /\ s.left <= s.ticks /\ Cached(s.ent, s.va)

Meta(s, t) == t.hit = s.hit /\ t.room = s.room /\ t.orders = s.orders
\* A call leads from s to t; when it fails it leaves the directory alone.
Call(s, t) ==
  Op(t) /\ Meta(s, t) /\ t.va.of = s.va.of /\ t.va.files = s.va.files /\ (~t.ok => t.ent = s.ent) /\ (t.ok => s.ok)

LEMMA Changed ==
  ASSUME NEW s, Op(s), NEW e, s.ok => e \in Dir
  PROVE  /\ Call(s, Change(s, e)) /\ (Change(s, e).ok => Change(s, e).ent = e)
         /\ s.ok /\ s.left # 0 => Change(s, e).ok
<1>1. CASE ~s.ok
  BY <1>1 DEF Change, Call, Op, Meta
<1>2. CASE s.ok /\ s.left = 0
  <2> DEFINE t == [s EXCEPT !.ok = FALSE]
  <2>1. /\ t \in OpRec /\ t.ok = FALSE /\ t.ent = s.ent /\ t.va = s.va /\ t.hit = s.hit /\ t.room = s.room
        /\ t.orders = s.orders /\ t.left = s.left /\ t.ticks = s.ticks
    BY DEF Op, OpRec
  <2>2. Change(s, e) = t
    BY <1>2 DEF Change
  <2> HIDE DEF t
  <2>3. QED
    BY <1>2, <2>1, <2>2 DEF Call, Op, Meta
<1>3. CASE s.ok /\ s.left # 0
  <2> DEFINE k == IF s.ticks = 0 THEN 0 ELSE s.ticks - 1
             c == [s.va EXCEPT !.fresh = FALSE]
             s1 == [s EXCEPT !.ent = e]
             s2 == [s1 EXCEPT !.left = s.left - 1]
             s3 == [s2 EXCEPT !.ticks = k]
             t == [s3 EXCEPT !.va = c]
  <2>1. s.left \in Nat /\ s.ticks \in Nat /\ s.left <= s.ticks /\ s.left > 0 /\ s.ticks > 0 /\ s.va.fresh \in BOOLEAN
    BY <1>3 DEF Op, OpRec, VaRec
  <2>2. k \in Nat /\ s.left - 1 \in Nat /\ s.left - 1 <= k
    BY <2>1
  <2>3. c \in VaRec /\ c.fresh = FALSE /\ c.of = s.va.of /\ c.files = s.va.files
    BY DEF Op, OpRec, VaRec
  <2>4. Change(s, e) = t
    <3>1. Change(s, e) = [s EXCEPT !.ent = e, !.left = @ - 1, !.ticks = IF @ = 0 THEN 0 ELSE @ - 1,
                                   !.va.fresh = @ /\ s.ticks = 0]
      BY <1>3 DEF Change
    <3>2. (s.va.fresh /\ s.ticks = 0) = FALSE
      BY <2>1
    <3>3. QED
      BY <3>1, <3>2 DEF Op, OpRec, VaRec
  <2> HIDE DEF k, c
  <2>5. /\ s1 \in OpRec /\ s1.ent = e /\ s1.hit = s.hit /\ s1.room = s.room /\ s1.orders = s.orders /\ s1.ok = s.ok
    BY <1>3 DEF Op, OpRec
  <2> HIDE DEF s1
  <2>6. /\ s2 \in OpRec /\ s2.ent = e /\ s2.hit = s.hit /\ s2.room = s.room /\ s2.orders = s.orders /\ s2.ok = s.ok
        /\ s2.left = s.left - 1
    BY <2>2, <2>5 DEF OpRec
  <2> HIDE DEF s2
  <2>7. /\ s3 \in OpRec /\ s3.ent = e /\ s3.hit = s.hit /\ s3.room = s.room /\ s3.orders = s.orders /\ s3.ok = s.ok
        /\ s3.left = s.left - 1 /\ s3.ticks = k
    BY <2>2, <2>6 DEF OpRec
  <2> HIDE DEF s3
  <2>8. /\ t \in OpRec /\ t.ent = e /\ t.hit = s.hit /\ t.room = s.room /\ t.orders = s.orders /\ t.ok = s.ok
        /\ t.left = s.left - 1 /\ t.ticks = k /\ t.va = c
    BY <2>3, <2>7 DEF OpRec
  <2> HIDE DEF t
  <2>9. QED
    BY <1>3, <2>2, <2>3, <2>4, <2>8 DEF Call, Op, Meta, Cached
<1>4. QED
  BY <1>1, <1>2, <1>3

LEMMA Failed ==
  ASSUME NEW s, Op(s)
  PROVE  Call(s, Error(s)) /\ ~Error(s).ok /\ Error(s).ent = s.ent
<1> DEFINE t == [s EXCEPT !.ok = FALSE]
<1>1. /\ t \in OpRec /\ t.ok = FALSE /\ t.ent = s.ent /\ t.va = s.va /\ t.hit = s.hit /\ t.room = s.room
      /\ t.orders = s.orders /\ t.left = s.left /\ t.ticks = s.ticks
  BY DEF Op, OpRec
<1>2. Error(s) = t
  BY DEF Error
<1> HIDE DEF t
<1>3. QED
  BY <1>1, <1>2 DEF Call, Op, Meta

LEMMA CallTwice ==
  ASSUME NEW s, NEW t, NEW u, Call(s, t), Call(t, u)
  PROVE  Op(u) /\ Meta(s, u) /\ u.va.of = s.va.of /\ u.va.files = s.va.files /\ (u.ok => s.ok)
BY DEF Call, Meta

\* unlink takes one name away or fails.
LEMMA Unlinked ==
  ASSUME NEW s, Op(s), NEW f \in Family, NEW x \in Version
  PROVE  LET t == unlink(s, <<f, x>>)
             r == Row(s.ent, f)
         IN  /\ Call(s, t)
             /\ t.ok => r[x] # None /\ Only(s.ent, t.ent, f) /\ Row(t.ent, f) = [r EXCEPT ![x] = None]
<1> DEFINE d == [s.ent EXCEPT ![<<f, x>>] = None]
<1>1. s.ent \in Dir
  BY DEF Op, OpRec
<1>2. Only(s.ent, d, f) /\ Row(d, f) = [Row(s.ent, f) EXCEPT ![x] = None] /\ s.ent[<<f, x>>] = Row(s.ent, f)[x]
  BY <1>1, RowSet, RowIs
<1> HIDE DEF d
<1>3. d \in Dir
  BY <1>2 DEF Only
<1>4. Call(s, Change(s, d)) /\ (Change(s, d).ok => Change(s, d).ent = d) /\ Call(s, Error(s)) /\ ~Error(s).ok
  BY <1>3, Changed, Failed
<1>5. unlink(s, <<f, x>>) = IF s.ent[<<f, x>>] = None THEN Error(s) ELSE Change(s, d)
  BY DEF unlink, d
<1>6. QED
  BY <1>2, <1>4, <1>5

\* link makes a second name of a file or fails.
LEMMA LinkMade ==
  ASSUME NEW s, Op(s), NEW f \in Family, NEW x \in Version, NEW y \in Version
  PROVE  LET t == link(s, <<f, x>>, <<f, y>>)
             r == Row(s.ent, f)
         IN  /\ Call(s, t)
             /\ t.ok => /\ r[x] # None /\ r[y] = None
                        /\ Only(s.ent, t.ent, f) /\ Row(t.ent, f) = [r EXCEPT ![y] = r[x]]
<1> DEFINE z == s.ent[<<f, x>>]
           d == [s.ent EXCEPT ![<<f, y>>] = z]
<1>1. s.ent \in Dir
  BY DEF Op, OpRec
<1>2. z = Row(s.ent, f)[x] /\ s.ent[<<f, y>>] = Row(s.ent, f)[y] /\ z \in Inode \cup {None}
  BY <1>1, RowIs DEF Rows
<1> HIDE DEF z
<1>3. Only(s.ent, d, f) /\ Row(d, f) = [Row(s.ent, f) EXCEPT ![y] = z]
  BY <1>1, <1>2, RowSet
<1> HIDE DEF d
<1>4. d \in Dir
  BY <1>3 DEF Only
<1>5. Call(s, Change(s, d)) /\ (Change(s, d).ok => Change(s, d).ent = d) /\ Call(s, Error(s)) /\ ~Error(s).ok
  BY <1>4, Changed, Failed
<1>6. link(s, <<f, x>>, <<f, y>>) = IF z = None \/ s.ent[<<f, y>>] # None THEN Error(s) ELSE Change(s, d)
  BY DEF link, d, z
<1>7. QED
  BY <1>2, <1>3, <1>5, <1>6

\* rename gives a file another name, unless that is a name of it already, or
\* fails.
LEMMA Renamed ==
  ASSUME NEW s, Op(s), NEW f \in Family, NEW x \in Version, NEW g \in Family, NEW y \in Version
  PROVE  LET t == rename(s, <<f, x>>, <<g, y>>)
             z == Row(s.ent, f)[x]
         IN  /\ Call(s, t)
             /\ t.ok /\ z = Row(s.ent, g)[y] => t.ent = s.ent
             /\ t.ok /\ z # Row(s.ent, g)[y] =>
                  /\ z # None
                  /\ t.ent = [[s.ent EXCEPT ![<<g, y>>] = z] EXCEPT ![<<f, x>>] = None]
<1> DEFINE z == s.ent[<<f, x>>]
           d == [[s.ent EXCEPT ![<<g, y>>] = z] EXCEPT ![<<f, x>>] = None]
<1>1. s.ent \in Dir
  BY DEF Op, OpRec
<1>2. z = Row(s.ent, f)[x] /\ s.ent[<<g, y>>] = Row(s.ent, g)[y] /\ z \in Inode \cup {None}
  BY <1>1, RowIs DEF Rows
<1> HIDE DEF z
<1>3. d \in Dir
  BY <1>1, <1>2 DEF Dir
<1>4. d = [s.ent EXCEPT ![<<g, y>>] = z, ![<<f, x>>] = None]
  BY <1>1 DEF Dir
<1> HIDE DEF d
<1>5. Call(s, Change(s, d)) /\ (Change(s, d).ok => Change(s, d).ent = d) /\ Call(s, Error(s)) /\ ~Error(s).ok
  BY <1>3, Changed, Failed
<1>6. Call(s, Change(s, s.ent)) /\ (Change(s, s.ent).ok => Change(s, s.ent).ent = s.ent)
  BY <1>1, Changed
<1>7. rename(s, <<f, x>>, <<g, y>>) = IF z = None THEN Error(s)
                                      ELSE IF z = s.ent[<<g, y>>] THEN Change(s, s.ent) ELSE Change(s, d)
  BY <1>4 DEF rename, z
<1>8. QED
  BY <1>2, <1>5, <1>6, <1>7 DEF d

-----------------------------------------------------------------------------
(* Recognition.                                                            *)

\* The version array of s is that of f, and right.
Reads(s, f) == s.ent \in Dir /\ s.va.of = f /\ s.va.files = Present(s.ent, f)

LEMMA ArrayRead ==
  ASSUME NEW s, Op(s), NEW f \in Family
  PROVE  LET t == get_version_array(s, f)
         IN  /\ Op(t) /\ Meta(s, t) /\ t.ent = s.ent /\ t.ok = s.ok
             /\ s.ok => Reads(t, f)
<1> DEFINE c == [key |-> f, of |-> f, fresh |-> TRUE, files |-> Present(s.ent, f)]
           u == [s EXCEPT !.va = c]
<1>1. s.ent \in Dir /\ s.od = FALSE
  BY DEF Op, OpRec
<1>2. CASE ~s.ok \/ CacheHit(s, f)
  <2>1. get_version_array(s, f) = s
    BY <1>2 DEF get_version_array
  <2>2. s.ok => Reads(s, f)
    BY <1>1, <1>2, Constants DEF CacheHit, Op, Cached, Reads
  <2>3. QED
    BY <2>1, <2>2 DEF Meta
<1>3. CASE ~(~s.ok \/ CacheHit(s, f))
  <2>1. get_version_array(s, f) = u
    BY <1>1, <1>3 DEF get_version_array, Present
  <2>2. c \in VaRec /\ c.key = f /\ c.of = f /\ c.files = Present(s.ent, f)
    BY DEF VaRec, Present
  <2> HIDE DEF c
  <2>3. /\ u \in OpRec /\ u.ent = s.ent /\ u.hit = s.hit /\ u.room = s.room /\ u.orders = s.orders /\ u.ok = s.ok
        /\ u.left = s.left /\ u.ticks = s.ticks /\ u.va = c
    BY <2>2 DEF Op, OpRec
  <2> HIDE DEF u
  <2>4. QED
    BY <1>1, <2>1, <2>2, <2>3 DEF Op, Meta, Cached, Reads
<1>4. QED
  BY <1>2, <1>3

\* The five situations, from the row.
Kind(r) ==
  IF Nums(r) = {} THEN IF r[0] = None THEN "none" ELSE "onlyVless"
  ELSE IF r[0] = None THEN "noVless" ELSE IF LooseRow(r) THEN "loose" ELSE "linked"

LEMMA ArrayIs ==
  ASSUME NEW s, NEW f \in Family, Reads(s, f)
  PROVE  LET r == Row(s.ent, f)
         IN  /\ r \in Rows /\ s.va.files \ {0} = Nums(r) /\ (0 \in s.va.files <=> r[0] # None)
             /\ Vless(s) = <<f, 0>> /\ s.ent[Vless(s)] = r[0]
             /\ Linked(s) = LinkedTo(r)
             /\ Nums(r) # {} => FindHighestVersion(s) = TopOf(r)
             /\ \A v \in Version : s.ent[<<s.va.of, v>>] = r[v]
<1> DEFINE r == Row(s.ent, f)
<1>1. r \in Rows /\ \A v \in Version : r[v] = s.ent[<<f, v>>]
  BY RowIs DEF Reads
<1> HIDE DEF r
<1>2. s.va.files \ {0} = Nums(r) /\ (0 \in s.va.files <=> r[0] # None)
  <2>1. s.va.files = {v \in Version : r[v] # None}
    BY <1>1 DEF Reads, Present
  <2>2. \A v : v \in 1 .. MaxVersion <=> v \in Version /\ v # 0
    BY Constants DEF Version
  <2>3. QED
    BY <2>1, <2>2, Constants DEF Nums
<1>3. Vless(s) = <<f, 0>> /\ s.ent[Vless(s)] = r[0]
  BY <1>1, Constants DEF Vless, Reads
<1>4. Linked(s) = LinkedTo(r)
  BY <1>1, <1>2, <1>3, Constants DEF Linked, LinkedTo, Reads, Nums
<1>5. ASSUME Nums(r) # {} PROVE FindHighestVersion(s) = TopOf(r)
  <2>1. TopOf(r) \in s.va.files
    BY <1>2, <1>5, TopIs
  <2>2. \A v \in s.va.files : v <= TopOf(r)
    BY <1>2, TopIs
  <2>3. s.va.files \in SUBSET (0 .. MaxVersion)
    BY DEF Reads, Present, Version
  <2>4. QED
    BY <2>1, <2>2, <2>3, MaxOf, Constants DEF FindHighestVersion
<1>6. QED
  BY <1>1, <1>2, <1>3, <1>4, <1>5 DEF r, Reads

\* check_vless_link: one link is none to a version.
LEMMA LinkCheck ==
  ASSUME NEW s, NEW f \in Family, Reads(s, f), Row(s.ent, f)[0] # None
  PROVE  check_vless_link(s) = IF LooseRow(Row(s.ent, f)) THEN "loose" ELSE "linked"
<1> DEFINE r == Row(s.ent, f)
           i == s.ent[Vless(s)]
           L == {n \in Name : s.ent[n] = i}
<1>1. /\ r[0] = i /\ Linked(s) = LinkedTo(r) /\ s.va.files \ {0} = Nums(r)
      /\ \A v \in Version : s.ent[<<s.va.of, v>>] = r[v] /\ <<f, v>> \in Name /\ r[v] = s.ent[<<f, v>>]
  BY ArrayIs, RowIs DEF Reads
<1>2. LooseRow(r) <=> LinkedTo(r) = {}
  BY DEF LooseRow, LinkedTo
<1> HIDE DEF r, i
<1>3. ASSUME NEW v \in LinkedTo(r) PROVE Cardinality(L) # 1
  <2>1. v \in Version /\ v # 0 /\ s.ent[<<f, v>>] = i
    BY <1>1, <1>3, Constants DEF LinkedTo, Nums
  <2>2. <<f, v>> \in L /\ <<f, 0>> \in L /\ <<f, v>> # <<f, 0>>
    BY <1>1, <2>1, Constants
  <2>3. IsFiniteSet(L)
    BY Constants, FS_Subset
  <2> HIDE DEF L
  <2>4. QED
    BY <2>2, <2>3, FS_Singleton
<1>4. ~ \E v \in s.va.files \ {0} : s.ent[<<s.va.of, v>>] = None /\ \A w \in Linked(s) : w < v
  BY <1>1, Constants DEF Nums
<1>5. Links(s.ent, i) = 1 => LinkedTo(r) = {}
  BY <1>3 DEF Links
<1>6. i # None
  BY <1>1 DEF r
<1>7. check_vless_link(s) = IF LinkedTo(r) = {} THEN "loose" ELSE "linked"
  BY <1>1, <1>4, <1>5, <1>6 DEF check_vless_link, i
<1>8. QED
  BY <1>2, <1>7 DEF r

LEMMA CaseIs ==
  ASSUME NEW s, NEW f \in Family, Reads(s, f)
  PROVE  VlessCase(s) = Kind(Row(s.ent, f))
<1> DEFINE r == Row(s.ent, f)
<1>1. s.va.files \ {0} = Nums(r) /\ (0 \in s.va.files <=> r[0] # None)
  BY ArrayIs
<1>2. r[0] # None => check_vless_link(s) = IF LooseRow(r) THEN "loose" ELSE "linked"
  BY LinkCheck
<1> HIDE DEF r
<1>3. /\ s.va.files = {} <=> Nums(r) = {} /\ r[0] = None
      /\ r[0] # None => (s.va.files = {0} <=> Nums(r) = {})
  BY <1>1, Constants DEF Nums
<1>4. VlessCase(s) = Kind(r)
  BY <1>1, <1>2, <1>3 DEF VlessCase, Kind
<1>5. QED
  BY <1>4 DEF r

\* The entry that holds a version; the newest and the oldest.
NameOf(f, r, v) == <<f, IF v \in Nums(r) THEN v ELSE 0>>
Newest(r) == IF LooseRow(r) THEN TopOf(r) + 1 ELSE TopOf(r)
Oldest(r) == IF Nums(r) = {} THEN 1 ELSE Min(Nums(r))
NewName(f, r, w) ==
  IF w \in Known(r) THEN NameOf(f, r, w)
  ELSE IF Kind(r) = "none" /\ w = 1 THEN <<f, 0>> ELSE <<f, w>>

\* What is known in each situation.
LEMMA KindIs ==
  ASSUME NEW r \in Rows
  PROVE  /\ Kind(r) \in {"none", "onlyVless", "noVless", "loose", "linked"}
         /\ Kind(r) = "none" <=> Nums(r) = {} /\ r[0] = None
         /\ Kind(r) = "onlyVless" <=> Nums(r) = {} /\ r[0] # None
         /\ Kind(r) = "noVless" <=> Nums(r) # {} /\ r[0] = None
         /\ Kind(r) = "loose" <=> Nums(r) # {} /\ LooseRow(r)
         /\ Kind(r) = "linked" <=> r[0] # None /\ ~LooseRow(r)
         /\ LooseRow(r) <=> Kind(r) \in {"onlyVless", "loose"}
         /\ Kind(r) = "none" => Known(r) = {} /\ Newest(r) = 0
         /\ Kind(r) = "onlyVless" => Known(r) = {1} /\ Newest(r) = 1
         /\ Kind(r) = "loose" => Known(r) = Nums(r) \cup {TopOf(r) + 1} /\ Newest(r) = TopOf(r) + 1
         /\ Kind(r) \in {"noVless", "linked"} => Known(r) = Nums(r) /\ Newest(r) = TopOf(r) /\ Nums(r) # {}
         /\ 0 \notin Nums(r) /\ TopOf(r) \in Nat /\ TopOf(r) + 1 \notin Nums(r)
         /\ Nums(r) # {} => TopOf(r) \in Nums(r)
         /\ Nums(r) \subseteq Nat \ {0}
<1>1. /\ TopOf(r) \in Nat /\ 0 \notin Nums(r) /\ TopOf(r) + 1 \notin Nums(r) /\ Nums(r) \subseteq Nat \ {0}
      /\ Nums(r) = {} => TopOf(r) = 0
      /\ Nums(r) # {} => TopOf(r) \in Nums(r)
  BY TopIs DEF Nums
<1>2. Nums(r) = {} => (LooseRow(r) <=> r[0] # None)
  BY DEF LooseRow
<1>3. r[0] = None => ~LooseRow(r)
  BY DEF LooseRow
<1>4. QED
  BY <1>1, <1>2, <1>3 DEF Kind, Known, Newest

LEMMA Vocabulary ==
  ASSUME NEW s, NEW f \in Family, Reads(s, f)
  PROVE  LET r == Row(s.ent, f)
         IN  /\ r \in Rows /\ s.va.of = f /\ Vless(s) = <<f, 0>>
             /\ VlessCase(s) = Kind(r)
             /\ Nums(r) # {} => FindHighestVersion(s) = TopOf(r) /\ Highest(s) = <<f, TopOf(r)>>
             /\ Nums(r) # {} => FindLowestVersion(s) = Oldest(r)
             /\ \A v \in Version \ {0} : \A otherwise :
                  FindSpecifiedVersion(s, v, otherwise) = IF v \in Nums(r) THEN <<f, v>> ELSE otherwise
<1>1. s.va.of = f /\ s.va.files \ {0} = Nums(Row(s.ent, f))
  BY ArrayIs DEF Reads
<1>2. QED
  BY <1>1, ArrayIs, CaseIs DEF Highest, FindLowestVersion, Oldest, FindSpecifiedVersion

\* get_old: the newest version, or the one named.
LEMMA OldIs ==
  ASSUME NEW s, NEW f \in Family, Reads(s, f), NEW v \in Version
  PROVE  LET r == Row(s.ent, f)
             w == IF v = Unspec THEN Newest(r) ELSE v
         IN  get_old(s, f, v) = IF w \in Known(r) THEN NameOf(f, r, w) ELSE Fail
<1> DEFINE r == Row(s.ent, f)
<1>1. /\ r \in Rows /\ Vless(s) = <<f, 0>> /\ VlessCase(s) = Kind(r) /\ s.va.of = f
      /\ Nums(r) # {} => FindHighestVersion(s) = TopOf(r) /\ Highest(s) = <<f, TopOf(r)>>
      /\ \A u \in Version \ {0} : \A otherwise :
           FindSpecifiedVersion(s, u, otherwise) = IF u \in Nums(r) THEN <<f, u>> ELSE otherwise
  BY Vocabulary
<1> HIDE DEF r
<1>2. CASE Kind(r) = "none"
  BY <1>1, <1>2, KindIs DEF get_old, Unspec, r
<1>3. CASE Kind(r) = "onlyVless"
  BY <1>1, <1>3, KindIs DEF get_old, Unspec, NameOf, r
<1>4. CASE Kind(r) = "loose"
  BY <1>1, <1>4, KindIs DEF get_old, Unspec, NameOf, r
<1>5. CASE Kind(r) \in {"noVless", "linked"}
  BY <1>1, <1>5, KindIs DEF get_old, Unspec, NameOf, r
<1>6. QED
  BY <1>1, <1>2, <1>3, <1>4, <1>5, KindIs

\* get_oldest: the oldest version, or the one named.
LEMMA OldestIs ==
  ASSUME NEW s, NEW f \in Family, Reads(s, f), NEW v \in Version
  PROVE  LET r == Row(s.ent, f)
             w == IF v = Unspec THEN Oldest(r) ELSE v
         IN  get_oldest(s, f, v) = IF w \in Known(r) THEN NameOf(f, r, w) ELSE Fail
<1> DEFINE r == Row(s.ent, f)
<1>1. /\ r \in Rows /\ Vless(s) = <<f, 0>> /\ VlessCase(s) = Kind(r) /\ s.va.of = f
      /\ Nums(r) # {} => FindHighestVersion(s) = TopOf(r) /\ FindLowestVersion(s) = Oldest(r)
      /\ \A u \in Version \ {0} : \A otherwise :
           FindSpecifiedVersion(s, u, otherwise) = IF u \in Nums(r) THEN <<f, u>> ELSE otherwise
  BY Vocabulary
<1>2. Nums(r) # {} => Oldest(r) \in Nums(r)
  <2>1. Nums(r) \in SUBSET Nat
    BY <1>1, KindIs
  <2>2. QED
    BY <2>1, MinIs DEF Oldest
<1>3. Nums(r) = {} => Oldest(r) = 1
  BY DEF Oldest
<1> HIDE DEF r
<1>4. CASE Kind(r) = "none"
  BY <1>1, <1>3, <1>4, KindIs DEF get_oldest, Unspec, r
<1>5. CASE Kind(r) = "onlyVless"
  BY <1>1, <1>3, <1>5, KindIs DEF get_oldest, Unspec, NameOf, r
<1>6. CASE Kind(r) = "loose"
  BY <1>1, <1>2, <1>6, KindIs DEF get_oldest, Unspec, NameOf, r
<1>7. CASE Kind(r) \in {"noVless", "linked"}
  BY <1>1, <1>2, <1>7, KindIs DEF get_oldest, Unspec, NameOf, r
<1>8. QED
  BY <1>1, <1>4, <1>5, <1>6, <1>7, KindIs

\* get_new: a version above all, or the one named.
LEMMA NewIs ==
  ASSUME NEW s, NEW f \in Family, Reads(s, f), NEW v \in Version
  PROVE  LET r == Row(s.ent, f)
             w == IF v = Unspec THEN Newest(r) + 1 ELSE v
         IN  get_new(s, f, v) = NewName(f, r, w)
<1> DEFINE r == Row(s.ent, f)
<1>1. /\ r \in Rows /\ Vless(s) = <<f, 0>> /\ VlessCase(s) = Kind(r) /\ s.va.of = f
      /\ Nums(r) # {} => FindHighestVersion(s) = TopOf(r)
      /\ \A u \in Version \ {0} : \A otherwise :
           FindSpecifiedVersion(s, u, otherwise) = IF u \in Nums(r) THEN <<f, u>> ELSE otherwise
  BY Vocabulary
<1>2. \A u \in Nums(r) : u <= TopOf(r)
  BY TopIs
<1> HIDE DEF r
<1>3. CASE Kind(r) = "none"
  BY <1>1, <1>3, KindIs DEF get_new, Unspec, NewName, r
<1>4. CASE Kind(r) = "onlyVless"
  BY <1>1, <1>4, KindIs DEF get_new, Unspec, NewName, NameOf, r
<1>5. CASE Kind(r) = "loose"
  <2>1. TopOf(r) + 2 \notin Known(r) /\ TopOf(r) + 1 + 1 = TopOf(r) + 2
    BY <1>1, <1>2, <1>5, KindIs
  <2>2. CASE v = 0
    BY <1>1, <1>5, <2>1, <2>2, KindIs DEF get_new, Unspec, NewName, r
  <2>3. CASE v # 0
    BY <1>1, <1>5, <2>3, KindIs DEF get_new, Unspec, NewName, NameOf, r
  <2>4. QED
    BY <2>2, <2>3
<1>6. CASE Kind(r) \in {"noVless", "linked"}
  <2>1. TopOf(r) + 1 \notin Known(r)
    BY <1>1, <1>6, KindIs
  <2>2. CASE v = 0
    BY <1>1, <1>6, <2>1, <2>2, KindIs DEF get_new, Unspec, NewName, r
  <2>3. CASE v # 0
    BY <1>1, <1>6, <2>3, KindIs DEF get_new, Unspec, NewName, NameOf, r
  <2>4. QED
    BY <2>2, <2>3
<1>7. QED
  BY <1>1, <1>3, <1>4, <1>5, <1>6, KindIs

\* get_old_new: the newest version, or the one named, which may be new.
LEMMA OldNewIs ==
  ASSUME NEW s, NEW f \in Family, Reads(s, f), NEW v \in Version
  PROVE  LET r == Row(s.ent, f)
             w == IF v # Unspec THEN v ELSE IF Kind(r) = "none" THEN 1 ELSE Newest(r)
         IN  get_old_new(s, f, v) = NewName(f, r, w)
<1> DEFINE r == Row(s.ent, f)
<1>1. /\ r \in Rows /\ Vless(s) = <<f, 0>> /\ VlessCase(s) = Kind(r) /\ s.va.of = f
      /\ Nums(r) # {} => FindHighestVersion(s) = TopOf(r) /\ Highest(s) = <<f, TopOf(r)>>
      /\ \A u \in Version \ {0} : \A otherwise :
           FindSpecifiedVersion(s, u, otherwise) = IF u \in Nums(r) THEN <<f, u>> ELSE otherwise
  BY Vocabulary
<1> HIDE DEF r
<1>2. CASE Kind(r) = "none"
  BY <1>1, <1>2, KindIs DEF get_old_new, Unspec, NewName, r
<1>3. CASE Kind(r) = "onlyVless"
  BY <1>1, <1>3, KindIs DEF get_old_new, Unspec, NewName, NameOf, r
<1>4. CASE Kind(r) = "loose"
  BY <1>1, <1>4, KindIs DEF get_old_new, Unspec, NewName, NameOf, r
<1>5. CASE Kind(r) \in {"noVless", "linked"}
  BY <1>1, <1>5, KindIs DEF get_old_new, Unspec, NewName, NameOf, r
<1>6. QED
  BY <1>1, <1>2, <1>3, <1>4, <1>5, KindIs

-----------------------------------------------------------------------------
(* maintain_version.                                                       *)

LEMMA OrderIs ==
  ASSUME NEW r \in Rows
  PROVE  /\ OrderRow(r) /\ Nums(r) # {} => ~LooseRow(r) /\ r[0] # None /\ TopOf(r) \in LinkedTo(r)
         /\ Nums(r) = {} => OrderRow(r)
<1>1. Nums(r) # {} => TopOf(r) \in Nums(r)
  BY TopIs
<1>2. QED
  BY <1>1 DEF OrderRow, LooseRow, LinkedTo, Nums

\* What maintain_version does to the row of its family, call by call.
Mended(r, q, forcep, ok) ==
  /\ Kept(r, q)
  /\ ok => OrderRow(q) /\ (forcep => ~LooseRow(q))

LEMMA MendedSelf ==
  ASSUME NEW r \in Rows, RoomRow(r), NEW forcep, NEW ok, ok => OrderRow(r) /\ (forcep => ~LooseRow(r))
  PROVE  Mended(r, r, forcep, ok)
BY KeptSelf DEF Mended

\* The case of a loose file, with versions or without.
LEMMA MendLoose ==
  ASSUME NEW s, Op(s), NEW f \in Family, LooseRow(Row(s.ent, f)), RoomRow(Row(s.ent, f)), NEW forcep
  PROVE  LET r == Row(s.ent, f)
             n == TopOf(r) + 1
             t == link(s, <<f, 0>>, <<f, n>>)
         IN  Call(s, t) /\ Only(s.ent, t.ent, f) /\ Mended(r, Row(t.ent, f), forcep, t.ok)
<1> DEFINE r == Row(s.ent, f)
           n == TopOf(r) + 1
           t == link(s, <<f, 0>>, <<f, n>>)
           q == [[r EXCEPT ![n] = r[0]] EXCEPT ![0] = r[0]]
<1>1. s.ent \in Dir
  BY DEF Op, OpRec
<1>2. r \in Rows
  BY <1>1, RowIs
<1>3. /\ n \in 1 .. MaxVersion /\ Kept(r, q) /\ ~LooseRow(q) /\ Nums(q) = Nums(r) \cup {n} /\ TopOf(q) = n
      /\ q[n] = r[0] /\ q[0] = r[0]
  BY <1>2, NumberLoose
<1>4. n \in Version /\ 0 \in Version /\ n # 0
  BY <1>3, Constants
<1>5. /\ Call(s, t)
      /\ t.ok => Only(s.ent, t.ent, f) /\ Row(t.ent, f) = [r EXCEPT ![n] = r[0]]
  <2> HIDE DEF n
  <2>1. QED
    BY <1>4, LinkMade
<1>6. q = [r EXCEPT ![n] = r[0]]
  <2> HIDE DEF n
  <2>1. QED
    BY <1>2, <1>4, Constants DEF Rows
<1>7. OrderRow(q)
  BY <1>3 DEF OrderRow
<1> HIDE DEF q, t
<1>8. ~t.ok => t.ent = s.ent
  BY <1>5 DEF Call
<1>9. Only(s.ent, s.ent, f)
  BY <1>1, OnlySelf
<1>10. Mended(r, Row(t.ent, f), forcep, t.ok)
  <2>1. CASE t.ok
    BY <1>3, <1>5, <1>6, <1>7, <2>1 DEF Mended
  <2>2. CASE ~t.ok
    BY <1>2, <1>8, <2>2, KeptSelf DEF Mended
  <2>3. QED
    BY <2>1, <2>2
<1>11. QED
  BY <1>5, <1>8, <1>9, <1>10 DEF t

\* The case of a family without the versionless name.
LEMMA MendBare ==
  ASSUME NEW s, Op(s), NEW f \in Family, NEW forcep,
         Row(s.ent, f)[0] = None, Nums(Row(s.ent, f)) # {}
  PROVE  LET r == Row(s.ent, f)
             t == link(s, <<f, TopOf(r)>>, <<f, 0>>)
         IN  Call(s, t) /\ Only(s.ent, t.ent, f) /\ Mended(r, Row(t.ent, f), forcep, t.ok)
<1> DEFINE r == Row(s.ent, f)
           n == TopOf(r)
           t == link(s, <<f, n>>, <<f, 0>>)
           q == [r EXCEPT ![0] = r[n]]
<1>1. s.ent \in Dir
  BY DEF Op, OpRec
<1>2. r \in Rows
  BY <1>1, RowIs
<1>3. n \in Nums(r) /\ n \in Version /\ 0 \in Version
  BY TopIs, Constants DEF Nums
<1>4. Kept(r, q) /\ ~LooseRow(q) /\ Nums(q) = Nums(r) /\ q[0] = r[n] /\ \A w \in Nums(r) : q[w] = r[w]
  <2> HIDE DEF n
  <2>1. QED
    BY <1>2, <1>3, MakeLink
<1>5. TopOf(q) = n
  BY <1>4, TopSame
<1>6. OrderRow(q)
  BY <1>3, <1>4, <1>5 DEF OrderRow
<1>7. /\ Call(s, t)
      /\ t.ok => Only(s.ent, t.ent, f) /\ Row(t.ent, f) = q
  <2> HIDE DEF n
  <2>1. QED
    BY <1>3, LinkMade
<1> HIDE DEF q, t
<1>8. ~t.ok => t.ent = s.ent
  BY <1>7 DEF Call
<1>9. Only(s.ent, s.ent, f)
  BY <1>1, OnlySelf
<1>10. Mended(r, Row(t.ent, f), forcep, t.ok)
  <2>1. CASE t.ok
    BY <1>4, <1>6, <1>7, <2>1 DEF Mended
  <2>2. CASE ~t.ok
    <3>1. RoomRow(r)
      BY DEF RoomRow, LooseRow
    <3>2. QED
      BY <1>2, <1>8, <2>2, <3>1, KeptSelf DEF Mended
  <2>3. QED
    BY <2>1, <2>2
<1>11. QED
  BY <1>7, <1>8, <1>9, <1>10 DEF t

\* The case of a link to an old version.
LEMMA MendOld ==
  ASSUME NEW s, Op(s), NEW f \in Family, NEW forcep,
         Row(s.ent, f)[0] # None, ~LooseRow(Row(s.ent, f))
  PROVE  LET r == Row(s.ent, f)
             t == link(unlink(s, <<f, 0>>), <<f, TopOf(r)>>, <<f, 0>>)
         IN  Op(t) /\ Meta(s, t) /\ (t.ok => s.ok) /\ Only(s.ent, t.ent, f) /\ Mended(r, Row(t.ent, f), forcep, t.ok)
<1> DEFINE r == Row(s.ent, f)
           u == unlink(s, <<f, 0>>)
           q == [r EXCEPT ![0] = None]
           t == link(u, <<f, TopOf(r)>>, <<f, 0>>)
<1>1. s.ent \in Dir /\ 0 \in Version
  BY Constants DEF Op, OpRec
<1>2. r \in Rows
  BY <1>1, RowIs
<1>3. Kept(r, q) /\ ~LooseRow(q) /\ Nums(q) = Nums(r) /\ q[0] = None
  BY <1>2, DropLink
<1>4. Call(s, u) /\ (u.ok => Only(s.ent, u.ent, f) /\ Row(u.ent, f) = q)
  BY <1>1, Unlinked
<1>5. Nums(r) # {}
  BY DEF LooseRow
<1> HIDE DEF q, u
<1>6. CASE u.ok
  <2>1. Row(u.ent, f)[0] = None /\ Nums(Row(u.ent, f)) # {} /\ Op(u) /\ TopOf(Row(u.ent, f)) = TopOf(r)
    BY <1>3, <1>4, <1>5, <1>6, TopSame DEF Call
  <2>2. Call(u, t) /\ Only(u.ent, t.ent, f) /\ Mended(q, Row(t.ent, f), forcep, t.ok)
    BY <1>4, <1>6, <2>1, MendBare
  <2> HIDE DEF t
  <2>3. Mended(r, Row(t.ent, f), forcep, t.ok)
    BY <1>3, <2>2, KeptTwice DEF Mended
  <2>4. Only(s.ent, t.ent, f)
    BY <1>4, <1>6, <2>2, OnlyTwice
  <2>5. Op(t) /\ Meta(s, t) /\ (t.ok => s.ok)
    BY <1>4, <2>2, CallTwice
  <2>6. QED
    BY <2>3, <2>4, <2>5 DEF t, u
<1>7. CASE ~u.ok
  <2>1. Op(u) /\ u.ent = s.ent
    BY <1>4, <1>7 DEF Call
  <2>2. TopOf(r) \in Version
    BY <1>5, TopIs, Constants DEF Nums
  <2>3. Call(u, t)
    <3> DEFINE k == TopOf(r)
    <3>1. k \in Version
      BY <2>2
    <3> HIDE DEF k
    <3>2. Call(u, link(u, <<f, k>>, <<f, 0>>))
      BY <1>1, <2>1, <3>1, LinkMade
    <3>3. QED
      BY <3>2 DEF k
  <2> HIDE DEF t
  <2>4. ~t.ok /\ t.ent = s.ent /\ Op(t)
    BY <1>7, <2>1, <2>3 DEF Call
  <2>5. Mended(r, r, forcep, t.ok)
    <3>1. RoomRow(r)
      BY DEF RoomRow
    <3>2. QED
      BY <1>2, <2>4, <3>1, MendedSelf
  <2>6. Meta(s, t)
    BY <1>4, <2>3, CallTwice
  <2>7. QED
    BY <1>1, <2>4, <2>5, <2>6, OnlySelf DEF t, u
<1>8. QED
  BY <1>6, <1>7

\* What an operation may count on after maintain_version.
Mends(s, t, f, forcep) ==
  /\ Op(t) /\ Meta(s, t) /\ (t.ok => s.ok) /\ Only(s.ent, t.ent, f) /\ RoomIn(t.ent)
  /\ Mended(Row(s.ent, f), Row(t.ent, f), forcep, t.ok)

LEMMA RoomOnly ==
  ASSUME NEW e, NEW d, NEW f \in Family, Only(e, d, f), RoomIn(e), RoomRow(Row(d, f))
  PROVE  RoomIn(d)
<1>1. ASSUME NEW g \in Family PROVE RoomRow(Row(d, g))
  <2>1. CASE g = f
    BY <2>1
  <2>2. CASE g # f
    BY <2>2 DEF Only, RoomIn
  <2>3. QED
    BY <2>1, <2>2
<1>2. QED
  BY <1>1 DEF RoomIn

\* maintain_version by its situations, the array read.
LEMMA MaintainRow ==
  ASSUME NEW s, Op(s), s.ok, NEW f \in Family, Reads(s, f), RoomRow(Row(s.ent, f)), NEW forcep \in BOOLEAN
  PROVE  LET t == Maintain(s, VlessCase(s), forcep)
         IN  Op(t) /\ Meta(s, t) /\ Only(s.ent, t.ent, f) /\ Mended(Row(s.ent, f), Row(t.ent, f), forcep, t.ok)
<1> DEFINE r == Row(s.ent, f)
           t == Maintain(s, VlessCase(s), forcep)
           Goal(u) == Op(u) /\ Meta(s, u) /\ Only(s.ent, u.ent, f) /\ Mended(r, Row(u.ent, f), forcep, u.ok)
<1>1. /\ r \in Rows /\ s.va.of = f /\ Vless(s) = <<f, 0>> /\ VlessCase(s) = Kind(r)
      /\ Nums(r) # {} => FindHighestVersion(s) = TopOf(r) /\ Highest(s) = <<f, TopOf(r)>>
  BY Vocabulary
<1>2. Linked(s) = LinkedTo(r) /\ s.ent \in Dir
  BY ArrayIs DEF Reads
<1>3. Only(s.ent, s.ent, f) /\ Meta(s, s)
  BY <1>2, OnlySelf DEF Meta
<1>4. ASSUME OrderRow(r), forcep => ~LooseRow(r) PROVE Goal(s)
  BY <1>1, <1>3, <1>4, MendedSelf
<1> HIDE DEF r
<1>5. CASE Kind(r) = "none"
  <2>1. t = s
    BY <1>1, <1>5 DEF Maintain
  <2>2. OrderRow(r) /\ ~LooseRow(r)
    BY <1>1, <1>5, KindIs DEF OrderRow, LooseRow
  <2>3. QED
    BY <1>4, <2>1, <2>2 DEF r
<1>6. CASE Kind(r) = "onlyVless"
  <2>1. OrderRow(r) /\ LooseRow(r) /\ TopOf(r) = 0 /\ TopOf(r) + 1 = 1
    BY <1>1, <1>6, KindIs, TopIs DEF OrderRow
  <2>2. CASE forcep
    <3>1. t = link(s, <<f, 0>>, <<f, TopOf(r) + 1>>)
      BY <1>1, <1>6, <2>1, <2>2 DEF Maintain
    <3>2. LET u == link(s, <<f, 0>>, <<f, TopOf(r) + 1>>)
          IN  Call(s, u) /\ Only(s.ent, u.ent, f) /\ Mended(r, Row(u.ent, f), forcep, u.ok)
      BY <2>1, MendLoose DEF r
    <3> HIDE DEF t
    <3>3. QED
      BY <3>1, <3>2 DEF r, t, Call
  <2>3. CASE ~forcep
    <3>1. t = s
      BY <1>1, <1>6, <2>3 DEF Maintain
    <3>2. QED
      BY <1>4, <2>1, <2>3, <3>1 DEF r
  <2>4. QED
    BY <2>2, <2>3
<1>7. CASE Kind(r) = "noVless"
  <2>1. r[0] = None /\ Nums(r) # {}
    BY <1>1, <1>7, KindIs
  <2>2. t = link(s, <<f, TopOf(r)>>, <<f, 0>>)
    BY <1>1, <1>7, <2>1 DEF Maintain
  <2>3. LET u == link(s, <<f, TopOf(r)>>, <<f, 0>>)
        IN  Call(s, u) /\ Only(s.ent, u.ent, f) /\ Mended(r, Row(u.ent, f), forcep, u.ok)
    BY <2>1, MendBare DEF r
  <2> HIDE DEF t
  <2>4. QED
    BY <2>2, <2>3 DEF r, t, Call
<1>8. CASE Kind(r) = "loose"
  <2>1. LooseRow(r) /\ Nums(r) # {}
    BY <1>1, <1>8, KindIs
  <2>2. t = link(s, <<f, 0>>, <<f, TopOf(r) + 1>>)
    BY <1>1, <1>8, <2>1 DEF Maintain
  <2>3. LET u == link(s, <<f, 0>>, <<f, TopOf(r) + 1>>)
        IN  Call(s, u) /\ Only(s.ent, u.ent, f) /\ Mended(r, Row(u.ent, f), forcep, u.ok)
    BY <2>1, MendLoose DEF r
  <2> HIDE DEF t
  <2>4. QED
    BY <2>2, <2>3 DEF r, t, Call
<1>9. CASE Kind(r) = "linked"
  <2>1. r[0] # None /\ ~LooseRow(r) /\ Nums(r) # {}
    BY <1>1, <1>9, KindIs
  <2>2. t = Relink(s)
    BY <1>1, <1>9 DEF Maintain
  <2>3. CASE TopOf(r) \in LinkedTo(r)
    <3>1. t = s
      BY <1>1, <1>2, <2>1, <2>2, <2>3 DEF Relink
    <3>2. OrderRow(r)
      BY <2>3 DEF OrderRow, LinkedTo
    <3>3. QED
      BY <1>4, <2>1, <3>1, <3>2 DEF r
  <2>4. CASE TopOf(r) \notin LinkedTo(r)
    <3>1. t = link(unlink(s, <<f, 0>>), <<f, TopOf(r)>>, <<f, 0>>)
      BY <1>1, <1>2, <2>1, <2>2, <2>4 DEF Relink
    <3>2. LET u == link(unlink(s, <<f, 0>>), <<f, TopOf(r)>>, <<f, 0>>)
          IN  Op(u) /\ Meta(s, u) /\ Only(s.ent, u.ent, f) /\ Mended(r, Row(u.ent, f), forcep, u.ok)
      BY <2>1, MendOld DEF r
    <3> HIDE DEF t
    <3>3. QED
      BY <3>1, <3>2 DEF r, t
  <2>5. QED
    BY <2>3, <2>4
<1>10. QED
  BY <1>1, <1>5, <1>6, <1>7, <1>8, <1>9, KindIs

\* maintain_version never changes what Lisp sees, except that a loose version
\* gets its number, and leaves the family in order if it succeeds.
LEMMA MaintainKeeps ==
  ASSUME NEW s, Op(s), RoomIn(s.ent), NEW f \in Family, NEW forcep \in BOOLEAN
  PROVE  Mends(s, maintain_version(s, f, forcep), f, forcep)
<1> DEFINE a == get_version_array(s, f)
           t == Maintain(a, VlessCase(a), forcep)
<1>1. Op(a) /\ Meta(s, a) /\ a.ent = s.ent /\ a.ok = s.ok /\ (s.ok => Reads(a, f))
  BY ArrayRead
<1>2. s.ent \in Dir /\ RoomRow(Row(s.ent, f))
  BY DEF Op, OpRec, RoomIn
<1>3. maintain_version(s, f, forcep) = t
  BY DEF maintain_version
<1> HIDE DEF a
<1>4. Op(t) /\ Meta(a, t) /\ Only(s.ent, t.ent, f) /\ Mended(Row(s.ent, f), Row(t.ent, f), forcep, t.ok) /\ (t.ok => s.ok)
  <2>1. CASE s.ok
    BY <1>1, <1>2, <2>1, MaintainRow
  <2>2. CASE ~s.ok
    <3>1. t = a /\ ~a.ok
      BY <1>1, <2>2 DEF Maintain
    <3>2. Row(s.ent, f) \in Rows
      BY <1>2, RowIs
    <3> HIDE DEF t
    <3>3. QED
      BY <1>1, <1>2, <3>1, <3>2, OnlySelf, MendedSelf DEF Meta
  <2>3. QED
    BY <2>1, <2>2
<1> HIDE DEF t
<1>5. Meta(s, t)
  BY <1>1, <1>4 DEF Meta
<1>6. RoomIn(t.ent)
  BY <1>4, RoomOnly DEF Mended, Kept
<1>7. QED
  BY <1>3, <1>4, <1>5, <1>6 DEF Mends

-----------------------------------------------------------------------------
(* What an operation does for Lisp, between two directories.               *)

FilesOf(e) == [f \in Family |-> ViewRow(Row(e, f))]
LooseOf(e) == {f \in Family : LooseRow(Row(e, f))}
Used(e) == UNION {Range(FilesOf(e)[f]) : f \in Family}

\* The steps of VersionedFiles from e to d, h the file written into.
Added(e, d, h) ==
  \E f \in Family : \E v \in 1 .. MaxVersion :
     /\ v \notin DOMAIN FilesOf(e)[f] /\ h \in Inode /\ h \notin Used(e)
     /\ FilesOf(d) = V!Set(FilesOf(e), f, V!With(FilesOf(e)[f], v, h))
     /\ \/ LooseOf(d) = LooseOf(e) \ {f}
        \/ LooseOf(d) = LooseOf(e) \cup {f} /\ DOMAIN FilesOf(e)[f] = {} /\ v = 1
Overwritten(e, d, h) ==
  \E f \in Family : \E v \in 1 .. MaxVersion :
     /\ v \in DOMAIN FilesOf(e)[f] /\ h = FilesOf(e)[f][v]
     /\ FilesOf(d) = FilesOf(e) /\ LooseOf(d) \in {LooseOf(e), LooseOf(e) \ {f}}
Deleted(e, d, h) ==
  \E f \in Family : \E v \in 1 .. MaxVersion :
     /\ v \in DOMAIN FilesOf(e)[f] /\ h = None
     /\ FilesOf(d) = V!Set(FilesOf(e), f, V!Without(FilesOf(e)[f], v, f \in LooseOf(e)))
     /\ LooseOf(d) = IF v = V!Highest(FilesOf(e)[f]) THEN LooseOf(e) \ {f} ELSE LooseOf(e)
MovedTo(e, d, f, v, g, w) ==
  LET F     == FilesOf(e)
      taken == IF v = V!Highest(F[f]) THEN LooseOf(e) \ {f} ELSE LooseOf(e)
      out   == V!Set(F, f, V!Without(F[f], v, f \in LooseOf(e) \ {g}))
  IN  /\ v \in DOMAIN F[f]
      /\ FilesOf(d) = V!Set(out, g, V!With(out[g], w, F[f][v]))
      /\ LooseOf(d) \in {taken, taken \ {g}, taken \cup {g}}
      /\ g \in LooseOf(d) \ taken => DOMAIN out[g] = {} /\ w = 1
Moved(e, d, h) ==
  h = None /\ \E f \in Family : \E v \in 1 .. MaxVersion : \E g \in Family : \E w \in 1 .. MaxVersion :
     MovedTo(e, d, f, v, g, w)
Quiet(e, d, h) ==
  /\ h = None /\ FilesOf(d) = FilesOf(e)
  /\ \/ LooseOf(d) = LooseOf(e)
     \/ \E f \in LooseOf(e) : LooseOf(d) = LooseOf(e) \ {f}

Effect(e, d, h) ==
  Added(e, d, h) \/ Overwritten(e, d, h) \/ Deleted(e, d, h) \/ Moved(e, d, h) \/ Quiet(e, d, h)

\* One family changes.
LEMMA FilesOnly ==
  ASSUME NEW e, NEW d, NEW f \in Family, Only(e, d, f)
  PROVE  /\ FilesOf(d) = V!Set(FilesOf(e), f, ViewRow(Row(d, f)))
         /\ LooseOf(d) = IF LooseRow(Row(d, f)) THEN LooseOf(e) \cup {f} ELSE LooseOf(e) \ {f}
<1>1. \A g \in Family : g # f => Row(d, g) = Row(e, g)
  BY DEF Only
<1>2. FilesOf(d) = V!Set(FilesOf(e), f, ViewRow(Row(d, f)))
  BY <1>1 DEF FilesOf, V!Set
<1>3. LooseOf(d) = IF LooseRow(Row(d, f)) THEN LooseOf(e) \cup {f} ELSE LooseOf(e) \ {f}
  BY <1>1 DEF LooseOf
<1>4. QED
  BY <1>2, <1>3

LEMMA FilesAre ==
  ASSUME NEW e \in Dir, NEW f \in Family
  PROVE  /\ FilesOf(e)[f] = ViewRow(Row(e, f)) /\ DOMAIN FilesOf(e)[f] = Known(Row(e, f))
         /\ f \in LooseOf(e) <=> LooseRow(Row(e, f))
<1>1. DOMAIN ViewRow(Row(e, f)) = Known(Row(e, f))
  BY RowIs, ViewIs
<1>2. QED
  BY <1>1 DEF FilesOf, LooseOf

LEMMA KeptFiles ==
  ASSUME NEW e \in Dir, NEW d, NEW f \in Family, Only(e, d, f), Kept(Row(e, f), Row(d, f))
  PROVE  FilesOf(d) = FilesOf(e) /\ LooseOf(d) \in {LooseOf(e), LooseOf(e) \ {f}}
<1>1. /\ FilesOf(d) = V!Set(FilesOf(e), f, ViewRow(Row(e, f)))
      /\ LooseOf(d) = IF LooseRow(Row(d, f)) THEN LooseOf(e) \cup {f} ELSE LooseOf(e) \ {f}
  BY FilesOnly DEF Kept
<1>2. V!Set(FilesOf(e), f, ViewRow(Row(e, f))) = FilesOf(e)
  BY DEF V!Set, FilesOf
<1>3. LooseRow(Row(d, f)) => f \in LooseOf(e)
  BY DEF Kept, LooseOf
<1>4. QED
  BY <1>1, <1>2, <1>3

LEMMA QuietKept ==
  ASSUME NEW e \in Dir, NEW d, NEW f \in Family, Only(e, d, f), Kept(Row(e, f), Row(d, f))
  PROVE  Effect(e, d, None)
<1>1. FilesOf(d) = FilesOf(e) /\ LooseOf(d) \in {LooseOf(e), LooseOf(e) \ {f}}
  BY KeptFiles
<1>2. f \notin LooseOf(e) => LooseOf(e) \ {f} = LooseOf(e)
  OBVIOUS
<1>3. Quiet(e, d, None)
  BY <1>1, <1>2 DEF Quiet
<1>4. QED
  BY <1>3 DEF Effect

LEMMA WriteKept ==
  ASSUME NEW e \in Dir, NEW d, NEW f \in Family, Only(e, d, f), Kept(Row(e, f), Row(d, f)),
         RoomRow(Row(e, f)), NEW v \in Known(Row(e, f))
  PROVE  Effect(e, d, ViewRow(Row(e, f))[v])
<1>1. FilesOf(d) = FilesOf(e) /\ LooseOf(d) \in {LooseOf(e), LooseOf(e) \ {f}}
  BY KeptFiles
<1>2. v \in 1 .. MaxVersion
  BY RowIs, ViewIs
<1>3. v \in DOMAIN FilesOf(e)[f] /\ FilesOf(e)[f] = ViewRow(Row(e, f))
  BY FilesAre
<1> DEFINE h == ViewRow(Row(e, f))[v]
<1>4. Overwritten(e, d, h)
  BY <1>1, <1>2, <1>3 DEF Overwritten
<1>5. QED
  BY <1>4 DEF Effect

LEMMA AddedRow ==
  ASSUME NEW e \in Dir, NEW d, NEW f \in Family, Only(e, d, f), NEW v \in 1 .. MaxVersion, NEW i \in Inode,
         v \notin Known(Row(e, f)), i \notin Used(e), ViewRow(Row(d, f)) = V!With(ViewRow(Row(e, f)), v, i),
         LooseRow(Row(d, f)) => Known(Row(e, f)) = {} /\ v = 1
  PROVE  Effect(e, d, i)
<1>1. /\ FilesOf(d) = V!Set(FilesOf(e), f, ViewRow(Row(d, f)))
      /\ LooseOf(d) = IF LooseRow(Row(d, f)) THEN LooseOf(e) \cup {f} ELSE LooseOf(e) \ {f}
  BY FilesOnly
<1>2. FilesOf(e)[f] = ViewRow(Row(e, f)) /\ DOMAIN FilesOf(e)[f] = Known(Row(e, f))
  BY FilesAre
<1>3. Added(e, d, i)
  BY <1>1, <1>2 DEF Added
<1>4. QED
  BY <1>3 DEF Effect

LEMMA DeletedRow ==
  ASSUME NEW e \in Dir, NEW d, NEW f \in Family, Only(e, d, f), NEW v \in Known(Row(e, f)), RoomRow(Row(e, f)),
         ViewRow(Row(d, f)) = V!Without(ViewRow(Row(e, f)), v, LooseRow(Row(e, f))),
         LooseRow(Row(d, f)) <=> LooseRow(Row(e, f)) /\ v # Newest(Row(e, f))
  PROVE  Effect(e, d, None)
<1>1. /\ FilesOf(d) = V!Set(FilesOf(e), f, ViewRow(Row(d, f)))
      /\ LooseOf(d) = IF LooseRow(Row(d, f)) THEN LooseOf(e) \cup {f} ELSE LooseOf(e) \ {f}
  BY FilesOnly
<1>2. /\ FilesOf(e)[f] = ViewRow(Row(e, f)) /\ DOMAIN FilesOf(e)[f] = Known(Row(e, f))
      /\ f \in LooseOf(e) <=> LooseRow(Row(e, f))
  BY FilesAre
<1>3. V!Highest(FilesOf(e)[f]) = Newest(Row(e, f)) /\ v \in 1 .. MaxVersion
  BY <1>2, RowIs, HighestIs, ViewIs DEF Newest
<1>4. (f \in LooseOf(e)) = LooseRow(Row(e, f))
  <2>1. LooseRow(Row(e, f)) \in BOOLEAN
    BY DEF LooseRow
  <2>2. CASE f \in LooseOf(e)
    BY <1>2, <2>1, <2>2
  <2>3. CASE f \notin LooseOf(e)
    BY <1>2, <2>1, <2>3
  <2>4. QED
    BY <2>2, <2>3
<1>5. FilesOf(d) = V!Set(FilesOf(e), f, V!Without(FilesOf(e)[f], v, f \in LooseOf(e)))
  BY <1>1, <1>2, <1>4
<1>6. LooseOf(d) = IF v = V!Highest(FilesOf(e)[f]) THEN LooseOf(e) \ {f} ELSE LooseOf(e)
  BY <1>1, <1>2, <1>3
<1>7. Deleted(e, d, None)
  BY <1>2, <1>3, <1>5, <1>6 DEF Deleted
<1>8. QED
  BY <1>7 DEF Effect

\* The files that no name is of.
LEMMA FreeIs ==
  ASSUME NEW e \in Dir
  PROVE  FreeInodes(e) = Inode \ Used(e)
<1>1. ASSUME NEW i \in Inode PROVE Links(e, i) = 0 <=> i \notin Used(e)
  <2> DEFINE L == {n \in Name : e[n] = i}
  <2>1. IsFiniteSet(L)
    BY Constants, FS_Subset
  <2>2. Links(e, i) = 0 <=> L = {}
    BY <2>1, FS_EmptySet DEF Links
  <2>3. ASSUME i \in Used(e) PROVE L # {}
    <3>1. PICK f \in Family : i \in Range(FilesOf(e)[f])
      BY <2>3 DEF Used
    <3>2. PICK v \in Known(Row(e, f)) : i = ViewRow(Row(e, f))[v]
      BY <3>1, FilesAre DEF Range
    <3>3. Row(e, f) \in Rows
      BY RowIs
    <3>4. PICK w \in Version : Row(e, f)[w] = i
      BY <3>2, <3>3, ViewIs, Constants DEF Nums
    <3>5. <<f, w>> \in L
      BY <3>4, RowIs
    <3>6. QED
      BY <3>5
  <2>4. ASSUME L # {} PROVE i \in Used(e)
    <3>1. PICK n \in Name : e[n] = i
      BY <2>4
    <3>2. PICK f \in Family, v \in Version : n = <<f, v>>
      BY DEF Name
    <3> DEFINE r == Row(e, f)
    <3>3. r \in Rows /\ r[v] = i /\ i # None
      BY <3>1, <3>2, RowIs, Constants
    <3> HIDE DEF r
    <3>4. \E w \in Known(r) : ViewRow(r)[w] = i
      <4>1. CASE v \in Nums(r)
        BY <3>3, <4>1, ViewIs
      <4>2. CASE v \notin Nums(r)
        <5>1. v = 0
          BY <3>3, <4>2, Constants DEF Nums
        <5>2. CASE LooseRow(r)
          BY <3>3, <5>1, <5>2, ViewIs
        <5>3. CASE ~LooseRow(r)
          <6>1. PICK w \in Nums(r) : r[w] = r[0]
            BY <3>3, <5>1, <5>3 DEF LooseRow
          <6>2. QED
            BY <3>3, <5>1, <6>1, ViewIs
        <5>4. QED
          BY <5>2, <5>3
      <4>3. QED
        BY <4>1, <4>2
    <3>5. DOMAIN FilesOf(e)[f] = Known(r) /\ FilesOf(e)[f] = ViewRow(r)
      BY FilesAre DEF r
    <3>6. i \in Range(FilesOf(e)[f])
      BY <3>4, <3>5 DEF Range
    <3>7. QED
      BY <3>6 DEF Used
  <2>5. QED
    BY <2>2, <2>3, <2>4
<1>2. QED
  BY <1>1 DEF FreeInodes

\* A version that goes to another family.
LEMMA MovedAway ==
  ASSUME NEW e \in Dir, NEW d, NEW f \in Family, NEW g \in Family \ {f},
         \A k \in Family \ {f, g} : Row(d, k) = Row(e, k), RoomRow(Row(e, f)),
         NEW u \in Known(Row(e, f)), NEW w \in 1 .. MaxVersion,
         ViewRow(Row(d, f)) = V!Without(ViewRow(Row(e, f)), u, LooseRow(Row(e, f))),
         LooseRow(Row(d, f)) <=> LooseRow(Row(e, f)) /\ u # Newest(Row(e, f)),
         ViewRow(Row(d, g)) = V!With(ViewRow(Row(e, g)), w, ViewRow(Row(e, f))[u]),
         LooseRow(Row(d, g)) => w = 1 /\ (LooseRow(Row(e, g)) \/ Known(Row(e, g)) = {})
  PROVE  Effect(e, d, None)
<1> DEFINE F == FilesOf(e)
           L == LooseOf(e)
           taken == IF u = V!Highest(F[f]) THEN L \ {f} ELSE L
           out == V!Set(F, f, V!Without(F[f], u, f \in L \ {g}))
<1>1. /\ F[f] = ViewRow(Row(e, f)) /\ DOMAIN F[f] = Known(Row(e, f)) /\ (f \in L <=> LooseRow(Row(e, f)))
      /\ F[g] = ViewRow(Row(e, g)) /\ DOMAIN F[g] = Known(Row(e, g)) /\ (g \in L <=> LooseRow(Row(e, g)))
  BY FilesAre
<1>2. V!Highest(F[f]) = Newest(Row(e, f)) /\ u \in 1 .. MaxVersion
  BY <1>1, RowIs, HighestIs, ViewIs DEF Newest
<1>3. (f \in L \ {g}) = LooseRow(Row(e, f))
  <2>1. LooseRow(Row(e, f)) \in BOOLEAN
    BY DEF LooseRow
  <2>2. CASE f \in L
    BY <1>1, <2>1, <2>2
  <2>3. CASE f \notin L
    BY <1>1, <2>1, <2>3
  <2>4. QED
    BY <2>2, <2>3
<1>4. out = [k \in Family |-> IF k = f THEN ViewRow(Row(d, f)) ELSE F[k]]
  BY <1>1, <1>3 DEF V!Set
<1>5. \A k \in Family : k # f /\ k # g => FilesOf(d)[k] = F[k] /\ (k \in LooseOf(d) <=> k \in L)
  BY DEF FilesOf, LooseOf
<1>6. /\ FilesOf(d)[f] = ViewRow(Row(d, f)) /\ FilesOf(d)[g] = ViewRow(Row(d, g))
      /\ f \in LooseOf(d) <=> LooseRow(Row(d, f))
      /\ g \in LooseOf(d) <=> LooseRow(Row(d, g))
      /\ FilesOf(d) = [k \in Family |-> FilesOf(d)[k]] /\ LooseOf(d) \subseteq Family /\ L \subseteq Family
  BY DEF FilesOf, LooseOf
<1> HIDE DEF F, L
<1>7. out[g] = F[g]
  BY <1>4
<1>8. FilesOf(d) = V!Set(out, g, V!With(out[g], w, F[f][u]))
  <2>1. V!Set(out, g, V!With(out[g], w, F[f][u])) = [k \in Family |-> IF k = g THEN V!With(F[g], w, F[f][u]) ELSE out[k]]
    BY <1>7 DEF V!Set
  <2> HIDE DEF out
  <2>2. \A k \in Family : FilesOf(d)[k] = IF k = g THEN V!With(F[g], w, F[f][u]) ELSE out[k]
    BY <1>1, <1>4, <1>5, <1>6
  <2>3. FilesOf(d) = [k \in Family |-> IF k = g THEN V!With(F[g], w, F[f][u]) ELSE out[k]]
    BY <1>6, <2>2
  <2>4. QED
    BY <2>1, <2>3
<1>9. f \in taken <=> f \in LooseOf(d)
  BY <1>1, <1>2, <1>6
<1>10. \A k \in Family : k # f => (k \in taken <=> k \in L)
  OBVIOUS
<1>11. taken \subseteq Family
  BY <1>6
<1> HIDE DEF taken, out
<1>12. LooseOf(d) \in {taken \ {g}, taken \cup {g}}
  <2>1. \A k \in Family : k # g => (k \in LooseOf(d) <=> k \in taken)
    BY <1>5, <1>9, <1>10
  <2>2. QED
    BY <1>6, <1>11, <2>1
<1>13. g \in LooseOf(d) \ taken => DOMAIN out[g] = {} /\ w = 1
  BY <1>1, <1>6, <1>7, <1>10
<1>14. MovedTo(e, d, f, u, g, w)
  BY <1>1, <1>8, <1>12, <1>13 DEF MovedTo, F, L, taken, out
<1>15. Moved(e, d, None)
  BY <1>2, <1>14 DEF Moved
<1>16. QED
  BY <1>15 DEF Effect

\* A version that gets another number.
LEMMA MovedWithin ==
  ASSUME NEW e \in Dir, NEW d, NEW f \in Family, Only(e, d, f), RoomRow(Row(e, f)),
         NEW u \in Known(Row(e, f)), NEW w \in 1 .. MaxVersion, ~LooseRow(Row(d, f)),
         ViewRow(Row(d, f)) = V!With(V!Without(ViewRow(Row(e, f)), u, FALSE), w, ViewRow(Row(e, f))[u])
  PROVE  Effect(e, d, None)
<1> DEFINE F == FilesOf(e)
           L == LooseOf(e)
           taken == IF u = V!Highest(F[f]) THEN L \ {f} ELSE L
           out == V!Set(F, f, V!Without(F[f], u, f \in L \ {f}))
<1>1. F[f] = ViewRow(Row(e, f)) /\ DOMAIN F[f] = Known(Row(e, f)) /\ u \in 1 .. MaxVersion
  BY FilesAre, RowIs, ViewIs
<1>2. FilesOf(d) = V!Set(F, f, ViewRow(Row(d, f))) /\ LooseOf(d) = L \ {f}
  BY FilesOnly
<1>3. (f \in L \ {f}) = FALSE
  OBVIOUS
<1> HIDE DEF F, L
<1>4. out = V!Set(F, f, V!Without(F[f], u, FALSE))
  BY <1>3
<1>5. out[f] = V!Without(F[f], u, FALSE)
  BY <1>4 DEF V!Set
<1>6. V!Set(out, f, V!With(out[f], w, F[f][u])) = V!Set(F, f, V!With(out[f], w, F[f][u]))
  <2> DEFINE x == V!Without(F[f], u, FALSE)
             y == V!With(out[f], w, F[f][u])
  <2>1. out = V!Set(F, f, x)
    BY <1>4
  <2> HIDE DEF out, x, y
  <2>2. V!Set(out, f, y) = V!Set(F, f, y)
    BY <2>1 DEF V!Set
  <2>3. QED
    BY <2>2 DEF y
<1> HIDE DEF out
<1>7. FilesOf(d) = V!Set(out, f, V!With(out[f], w, F[f][u]))
  BY <1>1, <1>2, <1>5, <1>6
<1>8. LooseOf(d) = taken \ {f} /\ f \notin LooseOf(d)
  BY <1>2
<1> HIDE DEF taken
<1>9. MovedTo(e, d, f, u, f, w)
  BY <1>1, <1>7, <1>8 DEF MovedTo, F, L, taken, out
<1>10. Moved(e, d, None)
  BY <1>1, <1>9 DEF Moved
<1>11. QED
  BY <1>10 DEF Effect

-----------------------------------------------------------------------------
(* The entry of a version goes, and a version is put in place.             *)

\* The highest version that the versionless name is a link to.
LEMMA MaxLinked ==
  ASSUME NEW r \in Rows, Kind(r) = "linked"
  PROVE  /\ Max(LinkedTo(r)) \in LinkedTo(r) /\ LinkedTo(r) \subseteq Nums(r) /\ r[0] # None
         /\ OrderRow(r) => Max(LinkedTo(r)) = TopOf(r)
<1>1. r[0] # None /\ ~LooseRow(r) /\ Nums(r) # {}
  BY KindIs
<1>2. LinkedTo(r) # {} /\ LinkedTo(r) \subseteq Nums(r) /\ LinkedTo(r) \in SUBSET (0 .. MaxVersion)
  BY <1>1 DEF LooseRow, LinkedTo, Nums
<1>3. Max(LinkedTo(r)) \in LinkedTo(r)
  BY <1>2, MaxIs, Constants
<1>4. ASSUME OrderRow(r) PROVE Max(LinkedTo(r)) = TopOf(r)
  <2>1. TopOf(r) \in LinkedTo(r)
    BY <1>1, <1>4, OrderIs
  <2>2. \A m \in LinkedTo(r) : m <= TopOf(r)
    BY <1>2, TopIs
  <2>3. QED
    BY <1>2, <2>1, <2>2, MaxOf, Constants
<1>5. QED
  BY <1>1, <1>2, <1>3, <1>4

Slot(r, u) == IF u \in Nums(r) THEN u ELSE 0

\* Unless it is the one the versionless name goes with, the entry of a version
\* can be taken away, and the order stays.
LEMMA DropEntry ==
  ASSUME NEW r \in Rows, RoomRow(r), NEW u \in Known(r), ~(Kind(r) = "linked" /\ u = Max(LinkedTo(r)))
  PROVE  LET t == [r EXCEPT ![Slot(r, u)] = None]
         IN  /\ t \in Rows /\ RoomRow(t) /\ ViewRow(t) = V!Without(ViewRow(r), u, LooseRow(r))
             /\ LooseRow(t) <=> LooseRow(r) /\ u # Newest(r)
             /\ OrderRow(r) => OrderRow(t)
<1> DEFINE t == [r EXCEPT ![Slot(r, u)] = None]
<1>0. LooseRow(r) \in BOOLEAN
  BY DEF LooseRow
<1>1. CASE LooseRow(r) /\ u \notin Nums(r)
  <2>1. u = TopOf(r) + 1 /\ u = Newest(r) /\ LooseRow(r) = TRUE
    BY <1>0, <1>1 DEF Known, Newest
  <2>2. t = [r EXCEPT ![0] = None]
    BY <1>1 DEF Slot
  <2> HIDE DEF t
  <2>3. /\ t \in Rows /\ ~LooseRow(t) /\ Nums(t) = Nums(r)
        /\ ViewRow(t) = V!Without(ViewRow(r), TopOf(r) + 1, TRUE)
    BY <1>1, <2>2, DropLoose
  <2>4. OrderRow(r) => OrderRow(t)
    BY <1>1, <2>3, OrderIs DEF OrderRow
  <2>5. QED
    BY <2>1, <2>3, <2>4 DEF RoomRow, t
<1>2. CASE LooseRow(r) /\ u \in Nums(r)
  <2>1. t = [r EXCEPT ![u] = None] /\ LooseRow(r) = TRUE
    BY <1>0, <1>2 DEF Slot
  <2> HIDE DEF t
  <2>2. t \in Rows /\ LooseRow(t) /\ RoomRow(t) /\ ViewRow(t) = V!Without(ViewRow(r), u, TRUE) /\ u # TopOf(r) + 1
    BY <1>2, <2>1, DropBelow
  <2>3. ~OrderRow(r)
    BY <1>2, OrderIs
  <2>4. QED
    BY <1>2, <2>1, <2>2, <2>3 DEF Newest, t
<1>3. CASE ~LooseRow(r)
  <2>1. u \in Nums(r)
    BY <1>3 DEF Known
  <2>2. t = [r EXCEPT ![u] = None] /\ LooseRow(r) = FALSE
    BY <1>0, <1>3, <2>1 DEF Slot
  <2>3. r[0] = None \/ \E m \in Nums(r) \ {u} : r[m] = r[0]
    <3>1. CASE Kind(r) = "linked"
      BY <3>1, MaxLinked DEF LinkedTo
    <3>2. CASE Kind(r) # "linked"
      BY <1>3, <3>2, KindIs
    <3>3. QED
      BY <3>1, <3>2
  <2> HIDE DEF t
  <2>4. /\ t \in Rows /\ ~LooseRow(t) /\ t[0] = r[0] /\ Nums(t) = Nums(r) \ {u} /\ \A w \in Nums(t) : t[w] = r[w]
        /\ ViewRow(t) = V!Without(ViewRow(r), u, FALSE)
    BY <2>1, <2>2, <2>3, DropVersion
  <2>5. ASSUME OrderRow(r) PROVE OrderRow(t)
    <3>1. r[0] # None /\ TopOf(r) \in Nums(r) /\ r[0] = r[TopOf(r)]
      BY <2>1, <2>5, OrderIs, TopIs DEF OrderRow
    <3>2. Kind(r) = "linked"
      BY <1>3, <3>1, KindIs
    <3>3. u # TopOf(r)
      BY <2>5, <3>2, MaxLinked
    <3>4. TopOf(r) \in Nums(t) /\ \A w \in Nums(t) : w <= TopOf(r)
      BY <2>4, <3>1, <3>3, TopIs
    <3>5. TopOf(t) = TopOf(r)
      BY <3>4, TopAt
    <3>6. QED
      BY <2>4, <3>1, <3>4, <3>5 DEF OrderRow
  <2>6. QED
    BY <1>3, <2>2, <2>4, <2>5 DEF RoomRow, t
<1>4. QED
  BY <1>1, <1>2, <1>3

\* Version w can be put in entry x: nothing is lost but what version w was.
Clear(q, w, x) ==
  /\ x \in Version
  /\ \/ x = w /\ (q[0] = None \/ \E m \in Nums(q) \ {w} : q[m] = q[0])
     \/ x = 0 /\ w = 1 /\ Nums(q) = {}

LEMMA PutEntry ==
  ASSUME NEW q \in Rows, NEW w \in 1 .. MaxVersion, NEW x, Clear(q, w, x), NEW i \in Inode
  PROVE  LET t == [q EXCEPT ![x] = i]
         IN  /\ t \in Rows /\ RoomRow(t) /\ ViewRow(t) = V!With(ViewRow(q), w, i)
             /\ LooseRow(t) => x = 0 /\ w = 1 /\ (LooseRow(q) \/ Known(q) = {})
<1> DEFINE t == [q EXCEPT ![x] = i]
<1>1. CASE x = w /\ (q[0] = None \/ \E m \in Nums(q) \ {w} : q[m] = q[0])
  <2>1. t \in Rows /\ ~LooseRow(t) /\ ViewRow(t) = V!With(ViewRow(q), w, i)
    BY <1>1, PutVersion
  <2>2. QED
    BY <2>1 DEF RoomRow
<1>2. CASE x = 0 /\ w = 1 /\ Nums(q) = {}
  <2>1. t \in Rows /\ RoomRow(t) /\ ViewRow(t) = V!With(ViewRow(q), w, i)
    BY <1>2, PutFirst
  <2>2. LooseRow(q) \/ Known(q) = {}
    BY <1>2 DEF Known
  <2>3. QED
    BY <1>2, <2>1, <2>2
<1>3. QED
  BY <1>1, <1>2 DEF Clear

-----------------------------------------------------------------------------
(* The operations: what each of them leaves behind.                        *)

\* An operation about to run.
Begin(s) ==
  /\ Op(s) /\ s.ok /\ s.hit = None /\ s.room = TRUE /\ s.orders = {} /\ RoomIn(s.ent)

\* One that has run, from directory e, on the families in touched.
Result(e, t, touched) ==
  /\ Op(t)
  /\ t.room =>
       /\ RoomIn(t.ent) /\ Effect(e, t.ent, t.hit) /\ t.orders \subseteq Family
       /\ \A g \in Family : t.ok /\ (g \in t.orders \/ OrderRow(Row(e, g))) => OrderRow(Row(t.ent, g))
       /\ \A g \in Family \ touched : Row(t.ent, g) = Row(e, g)

LEMMA HitSet ==
  ASSUME NEW s, Op(s), NEW h \in Inode
  PROVE  LET t == [s EXCEPT !.hit = h]
         IN  Op(t) /\ t.ent = s.ent /\ t.ok = s.ok /\ t.room = s.room /\ t.orders = s.orders /\ t.hit = h
<1> DEFINE t == [s EXCEPT !.hit = h]
<1>1. /\ t \in OpRec /\ t.ent = s.ent /\ t.va = s.va /\ t.ok = s.ok /\ t.room = s.room
      /\ t.orders = s.orders /\ t.left = s.left /\ t.ticks = s.ticks /\ t.hit = h
  BY DEF Op, OpRec
<1> HIDE DEF t
<1>2. QED
  BY <1>1 DEF Op, t

LEMMA LeftSet ==
  ASSUME NEW s, Op(s), s.left # 0
  PROVE  LET t == [s EXCEPT !.left = s.left - 1]
         IN  Op(t) /\ t.ent = s.ent /\ t.ok = s.ok /\ t.room = s.room /\ t.orders = s.orders /\ t.hit = s.hit
<1> DEFINE t == [s EXCEPT !.left = s.left - 1]
<1>0. s.left \in Nat /\ s.left - 1 \in Nat /\ s.ticks \in Nat /\ s.left <= s.ticks
  BY DEF Op, OpRec
<1>1. /\ t \in OpRec /\ t.ent = s.ent /\ t.va = s.va /\ t.ok = s.ok /\ t.room = s.room
      /\ t.orders = s.orders /\ t.left = s.left - 1 /\ t.ticks = s.ticks /\ t.hit = s.hit
  BY <1>0 DEF Op, OpRec
<1> HIDE DEF t
<1>2. QED
  BY <1>0, <1>1 DEF Op, t

LEMMA OrdersSet ==
  ASSUME NEW s, Op(s), NEW f \in Family
  PROVE  LET t == [s EXCEPT !.orders = {f}]
         IN  Op(t) /\ t.ent = s.ent /\ t.ok = s.ok /\ t.room = s.room /\ t.orders = {f} /\ t.hit = s.hit
<1> DEFINE t == [s EXCEPT !.orders = {f}]
<1>1. /\ t \in OpRec /\ t.ent = s.ent /\ t.va = s.va /\ t.ok = s.ok /\ t.room = s.room
      /\ t.orders = {f} /\ t.left = s.left /\ t.ticks = s.ticks /\ t.hit = s.hit
  BY DEF Op, OpRec
<1> HIDE DEF t
<1>2. QED
  BY <1>1 DEF Op, t

LEMMA RoomSet ==
  ASSUME NEW s, Op(s)
  PROVE  LET t == [s EXCEPT !.room = FALSE]
         IN  Op(t) /\ t.room = FALSE
<1> DEFINE t == [s EXCEPT !.room = FALSE]
<1>1. t \in OpRec /\ t.ent = s.ent /\ t.va = s.va /\ t.left = s.left /\ t.ticks = s.ticks /\ t.room = FALSE
  BY DEF Op, OpRec
<1> HIDE DEF t
<1>2. QED
  BY <1>1 DEF Op, t

\* An operation that has changed one family.
LEMMA ResultOne ==
  ASSUME NEW e, NEW t, NEW f \in Family, NEW touched, f \in touched, Op(t), RoomIn(t.ent), Effect(e, t.ent, t.hit),
         Only(e, t.ent, f), t.orders \subseteq {f},
         t.ok /\ (f \in t.orders \/ OrderRow(Row(e, f))) => OrderRow(Row(t.ent, f))
  PROVE  Result(e, t, touched)
<1>1. ASSUME NEW g \in Family, t.ok, g \in t.orders \/ OrderRow(Row(e, g)) PROVE OrderRow(Row(t.ent, g))
  <2>1. CASE g = f
    BY <1>1, <2>1
  <2>2. CASE g # f
    BY <1>1, <2>2 DEF Only
  <2>3. QED
    BY <2>1, <2>2
<1>2. \A g \in Family \ touched : Row(t.ent, g) = Row(e, g)
  BY DEF Only
<1>3. QED
  BY <1>1, <1>2 DEF Result

\* One that has changed nothing.
LEMMA ResultNone ==
  ASSUME NEW e \in Dir, RoomIn(e), NEW t, Op(t), t.ent = e, t.hit = None, t.orders = {}, NEW touched
  PROVE  Result(e, t, touched)
<1>1. Effect(e, e, None)
  BY DEF Effect, Quiet
<1>2. QED
  BY <1>1 DEF Result

\* open of a file that is there: it may be emptied.
LEMMA OpenOld ==
  ASSUME NEW s, Op(s), s.ok, NEW f \in Family, NEW x \in Version, Row(s.ent, f)[x] # None, NEW access
  PROVE  LET t == open(s, <<f, x>>, access)
         IN  Op(t) /\ t.ent = s.ent /\ t.room = s.room /\ t.orders = s.orders /\ t.hit \in {s.hit, Row(s.ent, f)[x]}
<1> DEFINE i == s.ent[<<f, x>>]
           t == open(s, <<f, x>>, access)
           t1 == [s EXCEPT !.left = s.left - 1]
           t2 == [t1 EXCEPT !.hit = i]
<1>1. s.ent \in Dir
  BY DEF Op, OpRec
<1>2. i = Row(s.ent, f)[x] /\ i \in Inode
  BY <1>1, RowIs DEF Rows
<1>3. CASE s.left = 0
  <2>1. t = Error(s)
    BY <1>3 DEF open
  <2>2. QED
    BY <2>1, Failed DEF Call, Meta
<1>4. CASE s.left # 0 /\ access = "OUTPUT"
  <2>1. t = [s EXCEPT !.left = @ - 1, !.hit = i]
    BY <1>2, <1>4 DEF open
  <2>2. t = t2
    BY <2>1 DEF Op, OpRec
  <2> HIDE DEF i, t
  <2>3. Op(t1) /\ t1.ent = s.ent /\ t1.room = s.room /\ t1.orders = s.orders
    BY <1>4, LeftSet
  <2> HIDE DEF t1
  <2>4. Op(t2) /\ t2.ent = t1.ent /\ t2.room = t1.room /\ t2.orders = t1.orders /\ t2.hit = i
    BY <1>2, <2>3, HitSet
  <2> HIDE DEF t2
  <2>5. QED
    BY <1>2, <2>2, <2>3, <2>4 DEF t
<1>5. CASE s.left # 0 /\ access # "OUTPUT"
  <2>1. t = s
    BY <1>2, <1>5 DEF open
  <2>2. QED
    BY <2>1
<1>6. QED
  BY <1>3, <1>4, <1>5

\* open of a name that is not there: a new file, or nothing.
LEMMA OpenNew ==
  ASSUME NEW s, Op(s), NEW f \in Family, NEW x \in Version, Row(s.ent, f)[x] = None, NEW access,
         FreeInodes(s.ent) # {}
  PROVE  LET t == open(s, <<f, x>>, access)
         IN  /\ Op(t) /\ t.room = s.room /\ t.orders = s.orders /\ (t.ok => s.ok)
             /\ \/ t.ent = s.ent /\ t.hit = s.hit /\ ~t.ok
                \/ /\ t.ok /\ t.hit \in Inode /\ t.hit \notin Used(s.ent)
                   /\ Only(s.ent, t.ent, f) /\ Row(t.ent, f) = [Row(s.ent, f) EXCEPT ![x] = t.hit]
<1> DEFINE i == Min(FreeInodes(s.ent))
           d == [s.ent EXCEPT ![<<f, x>>] = i]
           c == Change(s, d)
           t == open(s, <<f, x>>, access)
<1>1. s.ent \in Dir /\ s.ok \in BOOLEAN
  BY DEF Op, OpRec
<1>2. s.ent[<<f, x>>] = None
  BY <1>1, RowIs
<1>3. i \in Inode /\ i \notin Used(s.ent)
  <2>1. FreeInodes(s.ent) = Inode \ Used(s.ent)
    BY <1>1, FreeIs
  <2>2. Inode \subseteq Nat
    BY FilesAssumption DEF Inode
  <2>3. FreeInodes(s.ent) \in SUBSET Nat
    BY <2>1, <2>2
  <2>4. QED
    BY <2>1, <2>3, MinIs
<1> HIDE DEF i
<1>4. Only(s.ent, d, f) /\ Row(d, f) = [Row(s.ent, f) EXCEPT ![x] = i] /\ d \in Dir
  BY <1>1, <1>3, RowSet DEF Only
<1> HIDE DEF d
<1>5. CASE ~s.ok
  BY <1>5 DEF open
<1>6. CASE s.ok /\ s.left = 0
  <2>1. t = Error(s)
    BY <1>6 DEF open
  <2>2. QED
    BY <2>1, Failed DEF Call, Meta
<1>7. CASE s.ok /\ s.left # 0
  <2>1. t = [c EXCEPT !.hit = i]
    BY <1>2, <1>7 DEF open, i, d
  <2>2. Call(s, c) /\ c.ok /\ c.ent = d
    BY <1>4, <1>7, Changed
  <2> HIDE DEF c, t
  <2>3. Op(t) /\ t.ent = c.ent /\ t.ok = c.ok /\ t.room = c.room /\ t.orders = c.orders /\ t.hit = i
    BY <1>3, <2>1, <2>2, HitSet DEF Call
  <2>4. QED
    BY <1>3, <1>4, <1>7, <2>2, <2>3 DEF Call, Meta, t
<1>8. QED
  BY <1>5, <1>6, <1>7

-----------------------------------------------------------------------------
(* COM_openfile.                                                           *)

\* What a name is recognized as: a version there is, nothing, or a version
\* to be made.
Recognized(n, f, r, recog) ==
  \E w \in Nat :
     \/ w \in Known(r) /\ n = <<f, Slot(r, w)>>
     \/ n = Fail
     \/ /\ recog \in {"NEW", "OLD_NEW"} /\ w \notin Known(r) /\ w # 0
        /\ n = IF Kind(r) = "none" /\ w = 1 THEN <<f, 0>> ELSE <<f, w>>

LEMMA RecognizeIs ==
  ASSUME NEW s, NEW f \in Family, Reads(s, f), NEW v \in Version, NEW recog \in Recog
  PROVE  Recognized(Recognize(s, recog, f, v), f, Row(s.ent, f), recog)
<1> DEFINE r == Row(s.ent, f)
           n == Recognize(s, recog, f, v)
<1>1. r \in Rows /\ v \in Nat
  BY RowIs, Constants DEF Reads
<1>2. Newest(r) \in Nat /\ Oldest(r) \in Nat /\ (Kind(r) # "none" => Newest(r) # 0)
  <2>1. Newest(r) \in Nat /\ (Kind(r) # "none" => Newest(r) # 0)
    BY <1>1, KindIs DEF Newest
  <2>2. CASE Nums(r) = {}
    BY <2>1, <2>2 DEF Oldest
  <2>3. CASE Nums(r) # {}
    <3>1. Nums(r) \in SUBSET Nat
      BY DEF Nums
    <3>2. Min(Nums(r)) \in Nums(r)
      BY <2>3, <3>1, MinIs
    <3>3. QED
      BY <2>1, <2>3, <3>1, <3>2 DEF Oldest
  <2>4. QED
    BY <2>2, <2>3
<1>3. CASE recog = "OLD"
  <2>1. n = get_old(s, f, v)
    BY <1>3 DEF Recognize
  <2> DEFINE w == IF v = Unspec THEN Newest(r) ELSE v
  <2>2. n = IF w \in Known(r) THEN NameOf(f, r, w) ELSE Fail
    BY <2>1, OldIs
  <2>3. w \in Nat
    BY <1>1, <1>2
  <2> HIDE DEF w, n
  <2>4. QED
    BY <2>2, <2>3 DEF Recognized, NameOf, Slot, n
<1>4. CASE recog = "OLDEST"
  <2>1. n = get_oldest(s, f, v)
    BY <1>4 DEF Recognize
  <2> DEFINE w == IF v = Unspec THEN Oldest(r) ELSE v
  <2>2. n = IF w \in Known(r) THEN NameOf(f, r, w) ELSE Fail
    BY <2>1, OldestIs
  <2>3. w \in Nat
    BY <1>1, <1>2
  <2> HIDE DEF w, n
  <2>4. QED
    BY <2>2, <2>3 DEF Recognized, NameOf, Slot, n
<1>5. CASE recog = "NEW"
  <2>1. n = get_new(s, f, v)
    BY <1>5 DEF Recognize
  <2> DEFINE w == IF v = Unspec THEN Newest(r) + 1 ELSE v
  <2>2. n = NewName(f, r, w)
    BY <2>1, NewIs
  <2>3. w \in Nat /\ w # 0
    BY <1>1, <1>2 DEF Unspec
  <2> HIDE DEF w, n
  <2>4. QED
    BY <1>5, <2>2, <2>3 DEF Recognized, NewName, NameOf, Slot, n
<1>6. CASE recog = "OLD_NEW"
  <2>1. n = get_old_new(s, f, v)
    BY <1>6 DEF Recognize
  <2> DEFINE w == IF v # Unspec THEN v ELSE IF Kind(r) = "none" THEN 1 ELSE Newest(r)
  <2>2. n = NewName(f, r, w)
    BY <2>1, OldNewIs
  <2>3. w \in Nat /\ w # 0
    BY <1>1, <1>2 DEF Unspec
  <2> HIDE DEF w, n
  <2>4. QED
    BY <1>6, <2>2, <2>3 DEF Recognized, NewName, NameOf, Slot, n
<1>7. QED
  BY <1>3, <1>4, <1>5, <1>6 DEF Recog

\* The entry of a version holds it.
LEMMA SlotIs ==
  ASSUME NEW r \in Rows, NEW w \in Known(r)
  PROVE  Slot(r, w) \in Version /\ r[Slot(r, w)] # None /\ ViewRow(r)[w] = r[Slot(r, w)] /\ ViewRow(r)[w] \in Inode
<1>1. CASE w \in Nums(r)
  BY <1>1, ViewIs, Constants DEF Slot, Nums, Rows
<1>2. CASE w \notin Nums(r)
  <2>1. LooseRow(r) /\ w = TopOf(r) + 1
    BY <1>2, ViewIs
  <2>2. QED
    BY <1>2, <2>1, ViewIs, Constants DEF Slot, LooseRow, Rows
<1>3. QED
  BY <1>1, <1>2

\* After the open: the family is put in order.
LEMMA OpenedOld ==
  ASSUME NEW s, Begin(s), NEW o, Op(o), o.ent = s.ent, o.room = TRUE, o.orders = {},
         NEW f \in Family, NEW w \in Known(Row(s.ent, f)), o.hit \in {None, ViewRow(Row(s.ent, f))[w]}, NEW touched, f \in touched
  PROVE  Result(s.ent, [maintain_version(o, f, FALSE) EXCEPT !.orders = {f}], touched)
<1> DEFINE m == maintain_version(o, f, FALSE)
           t == [m EXCEPT !.orders = {f}]
<1>1. s.ent \in Dir /\ RoomIn(s.ent) /\ RoomRow(Row(s.ent, f))
  BY DEF Begin, Op, OpRec, RoomIn
<1>2. Mends(o, m, f, FALSE)
  BY <1>1, MaintainKeeps
<1> HIDE DEF m
<1>3. Op(t) /\ t.ent = m.ent /\ t.ok = m.ok /\ t.room = m.room /\ t.orders = {f} /\ t.hit = m.hit
  BY <1>2, OrdersSet DEF Mends
<1> HIDE DEF t
<1>4. /\ RoomIn(t.ent) /\ Only(s.ent, t.ent, f) /\ t.hit = o.hit
      /\ Mended(Row(s.ent, f), Row(t.ent, f), FALSE, t.ok)
  BY <1>2, <1>3 DEF Mends, Meta
<1>5. Kept(Row(s.ent, f), Row(t.ent, f)) /\ (t.ok => OrderRow(Row(t.ent, f)))
  BY <1>4 DEF Mended
<1>6. Effect(s.ent, t.ent, t.hit)
  <2>1. CASE t.hit = None
    BY <1>1, <1>4, <1>5, <2>1, QuietKept
  <2>2. CASE t.hit = ViewRow(Row(s.ent, f))[w]
    BY <1>1, <1>4, <1>5, <2>2, WriteKept
  <2>3. QED
    BY <1>4, <2>1, <2>2
<1>7. Result(s.ent, t, touched)
  BY <1>3, <1>4, <1>5, <1>6, ResultOne
<1>8. QED
  BY <1>7 DEF t, m

\* A version to be made: maintain_version, open, maintain_version.
LEMMA OpenedNew ==
  ASSUME NEW s, Begin(s), FreeInodes(s.ent) # {}, NEW f \in Family, NEW w \in 1 .. MaxVersion, w \notin Known(Row(s.ent, f)),
         NEW x \in Version, x = w \/ (x = 0 /\ w = 1 /\ Kind(Row(s.ent, f)) = "none"), NEW access, NEW touched, f \in touched
  PROVE  LET b == maintain_version(s, f, TRUE)
             o == open(b, <<f, x>>, access)
         IN  Result(s.ent, [maintain_version(o, f, FALSE) EXCEPT !.orders = {f}], touched)
<1> DEFINE e == s.ent
           r == Row(e, f)
           b == maintain_version(s, f, TRUE)
           q == Row(b.ent, f)
           o == open(b, <<f, x>>, access)
           m == maintain_version(o, f, FALSE)
           t == [m EXCEPT !.orders = {f}]
<1>1. e \in Dir /\ RoomIn(e) /\ RoomRow(r) /\ r \in Rows
  BY RowIs DEF Begin, Op, OpRec, RoomIn
<1>2. Mends(s, b, f, TRUE)
  BY <1>1, MaintainKeeps DEF Begin
<1> HIDE DEF b
<1>3. /\ Op(b) /\ b.hit = None /\ b.room = TRUE /\ b.orders = {} /\ Only(e, b.ent, f) /\ RoomIn(b.ent) /\ b.ent \in Dir
      /\ Kept(r, q) /\ (b.ok => OrderRow(q) /\ ~LooseRow(q))
  BY <1>2 DEF Mends, Meta, Begin, Mended, Only
<1>4. Used(b.ent) = Used(e)
  <2>1. FilesOf(b.ent) = FilesOf(e)
    BY <1>1, <1>3, KeptFiles
  <2>2. QED
    BY <2>1 DEF Used
<1>5. FreeInodes(b.ent) # {}
  BY <1>1, <1>3, <1>4, FreeIs
<1>6. q \in Rows /\ Known(q) = Known(r) /\ ViewRow(q) = ViewRow(r) /\ Nums(q) \subseteq Known(q)
  <2>1. q \in Rows /\ ViewRow(q) = ViewRow(r)
    BY <1>3 DEF Kept
  <2>2. QED
    BY <1>1, <2>1, ViewIs
<1> HIDE DEF q
<1>7. ~LooseRow(q) /\ Nums(q) = {} => q[0] = None
  BY DEF LooseRow
<1>8. ASSUME b.ok PROVE Clear(q, w, x) /\ q[x] = None
  <2>1. OrderRow(q) /\ ~LooseRow(q)
    BY <1>3, <1>8
  <2>2. CASE x = w
    <3>1. w \notin Nums(q) /\ q[w] = None
      BY <1>6 DEF Nums
    <3>2. q[0] = None \/ \E k \in Nums(q) \ {w} : q[k] = q[0]
      BY <1>7, <2>1, <3>1, TopIs DEF OrderRow
    <3>3. QED
      BY <2>2, <3>1, <3>2 DEF Clear
  <2>3. CASE x = 0 /\ w = 1 /\ Kind(r) = "none"
    <3>1. Known(r) = {}
      BY <1>1, <2>3, KindIs
    <3>2. Nums(q) = {} /\ q[0] = None
      BY <1>6, <1>7, <2>1, <3>1
    <3>3. QED
      BY <2>3, <3>2 DEF Clear
  <2>4. QED
    BY <2>2, <2>3 DEF r
<1>9. /\ Op(o) /\ o.room = TRUE /\ o.orders = {}
      /\ \/ o.ent = b.ent /\ o.hit = None /\ ~o.ok
         \/ /\ o.ok /\ b.ok /\ o.hit \in Inode /\ o.hit \notin Used(e)
            /\ Only(b.ent, o.ent, f) /\ Row(o.ent, f) = [q EXCEPT ![x] = o.hit]
  <2>1. CASE b.ok
    BY <1>3, <1>4, <1>5, <1>8, <2>1, OpenNew DEF q
  <2>2. CASE ~b.ok
    <3>1. o = b
      BY <2>2 DEF open
    <3>2. QED
      BY <1>3, <2>2, <3>1
  <2>3. QED
    BY <2>1, <2>2
<1> HIDE DEF o
<1>10. /\ RoomIn(o.ent) /\ Only(e, o.ent, f)
  <2>1. CASE o.ent = b.ent
    BY <1>3, <2>1
  <2>2. CASE o.ok /\ o.ent # b.ent
    <3>1. Clear(q, w, x)
      BY <1>8, <1>9, <2>2
    <3>2. RoomRow(Row(o.ent, f))
      BY <1>6, <1>9, <2>2, <3>1, PutEntry
    <3>3. QED
      BY <1>3, <1>9, <2>2, <3>2, RoomOnly, OnlyTwice
  <2>3. QED
    BY <1>9, <2>1, <2>2
<1>11. Mends(o, m, f, FALSE)
  BY <1>9, <1>10, MaintainKeeps
<1> HIDE DEF m
<1>12. Op(t) /\ t.ent = m.ent /\ t.ok = m.ok /\ t.room = m.room /\ t.orders = {f} /\ t.hit = m.hit
  BY <1>11, OrdersSet DEF Mends
<1> HIDE DEF t
<1>13. /\ RoomIn(t.ent) /\ Only(o.ent, t.ent, f) /\ t.hit = o.hit
       /\ Kept(Row(o.ent, f), Row(t.ent, f)) /\ (t.ok => OrderRow(Row(t.ent, f)))
  BY <1>11, <1>12 DEF Mends, Meta, Mended
<1>14. Only(e, t.ent, f)
  BY <1>10, <1>13, OnlyTwice
<1>15. Effect(e, t.ent, t.hit)
  <2>1. CASE o.ok
    <3>1. Clear(q, w, x) /\ o.hit \in Inode /\ o.hit \notin Used(e) /\ Row(o.ent, f) = [q EXCEPT ![x] = o.hit]
      BY <1>8, <1>9, <2>1
    <3> DEFINE p == Row(o.ent, f)
    <3>2. /\ ViewRow(p) = V!With(ViewRow(r), w, o.hit)
          /\ LooseRow(p) => w = 1 /\ (LooseRow(q) \/ Known(q) = {})
      BY <1>6, <3>1, PutEntry
    <3> HIDE DEF p
    <3>3. LooseRow(p) => w = 1 /\ Known(r) = {}
      BY <1>3, <1>6, <1>9, <2>1, <3>2
    <3>4. ViewRow(Row(t.ent, f)) = ViewRow(p) /\ (LooseRow(Row(t.ent, f)) => LooseRow(p))
      BY <1>13 DEF Kept, p
    <3>5. QED
      BY <1>1, <1>13, <1>14, <3>1, <3>2, <3>3, <3>4, AddedRow
  <2>2. CASE ~o.ok
    <3>1. o.ent = b.ent /\ t.hit = None
      BY <1>9, <1>13, <2>2
    <3>2. Kept(r, Row(t.ent, f))
      BY <1>3, <1>13, <3>1, KeptTwice DEF q
    <3>3. QED
      BY <1>1, <1>14, <3>1, <3>2, QuietKept
  <2>3. QED
    BY <2>1, <2>2
<1>16. Result(e, t, touched)
  BY <1>12, <1>13, <1>14, <1>15, ResultOne
<1>17. QED
  BY <1>16 DEF t, m, o, b

LEMMA ArrayBegins ==
  ASSUME NEW s, Begin(s), NEW f \in Family
  PROVE  LET a == get_version_array(s, f)
         IN  Begin(a) /\ a.ent = s.ent /\ Reads(a, f) /\ s.ent \in Dir /\ RoomIn(s.ent)
BY ArrayRead DEF Begin, Meta, Reads

\* Whatever name is recognized, the operation makes one version, writes into
\* one, or changes nothing, and if it succeeds the family is in order.
LEMMA OpenResult ==
  ASSUME NEW s0, Begin(s0), FreeInodes(s0.ent) # {}, NEW f \in Family, NEW v \in Version, NEW recog \in Recog,
         NEW access, NEW touched, f \in touched
  PROVE  Result(s0.ent, openfile(s0, f, v, recog, access), touched)
<1> DEFINE s == get_version_array(s0, f)
           e == s0.ent
           r == Row(e, f)
           n == Recognize(s, recog, f, v)
           create == recog \in {"NEW", "OLD_NEW"} /\ access # "INPUT"
           t == openEntry(s, n, recog, access)
           Opened(o) == [maintain_version(o, f, FALSE) EXCEPT !.orders = {f}]
<1>1. Begin(s) /\ s.ent = e /\ Reads(s, f) /\ e \in Dir /\ RoomIn(e)
  BY ArrayBegins
<1>2. r \in Rows /\ RoomRow(r)
  BY <1>1, RowIs DEF RoomIn
<1>3. Recognized(n, f, r, recog)
  BY <1>1, RecognizeIs
<1>4. openfile(s0, f, v, recog, access) = t
  BY DEF openfile
<1> HIDE DEF s, n
<1>5. Op(s) /\ s.ok /\ s.hit = None /\ s.room = TRUE /\ s.orders = {}
  BY <1>1 DEF Begin
<1>6. Result(e, Error(s), touched)
  <2>1. Op(Error(s)) /\ Error(s).ent = e /\ Error(s).hit = None /\ Error(s).orders = {}
    BY <1>1, <1>5, Failed DEF Call, Meta
  <2>2. QED
    BY <1>1, <2>1, ResultNone
<1>7. PICK w \in Nat :
        \/ w \in Known(r) /\ n = <<f, Slot(r, w)>>
        \/ n = Fail
        \/ /\ recog \in {"NEW", "OLD_NEW"} /\ w \notin Known(r) /\ w # 0
           /\ n = IF Kind(r) = "none" /\ w = 1 THEN <<f, 0>> ELSE <<f, w>>
  BY <1>3 DEF Recognized
<1>8. CASE n = Fail
  <2>1. t = Error(s)
    BY <1>8 DEF openEntry
  <2>2. QED
    BY <1>4, <1>6, <2>1
<1>9. CASE w \in Known(r) /\ n = <<f, Slot(r, w)>>
  <2> DEFINE x == Slot(r, w)
             o == open(s, <<f, x>>, access)
  <2>1. x \in Version /\ r[x] # None /\ ViewRow(r)[w] = r[x]
    BY <1>2, <1>9, SlotIs
  <2> HIDE DEF x
  <2>2. n = <<f, x>> /\ n # Fail /\ InBounds(n) /\ s.ent[n] # None
    BY <1>1, <1>9, <2>1, RowIs, Constants DEF x, Fail, InBounds, Version
  <2>3. Op(o) /\ o.ent = e /\ o.room = TRUE /\ o.orders = {} /\ o.hit \in {None, ViewRow(r)[w]}
    BY <1>1, <1>5, <2>1, OpenOld
  <2>4. CASE create
    <3>1. t = Opened(o)
      <4>1. n[1] = f
        BY <2>2
      <4> HIDE DEF o
      <4>2. t = [maintain_version(open(s, n, access), n[1], FALSE) EXCEPT !.orders = {n[1]}]
        BY <1>5, <2>2, <2>4 DEF openEntry
      <4>3. QED
        BY <2>2, <4>1, <4>2 DEF o
    <3> HIDE DEF o
    <3>2. Result(s.ent, Opened(o), touched)
      BY <1>1, <1>9, <2>3, OpenedOld
    <3>3. QED
      BY <1>1, <1>4, <3>1, <3>2
  <2>5. CASE ~create
    <3>1. t = o
      BY <1>5, <2>2, <2>5 DEF openEntry
    <3> HIDE DEF o
    <3>2. Effect(e, e, o.hit)
      <4>1. Only(e, e, f) /\ Kept(r, r)
        BY <1>1, <1>2, OnlySelf, KeptSelf
      <4>2. CASE o.hit = None
        BY <1>1, <4>1, <4>2, QuietKept
      <4>3. CASE o.hit = ViewRow(r)[w]
        BY <1>1, <1>2, <1>9, <4>1, <4>3, WriteKept
      <4>4. QED
        BY <2>3, <4>2, <4>3
    <3>3. Result(e, o, touched)
      BY <1>1, <2>3, <3>2 DEF Result
    <3>4. QED
      BY <1>4, <3>1, <3>3
  <2>6. QED
    BY <2>4, <2>5
<1>10. CASE /\ recog \in {"NEW", "OLD_NEW"} /\ w \notin Known(r) /\ w # 0
            /\ n = IF Kind(r) = "none" /\ w = 1 THEN <<f, 0>> ELSE <<f, w>>
  <2> DEFINE x == IF Kind(r) = "none" /\ w = 1 THEN 0 ELSE w
             b == maintain_version(s, f, TRUE)
             o == open(b, <<f, x>>, access)
  <2>1. n = <<f, x>> /\ x \in Nat /\ (x = w \/ (x = 0 /\ w = 1 /\ Kind(r) = "none"))
    BY <1>10
  <2> HIDE DEF x
  <2>2. n[1] = f /\ n[2] = x /\ n # Fail
    BY <2>1, Constants DEF Fail
  <2>3. CASE x > MaxVersion
    <3>1. ~InBounds(n)
      BY <2>1, <2>2, <2>3, Constants DEF InBounds
    <3>2. t = [s EXCEPT !.room = FALSE]
      BY <1>5, <2>2, <3>1 DEF openEntry
    <3>3. Op(t) /\ t.room = FALSE
      BY <1>5, <3>2, RoomSet
    <3>4. Result(e, t, touched)
      BY <3>3 DEF Result
    <3>5. QED
      BY <1>4, <3>4
  <2>4. CASE x <= MaxVersion
    <3>1. x \in Version /\ InBounds(n) /\ w \in 1 .. MaxVersion
      BY <1>10, <2>1, <2>2, <2>4, Constants DEF InBounds, Version
    <3>2. s.ent[n] = None
      <4>1. r[x] = None
        <5>1. CASE x = w
          BY <1>2, <1>10, <3>1, <5>1, ViewIs DEF Nums
        <5>2. CASE x = 0 /\ Kind(r) = "none"
          BY <1>2, <5>2, KindIs
        <5>3. QED
          BY <2>1, <5>1, <5>2
      <4>2. QED
        BY <1>1, <2>1, <3>1, <4>1, RowIs
    <3>3. CASE create
      <4>1. t = Opened(o)
        <5>1. t = [maintain_version(open(maintain_version(s, n[1], TRUE), n, access), n[1], FALSE) EXCEPT !.orders = {n[1]}]
          BY <1>5, <2>2, <3>1, <3>2, <3>3 DEF openEntry
        <5>2. QED
          BY <2>1, <2>2, <5>1
      <4>2. Result(s.ent, Opened(o), touched)
        BY <1>1, <1>10, <2>1, <3>1, OpenedNew
      <4> HIDE DEF o
      <4>3. QED
        BY <1>1, <1>4, <4>1, <4>2
    <3>4. CASE ~create
      <4>1. t = Error(s)
        BY <1>5, <2>2, <3>1, <3>2, <3>4 DEF openEntry
      <4>2. QED
        BY <1>4, <1>6, <4>1
    <3>5. QED
      BY <3>3, <3>4
  <2>5. QED
    BY <2>1, <2>3, <2>4, Constants
<1>11. QED
  BY <1>7, <1>8, <1>9, <1>10

-----------------------------------------------------------------------------
(* Reading, and COM_setfileinfo.                                           *)

LEMMA ReadResult ==
  ASSUME NEW s0, Begin(s0), NEW f \in Family, NEW touched
  PROVE  Result(s0.ent, get_version_array(s0, f), touched)
<1>1. /\ Begin(get_version_array(s0, f)) /\ get_version_array(s0, f).ent = s0.ent
      /\ s0.ent \in Dir /\ RoomIn(s0.ent)
  BY ArrayBegins
<1>2. QED
  BY <1>1, ResultNone DEF Begin

\* The newest version, or the one named, is written into, or nothing is.
LEMMA SetResult ==
  ASSUME NEW s0, Begin(s0), NEW f \in Family, NEW v \in Version, NEW touched
  PROVE  Result(s0.ent, setfileinfo(s0, f, v), touched)
<1> DEFINE s == get_version_array(s0, f)
           e == s0.ent
           r == Row(e, f)
           n == get_old(s, f, v)
           t == setfileinfo(s0, f, v)
           w == IF v = Unspec THEN Newest(r) ELSE v
<1>1. Begin(s) /\ s.ent = e /\ Reads(s, f) /\ e \in Dir /\ RoomIn(e)
  BY ArrayBegins
<1>2. r \in Rows /\ RoomRow(r)
  BY <1>1, RowIs DEF RoomIn
<1>3. n = IF w \in Known(r) THEN NameOf(f, r, w) ELSE Fail
  BY <1>1, OldIs
<1>4. t = IF ~s.ok \/ n = Fail \/ s.left = 0 THEN Error(s) ELSE [s EXCEPT !.left = @ - 1, !.hit = s.ent[n]]
  BY DEF setfileinfo
<1> HIDE DEF s, n, t, w
<1>5. Op(s) /\ s.ok /\ s.hit = None /\ s.room = TRUE /\ s.orders = {}
  BY <1>1 DEF Begin
<1>6. CASE n = Fail \/ s.left = 0
  <2>1. t = Error(s)
    BY <1>4, <1>6
  <2>2. Op(t) /\ t.ent = e /\ t.hit = None /\ t.orders = {}
    BY <1>1, <1>5, <2>1, Failed DEF Call, Meta
  <2>3. Result(e, t, touched)
    BY <1>1, <2>2, ResultNone
  <2>4. QED
    BY <2>3 DEF t
<1>7. CASE n # Fail /\ s.left # 0
  <2> DEFINE x == Slot(r, w)
             i == r[x]
             t1 == [s EXCEPT !.left = s.left - 1]
             t2 == [t1 EXCEPT !.hit = i]
  <2>1. w \in Known(r) /\ n = <<f, x>>
    BY <1>3, <1>7 DEF NameOf, Slot
  <2>2. x \in Version /\ i \in Inode /\ i = ViewRow(r)[w]
    BY <1>2, <2>1, SlotIs
  <2> HIDE DEF x
  <2>3. s.ent[n] = i
    BY <1>1, <2>1, <2>2, RowIs
  <2>4. t = [s EXCEPT !.left = @ - 1, !.hit = i]
    BY <1>4, <1>5, <1>7, <2>3
  <2> HIDE DEF i
  <2>5. t = t2
    BY <1>5, <2>4 DEF Op, OpRec
  <2>6. Op(t1) /\ t1.ent = s.ent /\ t1.ok = s.ok /\ t1.room = s.room /\ t1.orders = s.orders
    BY <1>5, <1>7, LeftSet
  <2> HIDE DEF t1
  <2>7. Op(t2) /\ t2.ent = t1.ent /\ t2.room = t1.room /\ t2.orders = t1.orders /\ t2.hit = i
    BY <2>2, <2>6, HitSet
  <2> HIDE DEF t2
  <2>8. Op(t) /\ t.ent = e /\ t.orders = {} /\ t.hit = i
    BY <1>1, <1>5, <2>5, <2>6, <2>7
  <2>9. Effect(e, e, i)
    BY <1>1, <1>2, <2>1, <2>2, OnlySelf, KeptSelf, WriteKept
  <2>10. Result(e, t, touched)
    BY <1>1, <2>8, <2>9 DEF Result
  <2>11. QED
    BY <2>10 DEF t
<1>8. QED
  BY <1>6, <1>7

-----------------------------------------------------------------------------
(* DSK_deletefile.                                                         *)

\* Detaching the versionless name from a version changes nothing for Lisp.
LEMMA Detached ==
  ASSUME NEW s, Op(s), RoomIn(s.ent), NEW f \in Family, Kind(Row(s.ent, f)) = "linked"
  PROVE  LET t == unlink(s, <<f, 0>>)
             r == Row(s.ent, f)
             q == Row(t.ent, f)
         IN  /\ Op(t) /\ Meta(s, t) /\ Only(s.ent, t.ent, f) /\ RoomIn(t.ent) /\ Kept(r, q) /\ ~LooseRow(q) /\ Nums(q) = Nums(r)
             /\ t.ok => s.ok /\ q[0] = None /\ Kind(q) = "noVless"
             /\ ~t.ok => t.ent = s.ent
<1> DEFINE t == unlink(s, <<f, 0>>)
           r == Row(s.ent, f)
           q == [r EXCEPT ![0] = None]
<1>1. s.ent \in Dir /\ r \in Rows /\ RoomRow(r) /\ 0 \in Version
  BY RowIs, Constants DEF Op, OpRec, RoomIn
<1>2. ~LooseRow(r) /\ Nums(r) # {}
  BY <1>1, KindIs
<1>3. Kept(r, q) /\ ~LooseRow(q) /\ Nums(q) = Nums(r) /\ q[0] = None /\ q \in Rows
  BY <1>1, <1>2, DropLink DEF Kept
<1>4. Kind(q) = "noVless"
  BY <1>2, <1>3, KindIs
<1>5. Call(s, t) /\ (t.ok => Only(s.ent, t.ent, f) /\ Row(t.ent, f) = q)
  BY <1>1, Unlinked
<1> HIDE DEF q, t
<1>6. CASE t.ok
  <2>1. RoomIn(t.ent)
    BY <1>3, <1>5, <1>6, RoomOnly DEF Kept
  <2>2. QED
    BY <1>3, <1>4, <1>5, <1>6, <2>1 DEF Call, t
<1>7. CASE ~t.ok
  <2>1. t.ent = s.ent /\ Op(t) /\ Meta(s, t)
    BY <1>5, <1>7 DEF Call
  <2>2. Only(s.ent, s.ent, f) /\ Kept(r, r)
    BY <1>1, OnlySelf, KeptSelf
  <2>3. QED
    BY <1>1, <1>2, <1>7, <2>1, <2>2 DEF t
<1>8. QED
  BY <1>6, <1>7

\* A version that does not go with the versionless name.
LEMMA DeletedEntry ==
  ASSUME NEW s, Begin(s), NEW f \in Family, NEW u \in Known(Row(s.ent, f)),
         ~(Kind(Row(s.ent, f)) = "linked" /\ u = Max(LinkedTo(Row(s.ent, f)))), NEW touched, f \in touched
  PROVE  Result(s.ent, unlink(s, <<f, Slot(Row(s.ent, f), u)>>), touched)
<1> DEFINE e == s.ent
           r == Row(e, f)
           x == Slot(r, u)
           t == unlink(s, <<f, x>>)
           q == [r EXCEPT ![x] = None]
<1>1. e \in Dir /\ r \in Rows /\ RoomRow(r) /\ RoomIn(e) /\ Op(s) /\ s.hit = None /\ s.orders = {}
  BY RowIs DEF Begin, Op, OpRec, RoomIn
<1>2. x \in Version
  BY <1>1, SlotIs
<1>3. /\ q \in Rows /\ RoomRow(q) /\ ViewRow(q) = V!Without(ViewRow(r), u, LooseRow(r))
      /\ LooseRow(q) <=> LooseRow(r) /\ u # Newest(r)
      /\ OrderRow(r) => OrderRow(q)
  BY <1>1, DropEntry
<1> HIDE DEF x
<1>4. Call(s, t) /\ (t.ok => Only(e, t.ent, f) /\ Row(t.ent, f) = q)
  BY <1>1, <1>2, Unlinked
<1> HIDE DEF q, t
<1>5. Op(t) /\ t.hit = None /\ t.orders = {}
  BY <1>1, <1>4 DEF Call, Meta
<1>6. CASE t.ok
  <2>1. RoomIn(t.ent)
    BY <1>1, <1>3, <1>4, <1>6, RoomOnly
  <2>2. Effect(e, t.ent, None)
    BY <1>1, <1>3, <1>4, <1>6, DeletedRow
  <2>3. Result(e, t, touched)
    BY <1>3, <1>4, <1>5, <1>6, <2>1, <2>2, ResultOne
  <2>4. QED
    BY <2>3 DEF t, x
<1>7. CASE ~t.ok
  <2>1. t.ent = e
    BY <1>4, <1>7 DEF Call
  <2>2. Result(e, t, touched)
    BY <1>1, <1>5, <2>1, ResultNone
  <2>3. QED
    BY <2>2 DEF t, x
<1>8. QED
  BY <1>6, <1>7

\* The newest version and its versionless name.
LEMMA DeletedBoth ==
  ASSUME NEW s, Begin(s), NEW f \in Family, Kind(Row(s.ent, f)) = "linked", NEW u \in Nums(Row(s.ent, f)), NEW touched, f \in touched
  PROVE  Result(s.ent, maintain_version(unlink(unlink(s, <<f, 0>>), <<f, u>>), f, FALSE), touched)
<1> DEFINE e == s.ent
           r == Row(e, f)
           p == unlink(s, <<f, 0>>)
           r1 == Row(p.ent, f)
           q == unlink(p, <<f, u>>)
           r2 == [r1 EXCEPT ![u] = None]
           t == maintain_version(q, f, FALSE)
<1>1. /\ e \in Dir /\ r \in Rows /\ RoomRow(r) /\ RoomIn(e) /\ Op(s) /\ s.hit = None /\ s.orders = {} /\ s.room = TRUE
      /\ u \in Version
  BY RowIs, Constants DEF Begin, Op, OpRec, RoomIn, Nums
<1>2. ~LooseRow(r) /\ LooseRow(r) = FALSE
  BY <1>1, KindIs DEF LooseRow
<1>3. /\ Op(p) /\ Meta(s, p) /\ Only(e, p.ent, f) /\ RoomIn(p.ent) /\ Kept(r, r1) /\ ~LooseRow(r1) /\ Nums(r1) = Nums(r)
      /\ p.ok => r1[0] = None
  BY <1>1, Detached
<1> HIDE DEF p
<1>4. r1 \in Rows /\ ViewRow(r1) = ViewRow(r)
  BY <1>3 DEF Kept
<1>5. Call(p, q) /\ (q.ok => Only(p.ent, q.ent, f) /\ Row(q.ent, f) = r2)
  BY <1>1, <1>3, Unlinked
<1>6. q.ok => p.ok
  BY <1>5 DEF Call
<1>7. q.ok => r2 \in Rows /\ ~LooseRow(r2) /\ ViewRow(r2) = V!Without(ViewRow(r), u, FALSE)
  <2> HIDE DEF r1
  <2>1. u \in Nums(r1)
    BY <1>3
  <2>2. r1[0] = None => r2 \in Rows /\ ~LooseRow(r2) /\ ViewRow(r2) = V!Without(ViewRow(r1), u, FALSE)
    BY <1>4, <2>1, DropVersion
  <2> HIDE DEF r2
  <2>3. QED
    BY <1>3, <1>4, <1>6, <2>2
<1> HIDE DEF r2, r1, q
<1>8. Op(q) /\ Meta(s, q) /\ Only(e, q.ent, f) /\ RoomIn(q.ent)
  <2>1. Op(q) /\ Meta(s, q)
    BY <1>3, <1>5 DEF Call, Meta
  <2>2. CASE q.ok
    <3>1. RoomRow(Row(q.ent, f))
      BY <1>5, <1>7, <2>2 DEF RoomRow
    <3>2. RoomIn(q.ent)
      BY <1>3, <1>5, <2>2, <3>1, RoomOnly
    <3>3. QED
      BY <1>3, <1>5, <2>1, <2>2, <3>2, OnlyTwice
  <2>3. CASE ~q.ok
    BY <1>3, <1>5, <2>1, <2>3 DEF Call
  <2>4. QED
    BY <2>2, <2>3
<1>9. Mends(q, t, f, FALSE)
  BY <1>8, MaintainKeeps
<1> HIDE DEF t
<1>10. /\ Op(t) /\ RoomIn(t.ent) /\ t.hit = None /\ t.orders = {} /\ Kept(Row(q.ent, f), Row(t.ent, f))
       /\ Only(q.ent, t.ent, f) /\ (t.ok => OrderRow(Row(t.ent, f)))
  BY <1>1, <1>8, <1>9 DEF Mends, Meta, Mended
<1>11. Only(e, t.ent, f)
  BY <1>8, <1>10, OnlyTwice
<1>12. Effect(e, t.ent, None)
  <2>1. CASE q.ok
    <3>1. ViewRow(Row(t.ent, f)) = V!Without(ViewRow(r), u, LooseRow(r)) /\ ~LooseRow(Row(t.ent, f))
      BY <1>2, <1>5, <1>7, <1>10, <2>1 DEF Kept
    <3>2. u \in Known(r)
      BY DEF Known
    <3>3. QED
      BY <1>1, <1>2, <1>11, <3>1, <3>2, DeletedRow
  <2>2. CASE ~q.ok
    <3>1. q.ent = p.ent
      BY <1>5, <2>2 DEF Call
    <3>2. Kept(r, Row(t.ent, f))
      BY <1>3, <1>10, <3>1, KeptTwice DEF r1
    <3>3. QED
      BY <1>1, <1>11, <3>2, QuietKept
  <2>3. QED
    BY <2>1, <2>2
<1>13. Result(e, t, touched)
  BY <1>10, <1>11, <1>12, ResultOne
<1>14. QED
  BY <1>13 DEF t, q, p

\* One version goes and no other, or nothing changes for Lisp.
LEMMA DeleteResult ==
  ASSUME NEW s0, Begin(s0), NEW f \in Family, NEW v \in Version, NEW touched, f \in touched
  PROVE  Result(s0.ent, deletefile(s0, f, v), touched)
<1> DEFINE s == get_version_array(s0, f)
           e == s0.ent
           r == Row(e, f)
           n == get_oldest(s, f, v)
           k == IF 0 \in s.va.files THEN check_vless_link(s) ELSE "noVless"
           to == <<s.va.of, Max(Linked(s))>>
           t == deletefile(s0, f, v)
           w == IF v = Unspec THEN Oldest(r) ELSE v
<1>1. Begin(s) /\ s.ent = e /\ Reads(s, f) /\ e \in Dir /\ RoomIn(e)
  BY ArrayBegins
<1>2. r \in Rows /\ RoomRow(r)
  BY <1>1, RowIs DEF RoomIn
<1>3. n = IF w \in Known(r) THEN NameOf(f, r, w) ELSE Fail
  BY <1>1, OldestIs
<1>4. t = IF ~s.ok \/ n = Fail \/ k = "error" THEN Error(s)
          ELSE IF k = "linked" /\ n \in {Vless(s), to} THEN maintain_version(UnlinkBoth(s, to), s.va.of, FALSE)
          ELSE unlink(s, n)
  BY DEF deletefile
<1>5. s.va.of = f /\ Vless(s) = <<f, 0>> /\ Linked(s) = LinkedTo(r) /\ (0 \in s.va.files <=> r[0] # None)
  BY <1>1, ArrayIs DEF Reads
<1>6. k # "error" /\ (k = "linked" <=> Kind(r) = "linked")
  <2>1. CASE r[0] = None
    BY <1>2, <1>5, <2>1, KindIs
  <2>2. CASE r[0] # None
    <3>1. k = IF LooseRow(r) THEN "loose" ELSE "linked"
      BY <1>1, <1>5, <2>2, LinkCheck
    <3>2. QED
      BY <1>2, <2>2, <3>1, KindIs
  <2>3. QED
    BY <2>1, <2>2
<1>7. to = <<f, Max(LinkedTo(r))>>
  BY <1>5
<1> HIDE DEF s, n, t, w, k, to
<1>8. Op(s) /\ s.ok /\ s.hit = None /\ s.room = TRUE /\ s.orders = {}
  BY <1>1 DEF Begin
<1>9. CASE n = Fail
  <2>1. t = Error(s)
    BY <1>4, <1>9
  <2>2. Op(t) /\ t.ent = e /\ t.hit = None /\ t.orders = {}
    BY <1>1, <1>8, <2>1, Failed DEF Call, Meta
  <2>3. Result(e, t, touched)
    BY <1>1, <2>2, ResultNone
  <2>4. QED
    BY <2>3 DEF t
<1>10. CASE n # Fail
  <2>1. w \in Known(r) /\ n = <<f, Slot(r, w)>>
    BY <1>3, <1>10 DEF NameOf, Slot
  <2>2. CASE Kind(r) = "linked" /\ w = Max(LinkedTo(r))
    <3>1. w \in Nums(r)
      BY <1>2, <2>2, MaxLinked
    <3>2. n = to /\ to = <<f, w>>
      BY <1>7, <2>1, <2>2, <3>1 DEF Slot
    <3>3. t = maintain_version(UnlinkBoth(s, to), f, FALSE)
      BY <1>4, <1>5, <1>6, <1>8, <1>10, <2>2, <3>2
    <3>4. UnlinkBoth(s, to) = unlink(unlink(s, <<f, 0>>), <<f, w>>)
      BY <1>5, <3>2 DEF UnlinkBoth
    <3>5. Result(s.ent, maintain_version(unlink(unlink(s, <<f, 0>>), <<f, w>>), f, FALSE), touched)
      BY <1>1, <2>2, <3>1, DeletedBoth
    <3>6. Result(e, t, touched)
      BY <1>1, <3>3, <3>4, <3>5
    <3>7. QED
      BY <3>6 DEF t
  <2>3. CASE ~(Kind(r) = "linked" /\ w = Max(LinkedTo(r)))
    <3>1. ~(k = "linked" /\ n \in {Vless(s), to})
      <4>1. SUFFICES ASSUME Kind(r) = "linked" PROVE n \notin {Vless(s), to}
        BY <1>6
      <4>2. w \in Nums(r) /\ 0 \notin Nums(r)
        BY <1>2, <2>1, <4>1, KindIs
      <4>3. n = <<f, w>> /\ w # 0 /\ w # Max(LinkedTo(r))
        BY <2>1, <2>3, <4>1, <4>2 DEF Slot
      <4>4. QED
        BY <1>5, <1>7, <4>3
    <3>2. t = unlink(s, <<f, Slot(r, w)>>)
      BY <1>4, <1>6, <1>8, <1>10, <2>1, <3>1
    <3>3. Result(s.ent, unlink(s, <<f, Slot(r, w)>>), touched)
      BY <1>1, <2>1, <2>3, DeletedEntry
    <3>4. Result(e, t, touched)
      BY <1>1, <3>2, <3>3
    <3>5. QED
      BY <3>4 DEF t
  <2>4. QED
    BY <2>2, <2>3
<1>11. QED
  BY <1>9, <1>10

-----------------------------------------------------------------------------
(* DSK_renamefile, the destination.                                        *)

\* Underway: nothing but the order of g has changed since directory e.
Underway(e, s, g) ==
  /\ Op(s) /\ s.hit = None /\ s.room = TRUE /\ s.orders = {} /\ e \in Dir /\ RoomIn(e)
  /\ Only(e, s.ent, g) /\ RoomIn(s.ent) /\ Kept(Row(e, g), Row(s.ent, g))

\* Version w of g can be put in entry x, without losing the versionless name.
Placed(q, w, x) ==
  \/ x = 0 /\ w = 1 /\ Nums(q) = {}
  \/ x = w /\ q[0] = None
  \/ x = w /\ Nums(q) # {} /\ OrderRow(q) /\ w # TopOf(q)

LEMMA PlacedClear ==
  ASSUME NEW q \in Rows, NEW w \in 1 .. MaxVersion, NEW x \in Version, Placed(q, w, x)
  PROVE  Clear(q, w, x)
<1>1. CASE x = w /\ Nums(q) # {} /\ OrderRow(q) /\ w # TopOf(q)
  <2>1. TopOf(q) \in Nums(q) \ {w} /\ q[TopOf(q)] = q[0]
    BY <1>1, TopIs DEF OrderRow
  <2>2. QED
    BY <1>1, <2>1 DEF Clear
<1>2. QED
  BY <1>1 DEF Placed, Clear

\* A lone versionless file becomes version 1.
LEMMA FirstRenamed ==
  ASSUME NEW s, Op(s), RoomIn(s.ent), NEW g \in Family, Kind(Row(s.ent, g)) = "onlyVless"
  PROVE  LET t == rename(s, <<g, 0>>, <<g, 1>>)
             q == Row(s.ent, g)
             p == Row(t.ent, g)
         IN  /\ Call(s, t) /\ Only(s.ent, t.ent, g) /\ RoomIn(t.ent) /\ Kept(q, p)
             /\ t.ok => p[0] = None
<1> DEFINE t == rename(s, <<g, 0>>, <<g, 1>>)
           q == Row(s.ent, g)
           d1 == [s.ent EXCEPT ![<<g, 1>>] = q[0]]
           d2 == [d1 EXCEPT ![<<g, 0>>] = None]
           p == [[q EXCEPT ![1] = q[0]] EXCEPT ![0] = None]
<1>1. s.ent \in Dir /\ q \in Rows /\ RoomRow(q) /\ 0 \in Version /\ 1 \in Version /\ 1 \in 1 .. MaxVersion
  BY RowIs, Constants DEF Op, OpRec, RoomIn
<1>2. Nums(q) = {} /\ q[0] # None /\ LooseRow(q) /\ q[0] \in Inode /\ q[1] = None
  BY <1>1, KindIs DEF Nums, Rows
<1>3. TopOf(q) + 1 = 1
  BY <1>2, TopIs
<1>4. Kept(q, p) /\ p[0] = None
  BY <1>1, <1>2, <1>3, NumberLoose
<1>5. /\ Call(s, t)
      /\ t.ok => t.ent = d2
  BY <1>1, <1>2, Renamed
<1>6. Only(s.ent, d1, g) /\ Row(d1, g) = [q EXCEPT ![1] = q[0]] /\ d1 \in Dir
  BY <1>1, <1>2, RowSet DEF Only
<1> HIDE DEF d1, q
<1>7. Only(d1, d2, g) /\ Row(d2, g) = p
  <2>1. None \in Inode \cup {None}
    OBVIOUS
  <2>2. Only(d1, d2, g) /\ Row(d2, g) = [Row(d1, g) EXCEPT ![0] = None]
    <3>1. d1 \in Dir /\ 0 \in Version
      BY <1>1, <1>6
    <3> HIDE DEF d2
    <3>2. d2 = [d1 EXCEPT ![<<g, 0>>] = None]
      BY DEF d2
    <3>3. LET d == [d1 EXCEPT ![<<g, 0>>] = None]
          IN  Only(d1, d, g) /\ Row(d, g) = [Row(d1, g) EXCEPT ![0] = None]
      BY <2>1, <3>1, RowSet
    <3>4. QED
      BY <3>2, <3>3
  <2>3. QED
    BY <1>6, <2>2
<1> HIDE DEF d2, p
<1>8. Only(s.ent, d2, g)
  BY <1>6, <1>7, OnlyTwice
<1>9. RoomIn(d2)
  BY <1>4, <1>7, <1>8, RoomOnly DEF Kept
<1> HIDE DEF t
<1>10. CASE t.ok
  BY <1>4, <1>5, <1>7, <1>8, <1>9, <1>10 DEF t, q
<1>11. CASE ~t.ok
  <2>1. t.ent = s.ent
    BY <1>5, <1>11 DEF Call
  <2>2. QED
    BY <1>1, <1>5, <1>11, <2>1, OnlySelf, KeptSelf DEF t, q
<1>12. QED
  BY <1>10, <1>11

\* What the destination is, for a family in order, and the way to it clear.
LEMMA WayClear ==
  ASSUME NEW e, NEW a, NEW g \in Family, Underway(e, a, g), a.ok, Reads(a, g), OrderRow(Row(a.ent, g)), NEW w \in Version
  PROVE  LET b == renameTo(a, g, w).s
             dst == renameTo(a, g, w).dst
         IN  /\ Underway(e, b, g)
             /\ b.ok => \E n \in Nat \ {0}, x \in Nat : dst = <<g, x>> /\ Placed(Row(b.ent, g), n, x)
<1> DEFINE q == Row(a.ent, g)
           dst == get_new(a, g, w)
           k == VlessCase(a)
           b == ClearWay(a, dst, k)
           n == IF w = Unspec THEN Newest(q) + 1 ELSE w
           Goal == /\ Underway(e, b, g)
                   /\ b.ok => \E m \in Nat \ {0}, x \in Nat : dst = <<g, x>> /\ Placed(Row(b.ent, g), m, x)
<1>1. q \in Rows /\ k = Kind(q) /\ a.va.of = g /\ Vless(a) = <<g, 0>> /\ Linked(a) = LinkedTo(q)
  BY Vocabulary, ArrayIs
<1>2. dst = NewName(g, q, n)
  BY NewIs
<1>3. n \in Nat \ {0}
  <2>1. TopOf(q) \in Nat /\ w \in Nat
    BY <1>1, Constants, KindIs
  <2>2. Newest(q) \in Nat
    BY <2>1 DEF Newest
  <2> HIDE DEF q
  <2>3. QED
    BY <2>1, <2>2 DEF Unspec
<1>4. renameTo(a, g, w).s = b /\ renameTo(a, g, w).dst = dst
  BY DEF renameTo
<1>5. Op(a) /\ RoomIn(a.ent) /\ OrderRow(q)
  BY DEF Underway
<1> HIDE DEF q, dst, n, k
<1>6. dst # Fail
  BY <1>2, Constants DEF NewName, NameOf, Fail
<1>7. ASSUME Op(b), Meta(a, b), Only(a.ent, b.ent, g), RoomIn(b.ent), Kept(q, Row(b.ent, g)) PROVE Underway(e, b, g)
  <2> HIDE DEF b
  <2>1. Only(e, b.ent, g)
    BY <1>7, OnlyTwice DEF Underway
  <2>2. Kept(Row(e, g), Row(b.ent, g))
    BY <1>7, KeptTwice DEF Underway, q
  <2>3. QED
    BY <1>7, <2>1, <2>2 DEF Underway, Meta
<1>8. CASE k = "onlyVless" /\ dst # <<g, 0>>
  <2>1. Known(q) = {1} /\ Kind(q) # "none" /\ 1 \notin Nums(q)
    BY <1>1, <1>8, KindIs
  <2>2. dst = <<g, n>>
    BY <1>2, <1>8, <2>1, KindIs DEF NewName, NameOf
  <2>3. b = rename(a, <<g, 0>>, <<g, 1>>)
    BY <1>1, <1>5, <1>6, <1>8 DEF ClearWay
  <2> HIDE DEF b
  <2>4. Call(a, b) /\ Only(a.ent, b.ent, g) /\ RoomIn(b.ent) /\ Kept(q, Row(b.ent, g)) /\ (b.ok => Row(b.ent, g)[0] = None)
    BY <1>1, <1>5, <1>8, <2>3, FirstRenamed DEF q
  <2>5. Underway(e, b, g)
    BY <1>7, <2>4 DEF Call
  <2>6. b.ok => Placed(Row(b.ent, g), n, n)
    BY <2>4 DEF Placed
  <2>7. QED
    BY <1>3, <1>4, <2>2, <2>5, <2>6
<1>9. CASE k = "linked" /\ dst = <<g, Max(LinkedTo(q))>>
  <2>1. Known(q) = Nums(q) /\ Kind(q) # "none"
    BY <1>1, <1>9, KindIs
  <2>2. dst = <<g, n>>
    <3>1. Max(LinkedTo(q)) # 0
      BY <1>1, <1>9, MaxLinked, KindIs
    <3>2. QED
      BY <1>2, <2>1 DEF NewName, NameOf
  <2>3. b = unlink(a, <<g, 0>>)
    BY <1>1, <1>5, <1>6, <1>9 DEF ClearWay
  <2> HIDE DEF b
  <2>4. Op(b) /\ Meta(a, b) /\ Only(a.ent, b.ent, g) /\ RoomIn(b.ent) /\ Kept(q, Row(b.ent, g)) /\ (b.ok => Row(b.ent, g)[0] = None)
    BY <1>1, <1>5, <1>9, <2>3, Detached DEF q
  <2>5. Underway(e, b, g)
    BY <1>7, <2>4
  <2>6. b.ok => Placed(Row(b.ent, g), n, n)
    BY <2>4 DEF Placed
  <2>7. QED
    BY <1>3, <1>4, <2>2, <2>5, <2>6
<1>10. CASE ~(k = "onlyVless" /\ dst # <<g, 0>>) /\ ~(k = "linked" /\ dst = <<g, Max(LinkedTo(q))>>)
  <2>1. b = a
    BY <1>1, <1>6, <1>10 DEF ClearWay
  <2> HIDE DEF b
  <2>2. \E m \in Nat \ {0}, x \in Nat : dst = <<g, x>> /\ Placed(q, m, x)
    <3>1. CASE Kind(q) = "none"
      <4>1. Nums(q) = {} /\ q[0] = None /\ Known(q) = {}
        BY <1>1, <3>1, KindIs
      <4>2. CASE n = 1
        BY <1>2, <3>1, <4>1, <4>2 DEF NewName, Placed
      <4>3. CASE n # 1
        BY <1>2, <1>3, <3>1, <4>1, <4>3 DEF NewName, Placed
      <4>4. QED
        BY <4>2, <4>3
    <3>2. CASE Kind(q) = "onlyVless"
      <4>1. Nums(q) = {} /\ Known(q) = {1} /\ dst = <<g, 0>>
        BY <1>1, <1>10, <3>2, KindIs
      <4>2. QED
        BY <4>1 DEF Placed
    <3>3. CASE Kind(q) = "linked"
      <4>1. Known(q) = Nums(q) /\ Nums(q) # {} /\ Kind(q) # "none"
        BY <1>1, <3>3, KindIs
      <4>2. dst = <<g, n>>
        BY <1>2, <4>1 DEF NewName, NameOf
      <4>3. n # TopOf(q)
        BY <1>1, <1>5, <1>10, <3>3, <4>2, MaxLinked
      <4>4. QED
        BY <1>3, <1>5, <4>1, <4>2, <4>3 DEF Placed
    <3>4. Kind(q) \notin {"noVless", "loose"}
      BY <1>1, <1>5, KindIs, OrderIs
    <3>5. QED
      BY <1>1, <3>1, <3>2, <3>3, <3>4, KindIs
  <2>3. QED
    BY <1>4, <2>1, <2>2 DEF q
<1>11. QED
  BY <1>8, <1>9, <1>10

LEMMA ToReady ==
  ASSUME NEW s, Begin(s), NEW g \in Family, NEW w \in Version
  PROVE  LET to == renameTo(get_version_array(maintain_version(s, g, FALSE), g), g, w)
         IN  /\ Underway(s.ent, to.s, g)
             /\ to.s.ok => \E n \in Nat \ {0}, x \in Nat : to.dst = <<g, x>> /\ Placed(Row(to.s.ent, g), n, x)
<1> DEFINE e == s.ent
           m == maintain_version(s, g, FALSE)
           a == get_version_array(m, g)
<1>1. Mends(s, m, g, FALSE) /\ e \in Dir /\ RoomIn(e)
  BY MaintainKeeps DEF Begin, Op, OpRec
<1> HIDE DEF m
<1>2. Op(a) /\ Meta(m, a) /\ a.ent = m.ent /\ a.ok = m.ok /\ (m.ok => Reads(a, g))
  BY <1>1, ArrayRead DEF Mends
<1> HIDE DEF a
<1>3. Underway(e, a, g)
  BY <1>1, <1>2 DEF Mends, Mended, Meta, Begin, Underway
<1>4. a.ok => Reads(a, g) /\ OrderRow(Row(a.ent, g))
  BY <1>1, <1>2 DEF Mends, Mended
<1>5. CASE a.ok
  BY <1>3, <1>4, <1>5, WayClear DEF a, m
<1>6. CASE ~a.ok
  <2>1. renameTo(a, g, w).s = Error(a)
    BY <1>6 DEF renameTo, ClearWay
  <2>2. Op(Error(a)) /\ Meta(a, Error(a)) /\ Error(a).ent = a.ent /\ ~Error(a).ok
    BY <1>3, Failed DEF Underway, Call
  <2>3. Underway(e, Error(a), g)
    BY <1>3, <2>2 DEF Underway, Meta
  <2>4. QED
    BY <2>1, <2>2, <2>3 DEF a, m
<1>7. QED
  BY <1>5, <1>6

-----------------------------------------------------------------------------
(* DSK_renamefile, the source.                                             *)

\* The version is detached from the versionless name, if it goes with it.
LEMMA Parting ==
  ASSUME NEW s, Op(s), RoomIn(s.ent), NEW f \in Family, NEW u \in Known(Row(s.ent, f)), NEW lnk \in BOOLEAN,
         lnk <=> Kind(Row(s.ent, f)) = "linked" /\ u = Max(LinkedTo(Row(s.ent, f)))
  PROVE  LET p == IF lnk THEN unlink(s, <<f, 0>>) ELSE s
             r == Row(s.ent, f)
             q == Row(p.ent, f)
         IN  /\ Op(p) /\ Meta(s, p) /\ Only(s.ent, p.ent, f) /\ RoomIn(p.ent) /\ Kept(r, q)
             /\ Nums(q) = Nums(r) /\ (LooseRow(q) <=> LooseRow(r))
             /\ p.ok => s.ok /\ ~(Kind(q) = "linked" /\ u = Max(LinkedTo(q)))
             /\ lnk => ~LooseRow(q) /\ (p.ok => q[0] = None)
             /\ ~lnk => p = s
<1> DEFINE p == IF lnk THEN unlink(s, <<f, 0>>) ELSE s
           r == Row(s.ent, f)
<1>1. s.ent \in Dir /\ r \in Rows /\ RoomRow(r)
  BY RowIs DEF Op, OpRec, RoomIn
<1>2. CASE lnk
  <2>1. Kind(r) = "linked" /\ ~LooseRow(r)
    BY <1>1, <1>2, KindIs
  <2>2. p = unlink(s, <<f, 0>>)
    BY <1>2
  <2> HIDE DEF p
  <2>3. /\ Op(p) /\ Meta(s, p) /\ Only(s.ent, p.ent, f) /\ RoomIn(p.ent) /\ Kept(r, Row(p.ent, f)) /\ ~LooseRow(Row(p.ent, f))
        /\ Nums(Row(p.ent, f)) = Nums(r)
        /\ p.ok => s.ok /\ Row(p.ent, f)[0] = None /\ Kind(Row(p.ent, f)) = "noVless"
    BY <2>1, <2>2, Detached
  <2>4. QED
    BY <1>2, <2>1, <2>3 DEF p
<1>3. CASE ~lnk
  <2>1. p = s
    BY <1>3
  <2>2. Only(s.ent, s.ent, f) /\ Kept(r, r)
    BY <1>1, OnlySelf, KeptSelf
  <2>3. QED
    BY <1>3, <2>1, <2>2 DEF Meta
<1>4. QED
  BY <1>2, <1>3

\* rename between two families.
LEMMA Carried ==
  ASSUME NEW s, Op(s), NEW f \in Family, NEW g \in Family \ {f}, NEW y \in Version, NEW x \in Version
  PROVE  LET t == rename(s, <<f, y>>, <<g, x>>)
             z == Row(s.ent, f)[y]
         IN  /\ Call(s, t) /\ (~t.ok => t.ent = s.ent)
             /\ \/ t.ent = s.ent
                \/ /\ t.ok /\ z \in Inode /\ t.ent \in Dir /\ \A k \in Family \ {f, g} : Row(t.ent, k) = Row(s.ent, k)
                   /\ Row(t.ent, f) = [Row(s.ent, f) EXCEPT ![y] = None]
                   /\ Row(t.ent, g) = [Row(s.ent, g) EXCEPT ![x] = z]
<1> DEFINE t == rename(s, <<f, y>>, <<g, x>>)
           z == Row(s.ent, f)[y]
           d1 == [s.ent EXCEPT ![<<g, x>>] = z]
           d2 == [d1 EXCEPT ![<<f, y>>] = None]
<1>1. s.ent \in Dir /\ z \in Inode \cup {None}
  BY RowIs DEF Op, OpRec, Rows
<1>2. /\ Call(s, t) /\ (~t.ok => t.ent = s.ent)
      /\ t.ok /\ z = Row(s.ent, g)[x] => t.ent = s.ent
      /\ t.ok /\ z # Row(s.ent, g)[x] => z # None /\ t.ent = d2
  BY Renamed DEF Call
<1> HIDE DEF z, t
<1>3. Only(s.ent, d1, g) /\ Row(d1, g) = [Row(s.ent, g) EXCEPT ![x] = z] /\ d1 \in Dir
  BY <1>1, RowSet DEF Only
<1> HIDE DEF d1
<1>4. Only(d1, d2, f) /\ Row(d2, f) = [Row(d1, f) EXCEPT ![y] = None]
  <2>1. d1 \in Dir /\ None \in Inode \cup {None}
    BY <1>3
  <2>2. LET d == [d1 EXCEPT ![<<f, y>>] = None]
        IN  Only(d1, d, f) /\ Row(d, f) = [Row(d1, f) EXCEPT ![y] = None]
    BY <2>1, RowSet
  <2>3. QED
    BY <2>2
<1> HIDE DEF d2
<1>5. /\ d2 \in Dir /\ \A k \in Family \ {f, g} : Row(d2, k) = Row(s.ent, k)
      /\ Row(d2, f) = [Row(s.ent, f) EXCEPT ![y] = None]
      /\ Row(d2, g) = [Row(s.ent, g) EXCEPT ![x] = z]
  BY <1>3, <1>4 DEF Only
<1>6. QED
  BY <1>1, <1>2, <1>5 DEF z, t

\* rename within a family.
LEMMA Recounted ==
  ASSUME NEW s, Op(s), NEW f \in Family, NEW y \in Version, NEW x \in Version
  PROVE  LET t == rename(s, <<f, y>>, <<f, x>>)
             q == Row(s.ent, f)
         IN  /\ Call(s, t) /\ (~t.ok => t.ent = s.ent)
             /\ \/ t.ent = s.ent
                \/ /\ t.ok /\ q[y] \in Inode /\ q[y] # q[x] /\ Only(s.ent, t.ent, f)
                   /\ Row(t.ent, f) = [[q EXCEPT ![x] = q[y]] EXCEPT ![y] = None]
<1> DEFINE t == rename(s, <<f, y>>, <<f, x>>)
           q == Row(s.ent, f)
           z == q[y]
           d1 == [s.ent EXCEPT ![<<f, x>>] = z]
           d2 == [d1 EXCEPT ![<<f, y>>] = None]
<1>1. s.ent \in Dir /\ z \in Inode \cup {None}
  BY RowIs DEF Op, OpRec, Rows
<1>2. /\ Call(s, t) /\ (~t.ok => t.ent = s.ent)
      /\ t.ok /\ z = q[x] => t.ent = s.ent
      /\ t.ok /\ z # q[x] => z # None /\ t.ent = d2
  BY Renamed DEF Call
<1> HIDE DEF z, t
<1>3. Only(s.ent, d1, f) /\ Row(d1, f) = [q EXCEPT ![x] = z] /\ d1 \in Dir
  BY <1>1, RowSet DEF Only
<1> HIDE DEF d1, q
<1>4. Only(d1, d2, f) /\ Row(d2, f) = [Row(d1, f) EXCEPT ![y] = None]
  <2>1. d1 \in Dir /\ None \in Inode \cup {None}
    BY <1>3
  <2>2. LET d == [d1 EXCEPT ![<<f, y>>] = None]
        IN  Only(d1, d, f) /\ Row(d, f) = [Row(d1, f) EXCEPT ![y] = None]
    BY <2>1, RowSet
  <2>3. QED
    BY <2>2
<1> HIDE DEF d2
<1>5. Only(s.ent, d2, f) /\ Row(d2, f) = [[q EXCEPT ![x] = z] EXCEPT ![y] = None]
  BY <1>3, <1>4, OnlyTwice
<1>6. QED
  BY <1>1, <1>2, <1>5 DEF z, t, q

\* Two families change, but what Lisp sees of them does not.
LEMMA QuietTwo ==
  ASSUME NEW e \in Dir, NEW d, NEW f \in Family, NEW g \in Family,
         \A k \in Family \ {f, g} : Row(d, k) = Row(e, k),
         Kept(Row(e, f), Row(d, f)), LooseRow(Row(d, f)) <=> LooseRow(Row(e, f)), Kept(Row(e, g), Row(d, g))
  PROVE  Effect(e, d, None)
<1>1. \A k \in Family : ViewRow(Row(d, k)) = ViewRow(Row(e, k))
  BY DEF Kept
<1>2. \A k \in Family : k # g => (LooseRow(Row(d, k)) <=> LooseRow(Row(e, k)))
  OBVIOUS
<1>3. LooseRow(Row(d, g)) => LooseRow(Row(e, g))
  BY DEF Kept
<1>4. FilesOf(d) = FilesOf(e)
  BY <1>1 DEF FilesOf
<1>5. LooseOf(d) = LooseOf(e) \/ (g \in LooseOf(e) /\ LooseOf(d) = LooseOf(e) \ {g})
  BY <1>2, <1>3 DEF LooseOf
<1>6. Quiet(e, d, None)
  BY <1>4, <1>5 DEF Quiet
<1>7. QED
  BY <1>6 DEF Effect

\* What the rename between two families leaves: the version out of one and in
\* place in the other, or all as it was.
LEMMA MovedRows ==
  ASSUME NEW s, Op(s), RoomIn(s.ent), NEW f \in Family, NEW g \in Family \ {f},
         NEW u \in Known(Row(s.ent, f)), s.ok => ~(Kind(Row(s.ent, f)) = "linked" /\ u = Max(LinkedTo(Row(s.ent, f)))),
         NEW w \in 1 .. MaxVersion, NEW x \in Version, Placed(Row(s.ent, g), w, x)
  PROVE  LET t == rename(s, <<f, Slot(Row(s.ent, f), u)>>, <<g, x>>)
             r == Row(s.ent, f)
             q == Row(s.ent, g)
         IN  /\ Call(s, t) /\ RoomIn(t.ent) /\ t.ent \in Dir
             /\ \/ t.ent = s.ent
                \/ /\ \A k \in Family \ {f, g} : Row(t.ent, k) = Row(s.ent, k)
                   /\ ViewRow(Row(t.ent, f)) = V!Without(ViewRow(r), u, LooseRow(r))
                   /\ LooseRow(Row(t.ent, f)) <=> LooseRow(r) /\ u # Newest(r)
                   /\ OrderRow(r) => OrderRow(Row(t.ent, f))
                   /\ ViewRow(Row(t.ent, g)) = V!With(ViewRow(q), w, ViewRow(r)[u])
                   /\ LooseRow(Row(t.ent, g)) => w = 1 /\ (LooseRow(q) \/ Known(q) = {})
<1> DEFINE r == Row(s.ent, f)
           q == Row(s.ent, g)
           y == Slot(r, u)
           z == r[y]
           t == rename(s, <<f, y>>, <<g, x>>)
           r1 == [r EXCEPT ![y] = None]
           q1 == [q EXCEPT ![x] = z]
<1>1. s.ent \in Dir /\ r \in Rows /\ q \in Rows /\ RoomRow(r)
  BY RowIs DEF Op, OpRec, RoomIn
<1>2. y \in Version /\ ViewRow(r)[u] = z /\ z \in Inode
  BY <1>1, SlotIs
<1>3. Clear(q, w, x)
  BY <1>1, PlacedClear
<1>4. s.ok => /\ r1 \in Rows /\ RoomRow(r1) /\ ViewRow(r1) = V!Without(ViewRow(r), u, LooseRow(r))
              /\ LooseRow(r1) <=> LooseRow(r) /\ u # Newest(r)
              /\ OrderRow(r) => OrderRow(r1)
  BY <1>1, DropEntry
<1> HIDE DEF y, r
<1>5. /\ q1 \in Rows /\ RoomRow(q1) /\ ViewRow(q1) = V!With(ViewRow(q), w, z)
      /\ LooseRow(q1) => w = 1 /\ (LooseRow(q) \/ Known(q) = {})
  <2> HIDE DEF q, z
  <2>1. QED
    BY <1>1, <1>2, <1>3, PutEntry
<1>6. /\ Call(s, t) /\ (~t.ok => t.ent = s.ent)
      /\ \/ t.ent = s.ent
         \/ /\ t.ok /\ t.ent \in Dir /\ \A k \in Family \ {f, g} : Row(t.ent, k) = Row(s.ent, k)
            /\ Row(t.ent, f) = r1 /\ Row(t.ent, g) = q1
  <2>1. LET c == rename(s, <<f, y>>, <<g, x>>)
            i == Row(s.ent, f)[y]
        IN  /\ Call(s, c) /\ (~c.ok => c.ent = s.ent)
            /\ \/ c.ent = s.ent
               \/ /\ c.ok /\ i \in Inode /\ c.ent \in Dir /\ \A k \in Family \ {f, g} : Row(c.ent, k) = Row(s.ent, k)
                  /\ Row(c.ent, f) = [Row(s.ent, f) EXCEPT ![y] = None]
                  /\ Row(c.ent, g) = [Row(s.ent, g) EXCEPT ![x] = i]
    BY <1>2, Carried
  <2>2. z = Row(s.ent, f)[y] /\ r1 = [Row(s.ent, f) EXCEPT ![y] = None] /\ q1 = [Row(s.ent, g) EXCEPT ![x] = z]
    BY DEF r
  <2> HIDE DEF z, r1, q1, q
  <2>3. QED
    BY <2>1, <2>2
<1> HIDE DEF q, z, t, r1, q1
<1>7. CASE t.ent = s.ent
  BY <1>1, <1>6, <1>7 DEF t, y, r
<1>8. CASE t.ok /\ t.ent # s.ent
  <2>1. s.ok
    BY <1>6, <1>8 DEF Call
  <2>2. /\ t.ent \in Dir /\ \A k \in Family \ {f, g} : Row(t.ent, k) = Row(s.ent, k)
        /\ Row(t.ent, f) = r1 /\ Row(t.ent, g) = q1
    BY <1>6, <1>8
  <2>3. RoomIn(t.ent)
    BY <1>4, <1>5, <2>1, <2>2 DEF RoomIn
  <2>4. QED
    BY <1>2, <1>4, <1>5, <1>6, <2>1, <2>2, <2>3 DEF t, y, r, q
<1>9. QED
  BY <1>6, <1>7, <1>8

\* After the rename both families are put in order, f only if it was detached.
PutInOrder(m, f, g, lnk) ==
  LET o == maintain_version(m, g, FALSE)
  IN  [IF lnk THEN maintain_version(o, f, FALSE) ELSE o EXCEPT !.orders = {g}]

LEMMA OrderedTwice ==
  ASSUME NEW m, Op(m), RoomIn(m.ent), NEW f \in Family, NEW g \in Family, NEW lnk \in BOOLEAN
  PROVE  LET t == PutInOrder(m, f, g, lnk)
         IN  /\ Op(t) /\ t.hit = m.hit /\ t.room = m.room /\ t.orders = {g} /\ RoomIn(t.ent) /\ t.ent \in Dir
             /\ t.ok => m.ok
             /\ \A k \in Family \ {f, g} : Row(t.ent, k) = Row(m.ent, k)
             /\ Kept(Row(m.ent, f), Row(t.ent, f)) /\ Kept(Row(m.ent, g), Row(t.ent, g))
             /\ f # g /\ ~lnk => Row(t.ent, f) = Row(m.ent, f)
             /\ t.ok => OrderRow(Row(t.ent, g)) /\ (lnk => OrderRow(Row(t.ent, f)))
<1> DEFINE o == maintain_version(m, g, FALSE)
           p == IF lnk THEN maintain_version(o, f, FALSE) ELSE o
           t == PutInOrder(m, f, g, lnk)
<1>0. t = [p EXCEPT !.orders = {g}]
  BY DEF PutInOrder
<1>1. Mends(m, o, g, FALSE)
  BY MaintainKeeps
<1> HIDE DEF o
<1>2. Op(o) /\ RoomIn(o.ent) /\ o.ent \in Dir /\ Only(m.ent, o.ent, g) /\ Meta(m, o) /\ (o.ok => m.ok)
      /\ Kept(Row(m.ent, g), Row(o.ent, g)) /\ (o.ok => OrderRow(Row(o.ent, g)))
  BY <1>1 DEF Mends, Mended, Op, OpRec
<1>3. \A k \in Family : RoomRow(Row(o.ent, k)) /\ Row(o.ent, k) \in Rows /\ RoomRow(Row(m.ent, k)) /\ Row(m.ent, k) \in Rows
  BY <1>2, RowIs DEF RoomIn, Op, OpRec
<1>4. \A k \in Family : Kept(Row(m.ent, k), Row(o.ent, k))
  BY <1>2, <1>3, KeptSelf DEF Only
<1>5. /\ Op(p) /\ RoomIn(p.ent) /\ p.ent \in Dir /\ Only(o.ent, p.ent, f) /\ Meta(o, p) /\ (p.ok => o.ok)
      /\ Kept(Row(o.ent, f), Row(p.ent, f)) /\ (lnk /\ p.ok => OrderRow(Row(p.ent, f))) /\ (~lnk => p = o)
  <2>1. CASE lnk
    <3>1. Mends(o, p, f, FALSE)
      BY <1>2, <2>1, MaintainKeeps
    <3> HIDE DEF p
    <3>2. QED
      BY <2>1, <3>1 DEF Mends, Mended, Op, OpRec
  <2>2. CASE ~lnk
    <3>1. p = o
      BY <2>2
    <3>2. Only(o.ent, o.ent, f) /\ Meta(o, o)
      BY <1>2, OnlySelf DEF Meta
    <3>3. QED
      BY <1>2, <1>3, <2>2, <3>1, <3>2, KeptSelf
  <2>3. QED
    BY <2>1, <2>2
<1> HIDE DEF p, t
<1>6. \A k \in Family : Kept(Row(o.ent, k), Row(p.ent, k))
  BY <1>3, <1>5, KeptSelf DEF Only
<1>7. \A k \in Family : Kept(Row(m.ent, k), Row(p.ent, k))
  BY <1>4, <1>6, KeptTwice
<1>8. p.ok => OrderRow(Row(p.ent, g))
  <2>1. CASE f = g
    BY <1>2, <1>5, <2>1
  <2>2. CASE f # g
    BY <1>2, <1>5, <2>2 DEF Only
  <2>3. QED
    BY <2>1, <2>2
<1>9. \A k \in Family \ {f, g} : Row(p.ent, k) = Row(m.ent, k)
  BY <1>2, <1>5 DEF Only
<1>10. f # g /\ ~lnk => Row(p.ent, f) = Row(m.ent, f)
  BY <1>2, <1>5 DEF Only
<1>11. Op(t) /\ t.ent = p.ent /\ t.ok = p.ok /\ t.room = p.room /\ t.orders = {g} /\ t.hit = p.hit
  BY <1>0, <1>5, OrdersSet
<1> HIDE DEF t
<1>12. t.hit = m.hit /\ t.room = m.room /\ RoomIn(t.ent) /\ t.ent \in Dir /\ (t.ok => m.ok)
  BY <1>2, <1>5, <1>11 DEF Meta
<1>13. QED
  BY <1>5, <1>7, <1>8, <1>9, <1>10, <1>11, <1>12 DEF t, p, o

\* A rename into another family moves the one version, or none.
LEMMA AwayResult ==
  ASSUME NEW e, NEW s, NEW f \in Family, NEW g \in Family \ {f}, Underway(e, s, g), s.ok,
         NEW w \in 1 .. MaxVersion, NEW x \in Version, Placed(Row(s.ent, g), w, x), NEW u \in Known(Row(s.ent, f)), NEW lnk \in BOOLEAN,
         lnk <=> Kind(Row(s.ent, f)) = "linked" /\ u = Max(LinkedTo(Row(s.ent, f))), NEW touched, {f, g} \subseteq touched
  PROVE  LET p == IF lnk THEN unlink(s, <<f, 0>>) ELSE s
             m == rename(p, <<f, Slot(Row(s.ent, f), u)>>, <<g, x>>)
         IN  Result(e, PutInOrder(m, f, g, lnk), touched)
<1> DEFINE p == IF lnk THEN unlink(s, <<f, 0>>) ELSE s
           r == Row(s.ent, f)
           m == rename(p, <<f, Slot(r, u)>>, <<g, x>>)
           t == PutInOrder(m, f, g, lnk)
           r1 == Row(p.ent, f)
           q == Row(p.ent, g)
           r2 == Row(m.ent, f)
           q2 == Row(m.ent, g)
           r3 == Row(t.ent, f)
           q3 == Row(t.ent, g)
           q0 == Row(e, g)
           Done1 == Effect(e, t.ent, None) /\ (t.ok /\ OrderRow(r) => OrderRow(r3))
<1>1. /\ Op(s) /\ s.hit = None /\ s.room = TRUE /\ s.orders = {} /\ e \in Dir /\ RoomIn(e)
      /\ Only(e, s.ent, g) /\ RoomIn(s.ent) /\ Kept(q0, Row(s.ent, g)) /\ s.ent \in Dir
  BY DEF Underway, Only
<1>2. r = Row(e, f) /\ r \in Rows /\ RoomRow(r)
  BY <1>1, RowIs DEF Only, RoomIn
<1>3. /\ Op(p) /\ Meta(s, p) /\ Only(s.ent, p.ent, f) /\ RoomIn(p.ent) /\ Kept(r, r1)
      /\ Nums(r1) = Nums(r) /\ (LooseRow(r1) <=> LooseRow(r))
      /\ p.ok => s.ok /\ ~(Kind(r1) = "linked" /\ u = Max(LinkedTo(r1)))
      /\ lnk => ~LooseRow(r1) /\ (p.ok => r1[0] = None)
      /\ ~lnk => p = s
  BY <1>1, Parting
<1> HIDE DEF p
<1>4. q = Row(s.ent, g)
  BY <1>3 DEF Only
<1>5. r1 \in Rows /\ ViewRow(r1) = ViewRow(r) /\ Known(r1) = Known(r) /\ Slot(r1, u) = Slot(r, u) /\ Newest(r1) = Newest(r)
      /\ LooseRow(r1) = LooseRow(r)
  <2>1. r1 \in Rows /\ ViewRow(r1) = ViewRow(r)
    BY <1>3 DEF Kept
  <2>2. Known(r1) = Known(r)
    BY <1>2, <2>1, ViewIs
  <2>3. TopOf(r1) = TopOf(r)
    BY <1>3, TopSame
  <2>4. LooseRow(r1) = LooseRow(r)
    <3>1. LooseRow(r1) \in BOOLEAN /\ LooseRow(r) \in BOOLEAN
      BY DEF LooseRow
    <3>2. CASE LooseRow(r)
      BY <1>3, <3>1, <3>2
    <3>3. CASE ~LooseRow(r)
      BY <1>3, <3>1, <3>3
    <3>4. QED
      BY <3>2, <3>3
  <2>5. QED
    BY <1>3, <2>1, <2>2, <2>3, <2>4 DEF Slot, Newest
<1>6. /\ Call(p, m) /\ RoomIn(m.ent) /\ m.ent \in Dir
      /\ \/ m.ent = p.ent
         \/ /\ \A k \in Family \ {f, g} : Row(m.ent, k) = Row(p.ent, k)
            /\ ViewRow(r2) = V!Without(ViewRow(r1), u, LooseRow(r1))
            /\ LooseRow(r2) <=> LooseRow(r1) /\ u # Newest(r1)
            /\ OrderRow(r1) => OrderRow(r2)
            /\ ViewRow(q2) = V!With(ViewRow(q), w, ViewRow(r1)[u])
            /\ LooseRow(q2) => w = 1 /\ (LooseRow(q) \/ Known(q) = {})
  <2>1. u \in Known(r1) /\ Placed(q, w, x) /\ (p.ok => ~(Kind(r1) = "linked" /\ u = Max(LinkedTo(r1))))
    BY <1>3, <1>4, <1>5
  <2>2. LET c == rename(p, <<f, Slot(r1, u)>>, <<g, x>>)
        IN  /\ Call(p, c) /\ RoomIn(c.ent) /\ c.ent \in Dir
            /\ \/ c.ent = p.ent
               \/ /\ \A k \in Family \ {f, g} : Row(c.ent, k) = Row(p.ent, k)
                  /\ ViewRow(Row(c.ent, f)) = V!Without(ViewRow(r1), u, LooseRow(r1))
                  /\ LooseRow(Row(c.ent, f)) <=> LooseRow(r1) /\ u # Newest(r1)
                  /\ OrderRow(r1) => OrderRow(Row(c.ent, f))
                  /\ ViewRow(Row(c.ent, g)) = V!With(ViewRow(q), w, ViewRow(r1)[u])
                  /\ LooseRow(Row(c.ent, g)) => w = 1 /\ (LooseRow(q) \/ Known(q) = {})
    BY <1>3, <2>1, MovedRows
  <2>3. rename(p, <<f, Slot(r1, u)>>, <<g, x>>) = m
    BY <1>5
  <2> HIDE DEF m
  <2>4. QED
    BY <2>2, <2>3
<1> HIDE DEF m
<1>7. Op(m) /\ m.hit = None /\ m.room = TRUE /\ (m.ok => p.ok)
  BY <1>1, <1>3, <1>6 DEF Call, Meta
<1>8. /\ Op(t) /\ t.hit = m.hit /\ t.room = m.room /\ t.orders = {g} /\ RoomIn(t.ent) /\ t.ent \in Dir
      /\ t.ok => m.ok
      /\ \A k \in Family \ {f, g} : Row(t.ent, k) = Row(m.ent, k)
      /\ Kept(r2, r3) /\ Kept(q2, q3)
      /\ ~lnk => r3 = r2
      /\ t.ok => OrderRow(q3) /\ (lnk => OrderRow(r3))
  <2>1. f # g /\ Op(m) /\ RoomIn(m.ent)
    BY <1>6, <1>7
  <2> HIDE DEF t, Done1
  <2>2. QED
    BY <2>1, OrderedTwice DEF t
<1> HIDE DEF t
<1>9. \A k \in Family \ {f, g} : Row(t.ent, k) = Row(e, k)
  <2>1. \A k \in Family \ {f, g} : Row(p.ent, k) = Row(e, k)
    BY <1>1, <1>3 DEF Only
  <2>2. QED
    BY <1>6, <1>8, <2>1
<1> HIDE DEF r, r1, q, r2, q2, r3, q3, q0
<1>10. ASSUME m.ent = p.ent PROVE Done1
  <2>1. r2 = r1 /\ q2 = q
    BY <1>10 DEF r1, r2, q, q2
  <2>2. Kept(r, r3) /\ Kept(q0, q3)
    BY <1>1, <1>3, <1>4, <1>8, <2>1, KeptTwice
  <2>3. LooseRow(r3) <=> LooseRow(r)
    BY <1>3, <1>8, <2>1 DEF Kept
  <2>4. Effect(e, t.ent, None)
    BY <1>1, <1>2, <1>9, <2>2, <2>3, QuietTwo DEF r3, q3, q0
  <2>5. t.ok /\ OrderRow(r) => OrderRow(r3)
    <3>1. ~lnk => r3 = r
      BY <1>3, <1>8, <2>1 DEF r, r1
    <3>2. QED
      BY <1>8, <3>1
  <2>6. QED
    BY <2>4, <2>5
<1>11. ASSUME /\ \A k \in Family \ {f, g} : Row(m.ent, k) = Row(p.ent, k)
              /\ ViewRow(r2) = V!Without(ViewRow(r1), u, LooseRow(r1))
              /\ LooseRow(r2) <=> LooseRow(r1) /\ u # Newest(r1)
              /\ OrderRow(r1) => OrderRow(r2)
              /\ ViewRow(q2) = V!With(ViewRow(q), w, ViewRow(r1)[u])
              /\ LooseRow(q2) => w = 1 /\ (LooseRow(q) \/ Known(q) = {})
       PROVE  Done1
  <2>1. ViewRow(r3) = V!Without(ViewRow(r), u, LooseRow(r))
    BY <1>5, <1>8, <1>11 DEF Kept
  <2>2. LooseRow(r3) <=> LooseRow(r) /\ u # Newest(r)
    BY <1>3, <1>5, <1>8, <1>11 DEF Kept
  <2>3. ViewRow(q) = ViewRow(q0) /\ Known(q) = Known(q0) /\ (LooseRow(q) => LooseRow(q0))
    <3>1. Kept(q0, q) /\ q0 \in Rows
      BY <1>1, <1>4, RowIs DEF q0
    <3>2. q \in Rows /\ ViewRow(q) = ViewRow(q0) /\ (LooseRow(q) => LooseRow(q0))
      BY <3>1 DEF Kept
    <3>3. QED
      BY <3>1, <3>2, ViewIs
  <2>4. ViewRow(q3) = V!With(ViewRow(q0), w, ViewRow(r)[u])
    BY <1>5, <1>8, <1>11, <2>3 DEF Kept
  <2>5. LooseRow(q3) => w = 1 /\ (LooseRow(q0) \/ Known(q0) = {})
    BY <1>8, <1>11, <2>3 DEF Kept
  <2>6. Effect(e, t.ent, None)
    <3>1. r = Row(e, f) /\ u \in Known(r)
      BY <1>2 DEF r
    <3>2. QED
      BY <1>1, <1>2, <1>9, <2>1, <2>2, <2>4, <2>5, <3>1, MovedAway DEF r3, q3, q0
  <2>7. t.ok /\ OrderRow(r) => OrderRow(r3)
    <3>1. ~lnk => r1 = r
      BY <1>3 DEF r, r1
    <3>2. QED
      BY <1>8, <1>11, <3>1
  <2>8. QED
    BY <2>6, <2>7
<1>12. Done1
  BY <1>6, <1>10, <1>11
<1>13. ASSUME NEW k \in Family, t.ok, k \in t.orders \/ OrderRow(Row(e, k)) PROVE OrderRow(Row(t.ent, k))
  <2>1. CASE k = g
    BY <1>8, <1>13, <2>1 DEF q3
  <2>2. CASE k = f
    <3>1. OrderRow(r)
      BY <1>2, <1>8, <1>13, <2>2
    <3>2. QED
      BY <1>12, <1>13, <2>2, <3>1 DEF r3
  <2>3. CASE k \notin {f, g}
    BY <1>8, <1>9, <1>13, <2>3
  <2>4. QED
    BY <2>1, <2>2, <2>3
<1>14. Result(e, t, touched)
  <2>1. t.hit = None /\ t.orders \subseteq Family
    BY <1>7, <1>8
  <2>2. QED
    BY <1>8, <1>9, <1>12, <1>13, <2>1 DEF Result
<1>15. QED
  BY <1>14 DEF t, m, p, r

\* A version gets another number.
LEMMA Renumber ==
  ASSUME NEW q \in Rows, NEW u \in Nums(q), NEW w \in 1 .. MaxVersion, q[u] # q[w],
         q[0] = None \/ \E m \in Nums(q) \ {u, w} : q[m] = q[0]
  PROVE  LET t == [[q EXCEPT ![w] = q[u]] EXCEPT ![u] = None]
         IN  /\ t \in Rows /\ ~LooseRow(t) /\ RoomRow(t)
             /\ ViewRow(t) = V!With(V!Without(ViewRow(q), u, FALSE), w, ViewRow(q)[u])
<1> DEFINE z == q[u]
           p == [q EXCEPT ![u] = None]
           t == [p EXCEPT ![w] = z]
<1>1. u # w /\ u \in Version /\ w \in Version /\ z \in Inode /\ ViewRow(q)[u] = z
  BY ViewIs, Constants DEF Nums, Rows
<1> HIDE DEF z
<1>2. [[q EXCEPT ![w] = z] EXCEPT ![u] = None] = t
  BY <1>1 DEF Rows
<1>3. /\ p \in Rows /\ ~LooseRow(p) /\ p[0] = q[0] /\ Nums(p) = Nums(q) \ {u} /\ \A m \in Nums(p) : p[m] = q[m]
      /\ ViewRow(p) = V!Without(ViewRow(q), u, FALSE)
  BY DropVersion
<1> HIDE DEF p
<1>4. p[0] = None \/ \E m \in Nums(p) \ {w} : p[m] = p[0]
  BY <1>3
<1>5. t \in Rows /\ ~LooseRow(t) /\ ViewRow(t) = V!With(ViewRow(p), w, z)
  <2>1. Clear(p, w, w)
    BY <1>1, <1>4 DEF Clear
  <2>2. LET c == [p EXCEPT ![w] = z]
        IN  c \in Rows /\ ViewRow(c) = V!With(ViewRow(p), w, z) /\ (LooseRow(c) => w = 0)
    <3>1. p \in Rows /\ z \in Inode
      BY <1>1, <1>3
    <3>2. QED
      BY <2>1, <3>1, PutEntry
  <2>3. w # 0
    OBVIOUS
  <2>4. QED
    BY <2>2, <2>3
<1> HIDE DEF t
<1>6. QED
  BY <1>1, <1>2, <1>3, <1>5 DEF RoomRow, z

\* A rename within a family gives one version another number, or does nothing.
LEMMA WithinResult ==
  ASSUME NEW e, NEW s, NEW f \in Family, Underway(e, s, f), s.ok,
         NEW w \in 1 .. MaxVersion, NEW x \in Version, Placed(Row(s.ent, f), w, x), NEW u \in Known(Row(s.ent, f)), NEW lnk \in BOOLEAN,
         lnk <=> Kind(Row(s.ent, f)) = "linked" /\ u = Max(LinkedTo(Row(s.ent, f))), NEW touched, f \in touched
  PROVE  LET p == IF lnk THEN unlink(s, <<f, 0>>) ELSE s
             m == rename(p, <<f, Slot(Row(s.ent, f), u)>>, <<f, x>>)
         IN  Result(e, PutInOrder(m, f, f, lnk), touched)
<1> DEFINE p == IF lnk THEN unlink(s, <<f, 0>>) ELSE s
           r == Row(s.ent, f)
           y == Slot(r, u)
           m == rename(p, <<f, y>>, <<f, x>>)
           t == PutInOrder(m, f, f, lnk)
           r0 == Row(e, f)
           r1 == Row(p.ent, f)
           r2 == [[r1 EXCEPT ![x] = r1[y]] EXCEPT ![y] = None]
<1>1. /\ Op(s) /\ s.hit = None /\ s.room = TRUE /\ s.orders = {} /\ e \in Dir /\ RoomIn(e) /\ r0 \in Rows /\ RoomRow(r0)
      /\ Only(e, s.ent, f) /\ RoomIn(s.ent) /\ Kept(r0, r) /\ s.ent \in Dir /\ r \in Rows
  BY RowIs DEF Underway, Only, RoomIn
<1>2. /\ Op(p) /\ Meta(s, p) /\ Only(s.ent, p.ent, f) /\ RoomIn(p.ent) /\ Kept(r, r1)
      /\ Nums(r1) = Nums(r) /\ (LooseRow(r1) <=> LooseRow(r))
      /\ p.ok => s.ok /\ ~(Kind(r1) = "linked" /\ u = Max(LinkedTo(r1)))
      /\ lnk => ~LooseRow(r1) /\ (p.ok => r1[0] = None)
      /\ ~lnk => p = s
  BY <1>1, Parting
<1> HIDE DEF p
<1>3. Kept(r0, r1) /\ r1 \in Rows /\ Only(e, p.ent, f) /\ p.ent \in Dir
  <2>1. Kept(r0, r1) /\ Only(e, p.ent, f)
    BY <1>1, <1>2, KeptTwice, OnlyTwice
  <2>2. QED
    BY <2>1 DEF Kept, Only
<1>4. y \in Version
  BY <1>1, SlotIs
<1> HIDE DEF y
<1>5. /\ Call(p, m) /\ (~m.ok => m.ent = p.ent)
      /\ \/ m.ent = p.ent
         \/ /\ m.ok /\ r1[y] \in Inode /\ r1[y] # r1[x] /\ Only(p.ent, m.ent, f)
            /\ Row(m.ent, f) = r2
  BY <1>2, <1>4, Recounted
<1> HIDE DEF m, r0, r1, r2
<1>6. ASSUME m.ok, r1[y] # r1[x]
      PROVE  /\ r2 \in Rows /\ ~LooseRow(r2) /\ RoomRow(r2)
             /\ ViewRow(r2) = V!With(V!Without(ViewRow(r1), u, FALSE), w, ViewRow(r1)[u])
  <2> HIDE DEF r
  <2>0. p.ok
    BY <1>5, <1>6 DEF Call
  <2>1. u \in Nums(r) /\ y = u
    <3>1. ASSUME u \notin Nums(r) PROVE FALSE
      <4>1. y = 0 /\ LooseRow(r)
        BY <3>1 DEF y, Slot, r, Known
      <4>2. r[0] # None /\ ~(OrderRow(r) /\ Nums(r) # {})
        BY <1>1, <4>1, OrderIs DEF LooseRow
      <4>3. x = 0
        BY <4>2 DEF Placed, r
      <4>4. QED
        BY <1>6, <4>1, <4>3
    <3>2. QED
      BY <3>1 DEF y, Slot
  <2>2. x = w
    BY <2>1 DEF Placed, r
  <2>3. r1[0] = None \/ \E k \in Nums(r1) \ {u, w} : r1[k] = r1[0]
    <3>1. CASE lnk
      BY <1>2, <2>0, <3>1
    <3>2. CASE ~lnk
      <4>1. r1 = r
        BY <1>2, <3>2 DEF r1, r
      <4>2. CASE r[0] = None
        BY <4>1, <4>2
      <4>3. CASE Nums(r) # {} /\ OrderRow(r) /\ w # TopOf(r)
        <5>1. ~LooseRow(r) /\ r[0] # None /\ TopOf(r) \in Nums(r) /\ r[TopOf(r)] = r[0]
          BY <1>1, <4>3, OrderIs, TopIs DEF OrderRow
        <5>2. Kind(r) = "linked"
          BY <1>1, <5>1, KindIs
        <5>3. u # TopOf(r)
          BY <1>1, <3>2, <4>3, <5>2, MaxLinked DEF r
        <5>4. QED
          BY <4>1, <4>3, <5>1, <5>3
      <4>4. QED
        BY <2>1, <4>2, <4>3 DEF Placed, r
    <3>3. QED
      BY <3>1, <3>2
  <2>4. u \in Nums(r1)
    BY <1>2, <2>1 DEF r, r1
  <2>5. r1[u] # r1[w]
    BY <1>6, <2>1, <2>2
  <2>6. LET c == [[r1 EXCEPT ![w] = r1[u]] EXCEPT ![u] = None]
        IN  /\ c \in Rows /\ ~LooseRow(c) /\ RoomRow(c)
            /\ ViewRow(c) = V!With(V!Without(ViewRow(r1), u, FALSE), w, ViewRow(r1)[u])
    BY <1>3, <2>3, <2>4, <2>5, Renumber
  <2>7. r2 = [[r1 EXCEPT ![w] = r1[u]] EXCEPT ![u] = None]
    BY <2>1, <2>2 DEF r2
  <2>8. QED
    BY <2>6, <2>7
<1>7. Op(m) /\ m.hit = None /\ m.room = TRUE /\ RoomIn(m.ent) /\ Only(e, m.ent, f)
  <2>1. Op(m) /\ m.hit = None /\ m.room = TRUE
    BY <1>1, <1>2, <1>5 DEF Call, Meta
  <2>2. CASE m.ent = p.ent
    BY <1>2, <1>3, <2>1, <2>2
  <2>3. CASE m.ent # p.ent
    <3>1. RoomRow(Row(m.ent, f)) /\ Only(p.ent, m.ent, f)
      BY <1>5, <1>6, <2>3
    <3>2. RoomIn(m.ent)
      BY <1>2, <3>1, RoomOnly
    <3>3. QED
      BY <1>3, <2>1, <3>1, <3>2, OnlyTwice
  <2>4. QED
    BY <2>2, <2>3
<1>8. /\ Op(t) /\ t.hit = None /\ t.orders = {f} /\ RoomIn(t.ent) /\ t.ent \in Dir
      /\ \A k \in Family \ {f} : Row(t.ent, k) = Row(m.ent, k)
      /\ Kept(Row(m.ent, f), Row(t.ent, f))
      /\ t.ok => OrderRow(Row(t.ent, f))
  <2> HIDE DEF t
  <2>1. Family \ {f, f} = Family \ {f}
    OBVIOUS
  <2>2. QED
    BY <1>7, <2>1, OrderedTwice DEF t
<1> HIDE DEF t
<1>9. Only(e, t.ent, f)
  BY <1>7, <1>8 DEF Only
<1>10. Effect(e, t.ent, None)
  <2>1. CASE m.ent = p.ent
    <3>1. Kept(r0, Row(t.ent, f))
      BY <1>3, <1>8, <2>1, KeptTwice DEF r1
    <3>2. QED
      BY <1>1, <1>9, <3>1, QuietKept DEF r0
  <2>2. CASE m.ent # p.ent
    <3>1. /\ Row(m.ent, f) = r2 /\ ~LooseRow(r2)
          /\ ViewRow(r2) = V!With(V!Without(ViewRow(r1), u, FALSE), w, ViewRow(r1)[u])
      BY <1>5, <1>6, <2>2
    <3>2. ViewRow(r1) = ViewRow(r0)
      BY <1>3 DEF Kept
    <3>3. u \in Known(r0)
      <4>1. ViewRow(r) = ViewRow(r0) /\ u \in Known(r)
        BY <1>1 DEF Kept
      <4>2. QED
        BY <1>1, <4>1, ViewIs
    <3>4. /\ ViewRow(Row(t.ent, f)) = V!With(V!Without(ViewRow(r0), u, FALSE), w, ViewRow(r0)[u])
          /\ ~LooseRow(Row(t.ent, f))
      BY <1>8, <3>1, <3>2 DEF Kept
    <3>5. QED
      BY <1>1, <1>9, <3>3, <3>4, MovedWithin DEF r0
  <2>3. QED
    BY <2>1, <2>2
<1>11. Result(e, t, touched)
  BY <1>8, <1>9, <1>10, ResultOne
<1>12. QED
  BY <1>11 DEF t, m, p, r, y

\* One version moves, or none, and what was put aside for it is in order.
LEMMA RenameResult ==
  ASSUME NEW s0, Begin(s0), NEW f \in Family, NEW v \in Version, NEW g \in Family, NEW w \in Version,
         NEW touched, {f, g} \subseteq touched
  PROVE  Result(s0.ent, renamefile(s0, f, v, g, w), touched)
<1> DEFINE e == s0.ent
           to == renameTo(get_version_array(maintain_version(s0, g, FALSE), g), g, w)
           b == to.s
           s == get_version_array(b, f)
           dst == to.dst
           src == get_old(s, f, v)
           r == Row(s.ent, f)
           t == renameFrom(s, f, v, dst)
           i == IF v = Unspec THEN Newest(r) ELSE v
           lnk == VlessCase(s) = "linked" /\ src = <<s.va.of, Max(Linked(s))>>
           p == IF lnk THEN unlink(s, <<f, 0>>) ELSE s
<1>1. /\ Underway(e, b, g)
      /\ b.ok => \E n \in Nat \ {0}, x \in Nat : dst = <<g, x>> /\ Placed(Row(b.ent, g), n, x)
  BY ToReady
<1>2. renamefile(s0, f, v, g, w) = t
  BY DEF renamefile
<1> HIDE DEF to
<1>3. Op(s) /\ Meta(b, s) /\ s.ent = b.ent /\ s.ok = b.ok /\ (b.ok => Reads(s, f))
  BY <1>1, ArrayRead DEF Underway
<1> HIDE DEF s, b, dst
<1>4. Underway(e, s, g)
  BY <1>1, <1>3 DEF Underway, Meta
<1>5. r \in Rows /\ s.ent \in Dir
  BY <1>4, RowIs DEF Underway, Op, OpRec
<1>6. ASSUME NEW q, Op(q), q.ent = s.ent, q.hit = None, q.orders = {}, ~q.ok PROVE Result(e, q, touched)
  <2>1. Effect(e, q.ent, None)
    BY <1>4, <1>6, QuietKept DEF Underway
  <2>2. RoomIn(q.ent) /\ Only(e, q.ent, g)
    BY <1>4, <1>6 DEF Underway
  <2>3. QED
    BY <1>6, <2>1, <2>2, ResultOne
<1>7. s.hit = None /\ s.orders = {} /\ s.room = TRUE
  BY <1>4 DEF Underway
<1>8. CASE ~s.ok
  <2>1. t = s
    BY <1>8 DEF renameFrom
  <2> HIDE DEF t
  <2>2. Result(e, t, touched)
    BY <1>3, <1>6, <1>7, <1>8, <2>1
  <2>3. QED
    BY <1>2, <2>2
<1>9. CASE s.ok /\ ~InBounds(dst)
  <2>1. t = [s EXCEPT !.room = FALSE]
    BY <1>9 DEF renameFrom
  <2> HIDE DEF t
  <2>2. Op(t) /\ t.room = FALSE
    BY <1>3, <2>1, RoomSet
  <2>3. QED
    BY <1>2, <2>2 DEF Result
<1>10. CASE s.ok /\ InBounds(dst) /\ src = Fail
  <2>1. t = Error(s)
    BY <1>10 DEF renameFrom
  <2>2. Op(Error(s)) /\ Error(s).ent = s.ent /\ Error(s).hit = None /\ Error(s).orders = {} /\ ~Error(s).ok
    BY <1>3, <1>7, Failed DEF Call, Meta
  <2> HIDE DEF t
  <2>3. Result(e, t, touched)
    BY <1>6, <2>1, <2>2
  <2>4. QED
    BY <1>2, <2>3
<1>11. CASE s.ok /\ InBounds(dst) /\ src # Fail
  <2>1. src = IF i \in Known(r) THEN NameOf(f, r, i) ELSE Fail
    BY <1>3, <1>11, OldIs
  <2>2. VlessCase(s) = Kind(r) /\ Linked(s) = LinkedTo(r) /\ s.va.of = f /\ Vless(s) = <<f, 0>>
    BY <1>3, <1>11, Vocabulary, ArrayIs
  <2>3. t = MoveEntry(s, src, dst, lnk)
    BY <1>11 DEF renameFrom
  <2> HIDE DEF i, src, r, lnk
  <2>4. i \in Known(r) /\ src = <<f, Slot(r, i)>>
    BY <1>11, <2>1 DEF NameOf, Slot
  <2>5. PICK n \in Nat \ {0}, x \in Nat : dst = <<g, x>> /\ Placed(Row(s.ent, g), n, x)
    BY <1>1, <1>3, <1>11
  <2>6. x \in Version
    BY <1>11, <2>5, Constants DEF InBounds, Version
  <2>7. n \in 1 .. MaxVersion
    BY <2>5, <2>6, Constants DEF Placed, Version
  <2>8. lnk <=> Kind(r) = "linked" /\ i = Max(LinkedTo(r))
    <3>1. lnk <=> Kind(r) = "linked" /\ Slot(r, i) = Max(LinkedTo(r))
      BY <2>2, <2>4 DEF lnk
    <3>2. CASE Kind(r) = "linked"
      <4>1. i \in Nums(r)
        BY <1>5, <2>4, <3>2, KindIs DEF r
      <4>2. QED
        BY <3>1, <4>1 DEF Slot
    <3>3. CASE Kind(r) # "linked"
      BY <3>1, <3>3
    <3>4. QED
      BY <3>2, <3>3
  <2>9. lnk \in BOOLEAN
    BY DEF lnk
  <2>10. t = PutInOrder(rename(p, src, dst), f, g, lnk)
    BY <2>2, <2>3, <2>4, <2>5 DEF MoveEntry, PutInOrder
  <2>11. rename(p, src, dst) = rename(p, <<f, Slot(r, i)>>, <<g, x>>)
    BY <2>4, <2>5
  <2> HIDE DEF t
  <2>12. CASE f # g
    <3>1. LET c == IF lnk THEN unlink(s, <<f, 0>>) ELSE s
              m == rename(c, <<f, Slot(Row(s.ent, f), i)>>, <<g, x>>)
          IN  Result(e, PutInOrder(m, f, g, lnk), touched)
      <4>1. g \in Family \ {f}
        BY <2>12
      <4>2. QED
        BY <1>4, <1>11, <2>4, <2>5, <2>6, <2>7, <2>8, <2>9, <4>1, AwayResult DEF r
    <3>2. Result(e, t, touched)
      BY <2>10, <2>11, <3>1 DEF r
    <3>3. QED
      BY <1>2, <3>2
  <2>13. CASE f = g
    <3>1. LET c == IF lnk THEN unlink(s, <<f, 0>>) ELSE s
              m == rename(c, <<f, Slot(Row(s.ent, f), i)>>, <<f, x>>)
          IN  Result(e, PutInOrder(m, f, f, lnk), touched)
      BY <1>4, <1>11, <2>4, <2>5, <2>6, <2>7, <2>8, <2>9, <2>13, WithinResult DEF r
    <3>2. Result(e, t, touched)
      BY <2>10, <2>11, <2>13, <3>1 DEF r
    <3>3. QED
      BY <1>2, <3>2
  <2>14. QED
    BY <2>12, <2>13
<1>12. QED
  BY <1>8, <1>9, <1>10, <1>11

-----------------------------------------------------------------------------
(* The state between operations.                                           *)

\* The inductive invariant: the version array is right while its key fits, a
\* loose file has room for its number, and settled families are in order.
IInv ==
  /\ ent \in Dir /\ va \in VaRec /\ Cached(ent, va) /\ settled \subseteq Family /\ hit \in Inode \cup {None}
  /\ RoomIn(ent)
  /\ \A f \in settled : OrderRow(Row(ent, f))

\* One operation of Lisp, or one change by another program.
LispStep == actor' = "lisp" /\ Effect(ent, ent', hit')
HostStep == actor' = "host" /\ hit' = None /\ \E f \in Family : Only(ent, ent', f)

\* The ways an operation starts; k: what one without a fault leaves of the calls.
Starting(k) ==
  [ent : {ent}, va : {va}, ok : {TRUE}, hit : {None}, room : {TRUE}, orders : {{}},
   left : IF "call" \in Faults THEN 0 .. AllCalls - k ELSE {AllCalls},
   ticks : IF "tick" \in Faults THEN {0, 1, AllCalls} ELSE {AllCalls},
   od : IF "opendir" \in Faults /\ va.of # None THEN BOOLEAN ELSE {FALSE}]

LEMMA InitInv ==
  ASSUME Init
  PROVE  IInv
<1>1. ent \in Dir
  BY DEF Init, Dir
<1>2. \A f \in Family : Row(ent, f) \in Rows /\ \A v \in Version : Row(ent, f)[v] = None
  <2>1. \A n \in Name : ent[n] = None
    BY DEF Init
  <2>2. QED
    BY <1>1, <2>1, RowIs
<1>3. \A f \in Family : Nums(Row(ent, f)) = {} /\ ~LooseRow(Row(ent, f))
  BY <1>2, Constants DEF Nums, LooseRow
<1>4. va \in VaRec /\ Cached(ent, va)
  BY DEF Init, VaRec, Cached
<1>5. settled \subseteq Family /\ hit = None
  BY DEF Init
<1>6. RoomIn(ent) /\ \A f \in settled : OrderRow(Row(ent, f))
  BY <1>3, <1>5 DEF RoomIn, RoomRow, OrderRow
<1>7. QED
  BY <1>1, <1>4, <1>5, <1>6 DEF IInv

LEMMA StartBegins ==
  ASSUME IInv, Faults \subseteq {"call"}, NEW k \in Nat, NEW s \in Starting(k)
  PROVE  Begin(s) /\ s.ent = ent /\ s.va = va
<1>1. /\ s.ent = ent /\ s.va = va /\ s.ok = TRUE /\ s.hit = None /\ s.room = TRUE /\ s.orders = {}
      /\ s.left \in (IF "call" \in Faults THEN 0 .. AllCalls - k ELSE {AllCalls})
      /\ s.ticks \in (IF "tick" \in Faults THEN {0, 1, AllCalls} ELSE {AllCalls})
      /\ s.od \in (IF "opendir" \in Faults /\ va.of # None THEN BOOLEAN ELSE {FALSE})
      /\ s = [ent |-> s.ent, va |-> s.va, ok |-> s.ok, hit |-> s.hit, room |-> s.room, orders |-> s.orders,
              left |-> s.left, ticks |-> s.ticks, od |-> s.od]
  BY DEF Starting
<1>2. "tick" \notin Faults /\ "opendir" \notin Faults
  OBVIOUS
<1>3. s.left \in Nat /\ s.ticks \in Nat /\ s.left <= s.ticks /\ s.od = FALSE
  <2>1. s.ticks = AllCalls /\ s.od = FALSE
    BY <1>1, <1>2
  <2>2. s.left \in 0 .. AllCalls - k \/ s.left = AllCalls
    BY <1>1
  <2>3. AllCalls \in Nat /\ AllCalls - k \in Int /\ AllCalls - k <= AllCalls
    BY DEF AllCalls
  <2> DEFINE l == s.left
             a == AllCalls
             b == AllCalls - k
  <2>4. l \in 0 .. b \/ l = a
    BY <2>2
  <2>5. a \in Nat /\ b \in Int /\ b <= a
    BY <2>3
  <2> HIDE DEF l, a, b
  <2>6. l \in Nat /\ l <= a
    BY <2>4, <2>5
  <2>7. QED
    BY <2>1, <2>5, <2>6 DEF l, a
<1>4. ent \in Dir /\ va \in VaRec /\ Cached(ent, va) /\ RoomIn(ent)
  BY DEF IInv
<1>5. s \in OpRec
  BY <1>1, <1>3, <1>4 DEF OpRec
<1>6. QED
  BY <1>1, <1>3, <1>4, <1>5 DEF Begin, Op

LEMMA StartIs ==
  ASSUME IInv
  PROVE  Begin(Start) /\ Start.ent = ent
<1>1. ent \in Dir /\ va \in VaRec /\ Cached(ent, va) /\ RoomIn(ent)
  BY DEF IInv
<1>2. Start \in OpRec
  BY <1>1 DEF Start, OpRec, AllCalls
<1>3. /\ Start.ent = ent /\ Start.va = va /\ Start.ok = TRUE /\ Start.hit = None /\ Start.room = TRUE /\ Start.orders = {}
      /\ Start.left = AllCalls /\ Start.ticks = AllCalls
  BY DEF Start
<1>4. Start.left <= Start.ticks
  BY <1>3 DEF AllCalls
<1>5. QED
  BY <1>1, <1>2, <1>3, <1>4 DEF Begin, Op

LEMMA ResultLeft == ASSUME NEW e, NEW t, NEW T, Result(e, t, T) PROVE t.left \in Nat
BY DEF Result, Op, OpRec

\* An operation ends.
LEMMA DoneKeeps ==
  ASSUME IInv, NEW t, NEW touched, Result(ent, t, touched), Done(t, touched)
  PROVE  IInv' /\ LispStep
<1>1. /\ t.room /\ ent' = t.ent /\ va' = t.va /\ hit' = t.hit /\ actor' = "lisp"
      /\ settled' = IF t.ok THEN settled \cup t.orders ELSE IF t.ent = ent THEN settled ELSE settled \ touched
  BY DEF Done
<1>2. /\ Op(t) /\ RoomIn(t.ent) /\ Effect(ent, t.ent, t.hit) /\ t.orders \subseteq Family
      /\ \A g \in Family : t.ok /\ (g \in t.orders \/ OrderRow(Row(ent, g))) => OrderRow(Row(t.ent, g))
      /\ \A g \in Family \ touched : Row(t.ent, g) = Row(ent, g)
  BY <1>1 DEF Result
<1>3. settled \subseteq Family /\ \A f \in settled : OrderRow(Row(ent, f))
  BY DEF IInv
<1>4. t.ent \in Dir /\ t.va \in VaRec /\ Cached(t.ent, t.va) /\ t.hit \in Inode \cup {None}
  BY <1>2 DEF Op, OpRec
<1>5. settled' \subseteq Family /\ \A f \in settled' : OrderRow(Row(t.ent, f))
  <2>1. CASE t.ok
    BY <1>1, <1>2, <1>3, <2>1
  <2>2. CASE ~t.ok /\ t.ent = ent
    BY <1>1, <1>3, <2>2
  <2>3. CASE ~t.ok /\ t.ent # ent
    BY <1>1, <1>2, <1>3, <2>3
  <2>4. QED
    BY <2>1, <2>2, <2>3
<1>6. LispStep
  BY <1>1, <1>2 DEF LispStep
<1>7. IInv'
  BY <1>1, <1>2, <1>4, <1>5 DEF IInv
<1>8. QED
  BY <1>6, <1>7

\* Another program changes one family.
LEMMA HostKeeps ==
  ASSUME IInv, NEW f \in Family, NEW e \in Dir, Only(ent, e, f), HostChange(e, f)
  PROVE  IInv' /\ HostStep
<1>1. /\ e[<<f, MaxVersion>>] # None => e[<<f, 0>>] \in {None, e[<<f, MaxVersion>>]}
      /\ ent' = e /\ va' = [va EXCEPT !.fresh = FALSE] /\ settled' = settled \ {f} /\ hit' = None /\ actor' = "host"
  BY DEF HostChange
<1>2. ent \in Dir /\ va \in VaRec /\ RoomIn(ent) /\ settled \subseteq Family /\ \A g \in settled : OrderRow(Row(ent, g))
  BY DEF IInv
<1>3. RoomRow(Row(e, f))
  <2>1. Row(e, f)[MaxVersion] = e[<<f, MaxVersion>>] /\ Row(e, f)[0] = e[<<f, 0>>]
    BY RowIs, Constants
  <2> DEFINE r == Row(e, f)
  <2> HIDE DEF r
  <2>2. r[MaxVersion] # None => r[0] \in {None, r[MaxVersion]}
    BY <1>1, <2>1 DEF r
  <2>3. r[MaxVersion] # None => MaxVersion \in Nums(r)
    BY Constants DEF Nums
  <2>4. RoomRow(r)
    BY <2>2, <2>3 DEF RoomRow, LooseRow
  <2>5. QED
    BY <2>4 DEF r
<1>4. RoomIn(e)
  BY <1>2, <1>3, RoomOnly
<1>5. va' \in VaRec /\ Cached(e, va')
  <2>1. va' \in VaRec /\ va'.fresh = FALSE
    BY <1>1, <1>2 DEF VaRec
  <2>2. QED
    BY <2>1 DEF Cached
<1>6. \A g \in settled' : OrderRow(Row(e, g))
  BY <1>1, <1>2 DEF Only
<1>7. HostStep
  BY <1>1 DEF HostStep
<1>8. IInv'
  BY <1>1, <1>2, <1>4, <1>5, <1>6 DEF IInv
<1>9. QED
  BY <1>7, <1>8

LEMMA HostSteps ==
  ASSUME IInv, NEW f \in Family, HostSave(f) \/ \E v \in Version : HostRemove(f, v)
  PROVE  IInv' /\ HostStep
<1>1. ent \in Dir /\ 0 \in Version
  BY Constants DEF IInv
<1>2. CASE HostSave(f)
  <2> DEFINE i == Min(FreeInodes(ent))
             e == [ent EXCEPT ![<<f, 0>>] = i]
  <2>1. FreeInodes(ent) # {} /\ HostChange(e, f)
    BY <1>2 DEF HostSave
  <2>2. i \in Inode
    <3>1. Inode \subseteq Nat
      BY FilesAssumption DEF Inode
    <3>2. FreeInodes(ent) \subseteq Inode /\ FreeInodes(ent) \in SUBSET Nat
      BY <3>1 DEF FreeInodes
    <3>3. QED
      BY <2>1, <3>2, MinIs
  <2> HIDE DEF i
  <2>3. Only(ent, e, f) /\ e \in Dir
    <3>1. LET d == [ent EXCEPT ![<<f, 0>>] = i] IN Only(ent, d, f)
      BY <1>1, <2>2, RowSet
    <3>2. Only(ent, e, f)
      BY <3>1
    <3> HIDE DEF e
    <3>3. QED
      BY <3>2 DEF Only
  <2> HIDE DEF e
  <2>4. QED
    BY <2>1, <2>3, HostKeeps
<1>3. CASE \E v \in Version : HostRemove(f, v)
  <2>1. PICK v \in Version : HostRemove(f, v)
    BY <1>3
  <2> DEFINE e == [ent EXCEPT ![<<f, v>>] = None]
  <2>2. HostChange(e, f)
    BY <2>1 DEF HostRemove
  <2>3. Only(ent, e, f) /\ e \in Dir
    <3>1. LET d == [ent EXCEPT ![<<f, v>>] = None] IN Only(ent, d, f)
      BY <1>1, RowSet
    <3>2. Only(ent, e, f)
      BY <3>1
    <3> HIDE DEF e
    <3>3. QED
      BY <3>2 DEF Only
  <2> HIDE DEF e
  <2>4. QED
    BY <2>2, <2>3, HostKeeps
<1>4. QED
  BY <1>2, <1>3

\* Every step keeps the invariant and is an operation or another program's.
LEMMA NextSteps ==
  ASSUME IInv, Next, Faults \subseteq {"call"}
  PROVE  IInv' /\ (LispStep \/ HostStep)
<1>1. ASSUME NEW f \in Family, NEW v \in Version, NEW r \in Recog, NEW a \in Access, COM_openfile(f, v, r, a)
      PROVE  IInv' /\ LispStep
  <2>1. FreeInodes(ent) # {}
    BY <1>1 DEF COM_openfile
  <2>2. Begin(Start) /\ Start.ent = ent
    BY StartIs
  <2> DEFINE k == openfile(Start, f, v, r, a).left
  <2>3. k \in Nat
    <3>1. Result(Start.ent, openfile(Start, f, v, r, a), {f})
      BY <2>1, <2>2, OpenResult
    <3>2. QED
      BY <3>1, ResultLeft
  <2>4. PICK s \in Starts(LAMBDA s : openfile(s, f, v, r, a)) : Done(openfile(s, f, v, r, a), {f, s.va.of})
    BY <1>1 DEF COM_openfile
  <2>5. s \in Starting(k)
    BY <2>4 DEF Starts, Starting
  <2> HIDE DEF k
  <2>6. Begin(s) /\ s.ent = ent
    BY <2>3, <2>5, StartBegins
  <2>7. Result(ent, openfile(s, f, v, r, a), {f, s.va.of})
    BY <2>1, <2>6, OpenResult
  <2>8. QED
    BY <2>4, <2>7, DoneKeeps
<1>2. ASSUME NEW f \in Family, DSK_getfilename(f)
      PROVE  IInv' /\ LispStep
  <2>1. Begin(Start) /\ Start.ent = ent
    BY StartIs
  <2> DEFINE k == get_version_array(Start, f).left
  <2>2. k \in Nat
    <3>1. Result(Start.ent, get_version_array(Start, f), {})
      BY <2>1, ReadResult
    <3>2. QED
      BY <3>1, ResultLeft
  <2>3. PICK s \in Starts(LAMBDA s : get_version_array(s, f)) : Done(get_version_array(s, f), {})
    BY <1>2 DEF DSK_getfilename
  <2>4. s \in Starting(k)
    BY <2>3 DEF Starts, Starting
  <2> HIDE DEF k
  <2>5. Begin(s) /\ s.ent = ent
    BY <2>2, <2>4, StartBegins
  <2>6. Result(ent, get_version_array(s, f), {})
    BY <2>5, ReadResult
  <2>7. QED
    BY <2>3, <2>6, DoneKeeps
<1>3. ASSUME NEW f \in Family, NEW v \in Version, COM_setfileinfo(f, v)
      PROVE  IInv' /\ LispStep
  <2>1. Begin(Start) /\ Start.ent = ent
    BY StartIs
  <2> DEFINE k == setfileinfo(Start, f, v).left
  <2>2. k \in Nat
    <3>1. Result(Start.ent, setfileinfo(Start, f, v), {})
      BY <2>1, SetResult
    <3>2. QED
      BY <3>1, ResultLeft
  <2>3. PICK s \in Starts(LAMBDA s : setfileinfo(s, f, v)) : Done(setfileinfo(s, f, v), {})
    BY <1>3 DEF COM_setfileinfo
  <2>4. s \in Starting(k)
    BY <2>3 DEF Starts, Starting
  <2> HIDE DEF k
  <2>5. Begin(s) /\ s.ent = ent
    BY <2>2, <2>4, StartBegins
  <2>6. Result(ent, setfileinfo(s, f, v), {})
    BY <2>5, SetResult
  <2>7. QED
    BY <2>3, <2>6, DoneKeeps
<1>4. ASSUME NEW f \in Family, NEW v \in Version, DSK_deletefile(f, v)
      PROVE  IInv' /\ LispStep
  <2>1. Begin(Start) /\ Start.ent = ent
    BY StartIs
  <2> DEFINE k == deletefile(Start, f, v).left
  <2>2. k \in Nat
    <3>1. Result(Start.ent, deletefile(Start, f, v), {f})
      BY <2>1, DeleteResult
    <3>2. QED
      BY <3>1, ResultLeft
  <2>3. PICK s \in Starts(LAMBDA s : deletefile(s, f, v)) : Done(deletefile(s, f, v), {f, s.va.of})
    BY <1>4 DEF DSK_deletefile
  <2>4. s \in Starting(k)
    BY <2>3 DEF Starts, Starting
  <2> HIDE DEF k
  <2>5. Begin(s) /\ s.ent = ent
    BY <2>2, <2>4, StartBegins
  <2>6. Result(ent, deletefile(s, f, v), {f, s.va.of})
    BY <2>5, DeleteResult
  <2>7. QED
    BY <2>3, <2>6, DoneKeeps
<1>5. ASSUME NEW f \in Family, NEW v \in Version, NEW g \in Family, NEW w \in Version, DSK_renamefile(f, v, g, w)
      PROVE  IInv' /\ LispStep
  <2>1. Begin(Start) /\ Start.ent = ent
    BY StartIs
  <2> DEFINE k == renamefile(Start, f, v, g, w).left
  <2>2. k \in Nat
    <3>1. Result(Start.ent, renamefile(Start, f, v, g, w), {f, g})
      BY <2>1, RenameResult
    <3>2. QED
      BY <3>1, ResultLeft
  <2>3. PICK s \in Starts(LAMBDA s : renamefile(s, f, v, g, w)) : Done(renamefile(s, f, v, g, w), {f, g})
    BY <1>5 DEF DSK_renamefile
  <2>4. s \in Starting(k)
    BY <2>3 DEF Starts, Starting
  <2> HIDE DEF k
  <2>5. Begin(s) /\ s.ent = ent
    BY <2>2, <2>4, StartBegins
  <2>6. Result(ent, renamefile(s, f, v, g, w), {f, g})
    BY <2>5, RenameResult
  <2>7. QED
    BY <2>3, <2>6, DoneKeeps
<1>6. ASSUME NEW f \in Family, HostSave(f) \/ \E v \in Version : HostRemove(f, v)
      PROVE  IInv' /\ HostStep
  BY <1>6, HostSteps
<1>7. QED
  BY <1>1, <1>2, <1>3, <1>4, <1>5, <1>6 DEF Next, COM_getfileinfo

LEMMA StutterKeeps ==
  ASSUME IInv, UNCHANGED vars
  PROVE  IInv'
BY DEF IInv, vars

\* Through every operation of COM_openfile, DSK_deletefile, DSK_renamefile and
\* COM_setfileinfo, stopped at any call or not, and every change by another
\* program, the cached version array is right while its key fits, and a family
\* that was put in order stays so.
THEOREM InvAlways == Faults \subseteq {"call"} => (Spec => []IInv)
<1> SUFFICES ASSUME Faults \subseteq {"call"} PROVE Spec => []IInv
  OBVIOUS
<1>1. Init => IInv
  BY InitInv
<1>2. IInv /\ [Next]_vars => IInv'
  BY NextSteps, StutterKeeps
<1>3. QED
  BY <1>1, <1>2, PTL DEF Spec

\* The versionless name of a family that operations have left in order is its
\* newest version (COM_openfile, DSK_renamefile, DSK_deletefile,
\* maintain_version).
THEOREM SettledHolds == Faults \subseteq {"call"} => (Spec => []SettledInOrder)
<1> SUFFICES ASSUME Faults \subseteq {"call"} PROVE Spec => []SettledInOrder
  OBVIOUS
<1>1. IInv => SettledInOrder
  <2> SUFFICES ASSUME IInv PROVE SettledInOrder
    OBVIOUS
  <2>1. ent \in [Name -> Inode \cup {None}] /\ va.files \subseteq Version /\ settled \subseteq Family
    BY DEF IInv, Dir, VaRec
  <2>2. ASSUME NEW f \in settled, Numbers(f) # {} PROVE ent[<<f, 0>>] = ent[<<f, Top(f)>>]
    <3>1. ent \in Dir /\ f \in Family /\ OrderRow(Row(ent, f))
      BY DEF IInv
    <3>2. Row(ent, f) \in Rows /\ \A v \in Version : Row(ent, f)[v] = ent[<<f, v>>]
      BY <3>1, RowIs
    <3>3. Numbers(f) = Nums(Row(ent, f))
      BY <3>2, Constants DEF Numbers, Nums
    <3>4. Top(f) = TopOf(Row(ent, f))
      BY <3>3 DEF Top, TopOf
    <3>5. TopOf(Row(ent, f)) \in Version /\ 0 \in Version
      BY TopIs, Constants DEF Version
    <3>6. QED
      BY <2>2, <3>1, <3>2, <3>3, <3>4, <3>5 DEF OrderRow
  <2>3. QED
    BY <2>1, <2>2 DEF SettledInOrder
<1>2. QED
  BY <1>1, InvAlways, PTL
-----------------------------------------------------------------------------
(* What Lisp sees, in the terms of DiskFiles.                              *)

\* The numbers, the newest number and the view of a family, from its row.
LEMMA ViewOf ==
  ASSUME NEW f \in Family
  PROVE  /\ ent \in Dir => View(f) = ViewRow(Row(ent, f)) /\ (Loose(f) <=> LooseRow(Row(ent, f)))
         /\ ent' \in Dir => View(f)' = ViewRow(Row(ent', f)) /\ (Loose(f)' <=> LooseRow(Row(ent', f)))
<1>1. ASSUME NEW e \in Dir
      PROVE  LET N == {v \in 1 .. MaxVersion : e[<<f, v>>] # None}
                 L == e[<<f, 0>>] # None /\ \A v \in N : e[<<f, v>>] # e[<<f, 0>>]
             IN  /\ L <=> LooseRow(Row(e, f))
                 /\ [v \in N \cup (IF L THEN {Max(N \cup {0}) + 1} ELSE {}) |->
                       e[<<f, IF v \in N THEN v ELSE 0>>]] = ViewRow(Row(e, f))
  <2> DEFINE r == Row(e, f)
             N == {v \in 1 .. MaxVersion : e[<<f, v>>] # None}
             L == e[<<f, 0>>] # None /\ \A v \in N : e[<<f, v>>] # e[<<f, 0>>]
             T == IF L THEN {Max(N \cup {0}) + 1} ELSE {}
  <2>1. \A v \in Version : r[v] = e[<<f, v>>]
    BY RowIs
  <2> HIDE DEF r
  <2>2. N = Nums(r)
    BY <2>1, Constants DEF Nums
  <2>3. L <=> LooseRow(r)
    BY <2>1, <2>2, Constants DEF LooseRow, Nums
  <2>4. \A v \in N : e[<<f, v>>] = r[v]
    BY <2>1, Constants
  <2>5. e[<<f, 0>>] = r[0]
    BY <2>1, Constants
  <2> HIDE DEF N, L
  <2>6. N \cup T = Known(r)
    BY <2>2, <2>3 DEF Known, TopOf
  <2>7. \A v : e[<<f, IF v \in N THEN v ELSE 0>>] = Entry(r, v)
    BY <2>2, <2>4, <2>5 DEF Entry
  <2> HIDE DEF T
  <2>8. [v \in N \cup T |-> e[<<f, IF v \in N THEN v ELSE 0>>]] = ViewRow(r)
    BY <2>6, <2>7 DEF ViewRow
  <2>9. QED
    BY <2>3, <2>8 DEF N, L, T, r
<1>2. ASSUME ent \in Dir PROVE View(f) = ViewRow(Row(ent, f)) /\ (Loose(f) <=> LooseRow(Row(ent, f)))
  BY <1>1, <1>2 DEF View, Loose, Numbers, Top
<1>3. ASSUME ent' \in Dir PROVE View(f)' = ViewRow(Row(ent', f)) /\ (Loose(f)' <=> LooseRow(Row(ent', f)))
  BY <1>1, <1>3 DEF View, Loose, Numbers, Top
<1>4. QED
  BY <1>2, <1>3

\* The newest and the oldest version known.
LEMMA EndsAre ==
  ASSUME NEW r \in Rows, RoomRow(r), Known(r) # {}
  PROVE  /\ Known(r) \subseteq 1 .. MaxVersion
         /\ Newest(r) \in Known(r) /\ Max(Known(r)) = Newest(r)
         /\ Oldest(r) \in Known(r) /\ Min(Known(r)) = Oldest(r)
<1>1. MaxVersion \in Nat /\ Known(r) \subseteq 1 .. MaxVersion /\ Known(r) \subseteq 0 .. MaxVersion
  BY ViewIs, Constants
<1>2. /\ TopOf(r) \in Nat /\ \A v \in Nums(r) : v \in Nat /\ v <= TopOf(r)
      /\ Nums(r) # {} => TopOf(r) \in Nums(r)
      /\ Nums(r) = {} => TopOf(r) = 0
  BY TopIs DEF Nums
<1>3. Newest(r) \in Known(r) /\ \A v \in Known(r) : v <= Newest(r)
  BY <1>2, KindIs, ViewIs DEF Newest, Known
<1>4. Max(Known(r)) = Newest(r)
  BY <1>1, <1>3, MaxOf
<1>5. Oldest(r) \in Known(r) /\ \A v \in Known(r) : Oldest(r) <= v
  <2>1. CASE Nums(r) = {}
    BY <1>2, <2>1 DEF Oldest, Known
  <2>2. CASE Nums(r) # {}
    <3>1. Oldest(r) \in Nums(r) /\ \A v \in Nums(r) : Oldest(r) <= v
      <4>1. Nums(r) \in SUBSET Nat
        BY <1>2
      <4>2. QED
        BY <2>2, <4>1, MinIs DEF Oldest
    <3>2. Oldest(r) \in Nat /\ Oldest(r) <= TopOf(r)
      BY <1>2, <3>1
    <3>3. QED
      BY <1>2, <3>1, <3>2 DEF Known
  <2>3. QED
    BY <2>1, <2>2
<1>6. Min(Known(r)) = Oldest(r)
  <2> DEFINE S == Known(r)
             o == Oldest(r)
  <2>1. S \in SUBSET Nat /\ S # {} /\ o \in S /\ \A v \in S : o <= v
    BY <1>1, <1>5
  <2> HIDE DEF S, o
  <2>2. Min(S) \in S /\ \A x \in S : Min(S) <= x
    BY <2>1, MinIs
  <2>3. o \in Nat /\ Min(S) \in Nat /\ o <= Min(S) /\ Min(S) <= o
    BY <2>1, <2>2
  <2>4. Min(S) = o
    BY <2>3
  <2>5. QED
    BY <2>4 DEF S, o
<1>7. QED
  BY <1>1, <1>3, <1>4, <1>5, <1>6

\* What the entry of a name holds.
Holds(e, n) == IF n = Fail \/ ~InBounds(n) THEN None ELSE e[n]

\* The entry of a known version holds it; an entry that no known version uses
\* is empty.
LEMMA HoldsIs ==
  ASSUME NEW e \in Dir, NEW f \in Family, RoomRow(Row(e, f))
  PROVE  LET r == Row(e, f)
         IN  /\ \A w \in Known(r) : Holds(e, NameOf(f, r, w)) = ViewRow(r)[w]
             /\ \A w \in 1 .. MaxVersion : w \notin Known(r) => Holds(e, NewName(f, r, w)) = None
             /\ Holds(e, Fail) = None
<1> DEFINE r == Row(e, f)
<1>1. r \in Rows /\ \A v \in Version : r[v] = e[<<f, v>>]
  BY RowIs
<1>2. f # None /\ \A v \in Version : v <= MaxVersion
  BY Constants DEF Version
<1> HIDE DEF r
<1>3. ASSUME NEW w \in Known(r) PROVE Holds(e, NameOf(f, r, w)) = ViewRow(r)[w]
  <2>1. Slot(r, w) \in Version /\ ViewRow(r)[w] = r[Slot(r, w)]
    BY <1>1, SlotIs
  <2>2. NameOf(f, r, w) = <<f, Slot(r, w)>>
    BY DEF NameOf, Slot
  <2>3. QED
    BY <1>1, <1>2, <2>1, <2>2 DEF Holds, Fail, InBounds
<1>4. ASSUME NEW w \in 1 .. MaxVersion, w \notin Known(r) PROVE Holds(e, NewName(f, r, w)) = None
  <2>1. w \in Version /\ 0 \in Version
    BY Constants
  <2>2. r[w] = None
    BY <1>4, <1>1, ViewIs DEF Nums
  <2>3. Kind(r) = "none" => r[0] = None
    BY <1>1, KindIs
  <2>4. NewName(f, r, w) = <<f, w>> \/ (NewName(f, r, w) = <<f, 0>> /\ Kind(r) = "none")
    BY <1>4 DEF NewName
  <2>5. QED
    BY <1>1, <1>2, <2>1, <2>2, <2>3, <2>4 DEF Holds, Fail, InBounds
<1>5. Holds(e, Fail) = None
  BY DEF Holds
<1>6. QED
  BY <1>3, <1>4, <1>5 DEF r

\* A named version, with any recognition.
LEMMA NamedIs ==
  ASSUME NEW s, NEW f \in Family, Reads(s, f), RoomRow(Row(s.ent, f)),
         NEW v \in 1 .. MaxVersion, NEW recog \in Recog
  PROVE  LET r == Row(s.ent, f)
         IN  Holds(s.ent, Recognize(s, recog, f, v)) = IF v \in Known(r) THEN ViewRow(r)[v] ELSE None
<1> DEFINE r == Row(s.ent, f)
           n == Recognize(s, recog, f, v)
<1>1. s.ent \in Dir /\ v \in Version /\ v # Unspec
  BY Constants DEF Reads, Unspec
<1>2. /\ get_old(s, f, v) = IF v \in Known(r) THEN NameOf(f, r, v) ELSE Fail
      /\ get_oldest(s, f, v) = IF v \in Known(r) THEN NameOf(f, r, v) ELSE Fail
      /\ get_new(s, f, v) = NewName(f, r, v)
      /\ get_old_new(s, f, v) = NewName(f, r, v)
  BY <1>1, OldIs, OldestIs, NewIs, OldNewIs
<1>3. /\ \A w \in Known(r) : Holds(s.ent, NameOf(f, r, w)) = ViewRow(r)[w]
      /\ \A w \in 1 .. MaxVersion : w \notin Known(r) => Holds(s.ent, NewName(f, r, w)) = None
      /\ Holds(s.ent, Fail) = None
  BY <1>1, HoldsIs
<1> HIDE DEF r
<1>4. v \in Known(r) => NewName(f, r, v) = NameOf(f, r, v)
  BY DEF NewName
<1>5. /\ n = IF v \in Known(r) THEN NameOf(f, r, v) ELSE Fail
      \/ n = NewName(f, r, v)
  BY <1>2 DEF Recognize, Recog
<1> HIDE DEF n
<1>6. Holds(s.ent, n) = IF v \in Known(r) THEN ViewRow(r)[v] ELSE None
  BY <1>3, <1>4, <1>5
<1>7. QED
  BY <1>6 DEF r, n

\* No version named.
LEMMA UnnamedIs ==
  ASSUME NEW s, NEW f \in Family, Reads(s, f), RoomRow(Row(s.ent, f)), Known(Row(s.ent, f)) # {}
  PROVE  LET r == Row(s.ent, f)
         IN  /\ Holds(s.ent, get_old(s, f, Unspec)) = ViewRow(r)[Max(Known(r))]
             /\ Holds(s.ent, get_old_new(s, f, Unspec)) = ViewRow(r)[Max(Known(r))]
             /\ Holds(s.ent, get_oldest(s, f, Unspec)) = ViewRow(r)[Min(Known(r))]
             /\ get_new(s, f, Unspec) = <<f, Max(Known(r)) + 1>>
<1> DEFINE r == Row(s.ent, f)
<1>1. s.ent \in Dir /\ Unspec \in Version /\ r \in Rows
  BY Constants, RowIs DEF Reads, Unspec
<1>2. /\ Known(r) \subseteq 1 .. MaxVersion
      /\ Newest(r) \in Known(r) /\ Max(Known(r)) = Newest(r)
      /\ Oldest(r) \in Known(r) /\ Min(Known(r)) = Oldest(r)
  BY <1>1, EndsAre
<1>3. \A w \in Known(r) : Holds(s.ent, NameOf(f, r, w)) = ViewRow(r)[w]
  BY <1>1, HoldsIs
<1>4. Kind(r) # "none"
  BY <1>1, <1>2, KindIs
<1>5. get_old(s, f, Unspec) = IF Newest(r) \in Known(r) THEN NameOf(f, r, Newest(r)) ELSE Fail
  BY <1>1, OldIs
<1>6. get_oldest(s, f, Unspec) = IF Oldest(r) \in Known(r) THEN NameOf(f, r, Oldest(r)) ELSE Fail
  BY <1>1, OldestIs
<1>7. get_new(s, f, Unspec) = NewName(f, r, Newest(r) + 1)
  BY <1>1, NewIs
<1>8. get_old_new(s, f, Unspec) = NewName(f, r, IF Kind(r) = "none" THEN 1 ELSE Newest(r))
  BY <1>1, OldNewIs
<1>9. Newest(r) + 1 \notin Known(r)
  <2>1. MaxVersion \in Nat /\ Known(r) \in SUBSET (0 .. MaxVersion) /\ Known(r) # {}
    BY <1>2, Constants
  <2>2. \A v \in Known(r) : v <= Newest(r)
    BY <1>2, <2>1, MaxIs
  <2>3. QED
    BY <1>2, <2>2
<1> HIDE DEF r
<1>10. NewName(f, r, Newest(r) + 1) = <<f, Newest(r) + 1>>
  BY <1>4, <1>9 DEF NewName
<1>11. NewName(f, r, Newest(r)) = NameOf(f, r, Newest(r))
  BY <1>2 DEF NewName
<1>12. QED
  BY <1>2, <1>3, <1>4, <1>5, <1>6, <1>7, <1>8, <1>10, <1>11 DEF r

\* Recognition finds the version that was asked for and no other (get_old,
\* get_oldest, get_new, get_old_new).
THEOREM RecognitionHolds == Faults \subseteq {"call"} => (Spec => []RecognitionRight)
<1> SUFFICES ASSUME Faults \subseteq {"call"} PROVE Spec => []RecognitionRight
  OBVIOUS
<1>1. IInv => RecognitionRight
  <2> SUFFICES ASSUME IInv, NEW f \in Family
               PROVE  LET s    == get_version_array([ent |-> ent, va |-> va, ok |-> TRUE, od |-> FALSE], f)
                          vs   == DOMAIN View(f)
                          At(n) == IF n = Fail \/ ~InBounds(n) THEN None ELSE ent[n]
                      IN  /\ \A v \in 1..MaxVersion :
                                \A r \in Recog :
                                   At(Recognize(s, r, f, v)) = IF v \in vs THEN View(f)[v] ELSE None
                          /\ vs # {} => /\ At(get_old(s, f, Unspec)) = View(f)[Max(vs)]
                                        /\ At(get_old_new(s, f, Unspec)) = View(f)[Max(vs)]
                                        /\ At(get_oldest(s, f, Unspec)) = View(f)[Min(vs)]
                                        /\ get_new(s, f, Unspec) = <<f, Max(vs) + 1>>
    BY DEF RecognitionRight
  <2> DEFINE s0 == [ent |-> ent, va |-> va, ok |-> TRUE, od |-> FALSE]
             s  == get_version_array(s0, f)
             r  == Row(ent, f)
  <2>1. ent \in Dir /\ va \in VaRec /\ Cached(ent, va) /\ RoomRow(r)
    BY DEF IInv, RoomIn
  <2>2. s0.ent = ent /\ s0.va = va /\ s0.ok = TRUE /\ s0.od = FALSE
    OBVIOUS
  <2>3. Reads(s, f) /\ s.ent = ent
    <3>1. CASE CacheHit(s0, f)
      <4>1. s = s0
        BY <3>1 DEF get_version_array
      <4>2. va.key = f /\ va.fresh /\ f # None
        BY <2>2, <3>1, Constants DEF CacheHit
      <4>3. va.of = f /\ va.files = Present(ent, f)
        BY <2>1, <4>2 DEF Cached
      <4>4. QED
        BY <2>1, <2>2, <4>1, <4>3 DEF Reads
    <3>2. CASE ~CacheHit(s0, f)
      <4> DEFINE c == [key |-> f, of |-> f, fresh |-> TRUE, files |-> Present(ent, f)]
      <4>1. s = [s0 EXCEPT !.va = c]
        BY <2>2, <3>2 DEF get_version_array, Present
      <4>2. c.of = f /\ c.files = Present(ent, f)
        OBVIOUS
      <4> HIDE DEF c
      <4>3. s.ent = ent /\ s.va = c
        BY <4>1
      <4> HIDE DEF s
      <4>4. QED
        BY <2>1, <4>2, <4>3 DEF Reads
    <3>3. QED
      BY <3>1, <3>2
  <2>4. View(f) = ViewRow(r) /\ DOMAIN ViewRow(r) = Known(r)
    BY <2>1, ViewOf, RowIs, ViewIs
  <2> HIDE DEF s, s0
  <2>5. ASSUME NEW v \in 1 .. MaxVersion, NEW recog \in Recog
        PROVE  Holds(ent, Recognize(s, recog, f, v)) = IF v \in Known(r) THEN ViewRow(r)[v] ELSE None
    BY <2>1, <2>3, NamedIs
  <2>6. ASSUME Known(r) # {}
        PROVE  /\ Holds(ent, get_old(s, f, Unspec)) = ViewRow(r)[Max(Known(r))]
               /\ Holds(ent, get_old_new(s, f, Unspec)) = ViewRow(r)[Max(Known(r))]
               /\ Holds(ent, get_oldest(s, f, Unspec)) = ViewRow(r)[Min(Known(r))]
               /\ get_new(s, f, Unspec) = <<f, Max(Known(r)) + 1>>
    BY <2>1, <2>3, <2>6, UnnamedIs
  <2> HIDE DEF r
  <2>7. QED
    BY <2>4, <2>5, <2>6 DEF Holds, s, s0
<1>2. QED
  BY <1>1, InvAlways, PTL

-----------------------------------------------------------------------------
(* The device implements VersionedFiles.                                   *)

\* The files and the loose families of VersionedFiles.
LEMMA MapOf ==
  /\ ent \in Dir => /\ [f \in Family |-> View(f)] = FilesOf(ent)
                    /\ {f \in Family : Loose(f)} = LooseOf(ent)
  /\ ent' \in Dir => /\ [f \in Family |-> View(f)]' = FilesOf(ent')
                     /\ {f \in Family : Loose(f)}' = LooseOf(ent')
<1>1. ASSUME ent \in Dir
      PROVE  [f \in Family |-> View(f)] = FilesOf(ent) /\ {f \in Family : Loose(f)} = LooseOf(ent)
  <2>1. \A f \in Family : View(f) = ViewRow(Row(ent, f)) /\ (Loose(f) <=> LooseRow(Row(ent, f)))
    BY <1>1, ViewOf
  <2>2. QED
    BY <2>1 DEF FilesOf, LooseOf
<1>2. ASSUME ent' \in Dir
      PROVE  [f \in Family |-> View(f)]' = FilesOf(ent') /\ {f \in Family : Loose(f)}' = LooseOf(ent')
  <2>1. \A f \in Family : View(f)' = ViewRow(Row(ent', f)) /\ (Loose(f)' <=> LooseRow(Row(ent', f)))
    BY <1>2, ViewOf
  <2>2. QED
    BY <2>1 DEF FilesOf, LooseOf
<1>3. QED
  BY <1>1, <1>2

\* The step of VersionedFiles under the mapping.
LEMMA StepMaps ==
  ASSUME ent \in Dir, ent' \in Dir, LispStep \/ HostStep
  PROVE  V!Next
<1> DEFINE F  == [f \in Family |-> View(f)]
           L  == {f \in Family : Loose(f)}
<1>1. F = FilesOf(ent) /\ L = LooseOf(ent) /\ F' = FilesOf(ent') /\ L' = LooseOf(ent')
  BY MapOf
<1>2. V!InUse = Used(ent)
  BY <1>1 DEF V!InUse, Used, V!Range, Range
<1> HIDE DEF F, L
<1>3. ASSUME LispStep PROVE V!Next
  <2>1. CASE Added(ent, ent', hit')
    BY <1>1, <1>2, <1>3, <2>1 DEF Added, LispStep, V!Next, V!Add, F, L
  <2>2. CASE Overwritten(ent, ent', hit')
    BY <1>1, <1>3, <2>2 DEF Overwritten, LispStep, V!Next, V!Overwrite, F, L
  <2>3. CASE Deleted(ent, ent', hit')
    BY <1>1, <1>3, <2>3 DEF Deleted, LispStep, V!Next, V!Delete, F, L
  <2>4. CASE Moved(ent, ent', hit')
    <3>1. PICK f \in Family, v \in 1 .. MaxVersion, g \in Family, w \in 1 .. MaxVersion :
             hit' = None /\ MovedTo(ent, ent', f, v, g, w)
      BY <2>4 DEF Moved
    <3>2. V!Move(f, v, g, w)
      BY <1>1, <3>1 DEF MovedTo, V!Move, F, L
    <3>3. QED
      BY <1>3, <3>2 DEF LispStep, V!Next
  <2>5. CASE Quiet(ent, ent', hit')
    BY <1>1, <1>3, <2>5 DEF Quiet, LispStep, V!Next, V!Settle, V!NoEffect, F, L
  <2>6. QED
    BY <1>3, <2>1, <2>2, <2>3, <2>4, <2>5 DEF LispStep, Effect
<1>4. ASSUME HostStep PROVE V!Next
  <2>1. PICK f \in Family : Only(ent, ent', f)
    BY <1>4 DEF HostStep
  <2>2. ASSUME NEW g \in Family \ {f} PROVE F'[g] = F[g] /\ (g \in L' <=> g \in L)
    <3>1. Row(ent', g) = Row(ent, g)
      BY <2>1 DEF Only
    <3>2. QED
      BY <1>1, <3>1 DEF FilesOf, LooseOf
  <2>3. QED
    BY <1>4, <2>1, <2>2 DEF HostStep, V!Next, V!Host, F, L
<1>5. QED
  BY <1>3, <1>4

\* Through any failure of a call, and whatever other programs do in between, an
\* operation of Lisp adds, writes into, deletes or moves at most the one version
\* it names (COM_openfile, DSK_deletefile, DSK_renamefile, COM_setfileinfo,
\* maintain_version).
THEOREM FilesRefine == Faults \subseteq {"call"} => (Spec => ImplementsVersionedFiles)
<1> SUFFICES ASSUME Faults \subseteq {"call"} PROVE Spec => ImplementsVersionedFiles
  OBVIOUS
<1>1. Init => V!Init
  <2> SUFFICES ASSUME Init PROVE V!Init
    OBVIOUS
  <2>1. ent \in Dir
    BY InitInv DEF IInv
  <2>2. \A f \in Family : Known(Row(ent, f)) = {} /\ ~LooseRow(Row(ent, f))
    <3>1. \A n \in Name : ent[n] = None
      BY DEF Init
    <3>2. \A f \in Family : Nums(Row(ent, f)) = {} /\ ~LooseRow(Row(ent, f))
      <4>1. \A f \in Family, v \in Version : Row(ent, f)[v] = None
        BY <2>1, <3>1, RowIs
      <4>2. QED
        BY <4>1, Constants DEF Nums, LooseRow
    <3>3. QED
      BY <3>2 DEF Known
  <2>3. \A f \in Family : ViewRow(Row(ent, f)) = << >>
    BY <2>2 DEF ViewRow
  <2>4. FilesOf(ent) = [f \in Family |-> << >>] /\ LooseOf(ent) = {}
    BY <2>2, <2>3 DEF FilesOf, LooseOf
  <2>5. QED
    BY <2>1, <2>4, MapOf DEF Init, V!Init
<1>2. IInv /\ [Next]_vars => [V!Next]_(V!vars)
  <2> SUFFICES ASSUME IInv, [Next]_vars PROVE [V!Next]_(V!vars)
    OBVIOUS
  <2>1. CASE Next
    <3>1. IInv' /\ (LispStep \/ HostStep)
      BY <2>1, NextSteps
    <3>2. ent \in Dir /\ ent' \in Dir
      BY <3>1 DEF IInv
    <3>3. QED
      BY <3>1, <3>2, StepMaps
  <2>2. CASE UNCHANGED vars
    BY <2>2 DEF vars, V!vars, View, Loose, Numbers, Top
  <2>3. QED
    BY <2>1, <2>2
<1>3. QED
  BY <1>1, <1>2, InvAlways, PTL DEF Spec, ImplementsVersionedFiles, V!Spec
=============================================================================
