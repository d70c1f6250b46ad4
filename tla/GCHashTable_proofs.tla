------------------------- MODULE GCHashTable_proofs --------------------------
(* Lemmas about the operators of GCHashTable, for every table size, hash    *)
(* function and set of pointers.                                           *)
EXTENDS GCHashTable, FiniteSetTheorems, FunctionTheorems, SequenceTheorems, WellFoundedInduction, TLAPS

-----------------------------------------------------------------------------
(* Recursion.  What a recursive function over the naturals computes exists: *)
(* the value at n is that of any approximation that reaches n.              *)

\* Every nonempty set of natural numbers has a least member.
LEMMA LeastMember ==
  ASSUME NEW S \in SUBSET Nat, S # {}
  PROVE  \E x \in S : \A y \in S : x <= y
<1>1. PICK x \in S : \A y \in S : ~(<<y, x>> \in OpToRel(<, Nat))
  BY NatLessThanWellFounded, WFMin
<1>2. ASSUME NEW y \in S PROVE x <= y
  <2>1. ~(y < x)
    BY <1>1 DEF OpToRel
  <2>2. QED
    BY <2>1
<1>3. QED
  BY <1>1, <1>2

Reaches(S, x, nx, n, g) == /\ g \in [0 .. n -> S] /\ g[0] = x
                           /\ \A k \in 0 .. n - 1 : g[k + 1] = nx[g[k]]

LEMMA Iterates ==
  ASSUME NEW S, NEW x \in S, NEW nx \in [S -> S]
  PROVE  \E f \in [Nat -> S] : f[0] = x /\ \A n \in Nat : f[n + 1] = nx[f[n]]
<1>1. \A n \in Nat : \E g : Reaches(S, x, nx, n, g)
  <2> DEFINE Bad == {n \in Nat : ~\E g : Reaches(S, x, nx, n, g)}
  <2> SUFFICES ASSUME Bad # {} PROVE FALSE
    OBVIOUS
  <2>1. PICK n \in Bad : \A m \in Bad : n <= m
    <3>1. Bad \in SUBSET Nat
      OBVIOUS
    <3> HIDE DEF Bad
    <3>2. QED
      BY <3>1, LeastMember
  <2>2. n # 0
    <3>1. Reaches(S, x, nx, 0, [k \in 0 .. 0 |-> x])
      BY DEF Reaches
    <3>2. QED
      BY <3>1
  <2>3. n - 1 \in Nat /\ n - 1 \notin Bad
    BY <2>1, <2>2
  <2>4. PICK g : Reaches(S, x, nx, n - 1, g)
    BY <2>3
  <2> DEFINE h == [k \in 0 .. n |-> IF k = n THEN nx[g[n - 1]] ELSE g[k]]
  <2>5. Reaches(S, x, nx, n, h)
    <3>1. n - 1 \in 0 .. n - 1 /\ g[n - 1] \in S /\ \A k \in 0 .. n - 1 : g[k] \in S
      BY <2>2, <2>3, <2>4 DEF Reaches
    <3>2. h \in [0 .. n -> S] /\ h[0] = x
      BY <2>2, <2>3, <2>4, <3>1 DEF Reaches
    <3>3. ASSUME NEW k \in 0 .. n - 1 PROVE h[k + 1] = nx[h[k]]
      <4>1. h[k] = g[k]
        BY <2>1
      <4>2. CASE k = n - 1
        BY <2>1, <4>1, <4>2
      <4>3. CASE k # n - 1
        BY <2>1, <2>4, <4>1, <4>3 DEF Reaches
      <4>4. QED
        BY <4>2, <4>3
    <3>4. QED
      BY <3>2, <3>3 DEF Reaches
  <2>6. QED
    BY <2>5
<1>2. ASSUME NEW n \in Nat, NEW m \in Nat, n <= m, NEW g, NEW h, Reaches(S, x, nx, n, g), Reaches(S, x, nx, m, h)
      PROVE  g[n] = h[n]
  <2> DEFINE Bad == {k \in 0 .. n : g[k] # h[k]}
  <2> SUFFICES ASSUME Bad # {} PROVE FALSE
    OBVIOUS
  <2>1. PICK k \in Bad : \A j \in Bad : k <= j
    <3>1. Bad \in SUBSET Nat
      OBVIOUS
    <3> HIDE DEF Bad
    <3>2. QED
      BY <3>1, LeastMember
  <2>2. k # 0
    BY <1>2 DEF Reaches
  <2>3. k - 1 \in 0 .. n - 1 /\ k - 1 \in 0 .. m - 1 /\ k - 1 \notin Bad
    BY <1>2, <2>1, <2>2
  <2>4. g[k - 1] = h[k - 1] /\ g[(k - 1) + 1] = nx[g[k - 1]] /\ h[(k - 1) + 1] = nx[h[k - 1]]
    BY <1>2, <2>3 DEF Reaches
  <2>5. QED
    BY <2>1, <2>3, <2>4
<1> DEFINE gs(n) == CHOOSE g : Reaches(S, x, nx, n, g)
           f == [n \in Nat |-> gs(n)[n]]
<1>3. ASSUME NEW n \in Nat PROVE Reaches(S, x, nx, n, gs(n))
  BY <1>1
<1> HIDE DEF gs
<1>4. f \in [Nat -> S] /\ f[0] = x
  <2>1. ASSUME NEW n \in Nat PROVE gs(n)[n] \in S
    BY <1>3 DEF Reaches
  <2>2. gs(0)[0] = x
    BY <1>3 DEF Reaches
  <2>3. QED
    BY <2>1, <2>2
<1>5. ASSUME NEW n \in Nat PROVE f[n + 1] = nx[f[n]]
  <2>1. gs(n)[n] = gs(n + 1)[n]
    <3>1. Reaches(S, x, nx, n, gs(n)) /\ Reaches(S, x, nx, n + 1, gs(n + 1))
      BY <1>3
    <3>2. QED
      BY <3>1, <1>2
  <2>2. gs(n + 1)[n + 1] = nx[gs(n + 1)[n]]
    BY <1>3 DEF Reaches
  <2>3. QED
    BY <2>1, <2>2
<1>6. QED
  BY <1>4, <1>5

-----------------------------------------------------------------------------
(* Walking along links.                                                    *)

\* A walk of n links from k is that link and the walk of n - 1 links from the next.
LEMMA WalkExists ==
  ASSUME NEW t, \A k \in Link : t.coll[k].next \in 0 .. HTCOLLMAX
  PROVE  \E w : /\ \A k \in 0 .. HTCOLLMAX : w[HTCOLLMAX][k] = Walk(t, k)
                /\ \A n, k \in 0 .. HTCOLLMAX :
                     w[n][k] = IF n = 0 \/ k = 0 THEN <<>> ELSE <<k>> \o w[n - 1][t.coll[k].next]
<1> DEFINE N == 0 .. HTCOLLMAX
           S == [N -> Seq(N)]
           cat(k, r) == <<k>> \o r[t.coll[k].next]
           row(r) == [k \in N |-> IF k = 0 THEN <<>> ELSE cat(k, r)]
           nx == [r \in S |-> row(r)]
           x == [k \in N |-> <<>>]
<1>1. HTCOLLMAX \in Nat
  BY TableAssumption
<1>2. x \in S
  OBVIOUS
<1>3. ASSUME NEW r \in S PROVE row(r) \in S
  <2>1. ASSUME NEW k \in N, k # 0 PROVE cat(k, r) \in Seq(N)
    <3>1. k \in Link
      BY <1>1, <2>1 DEF Link
    <3>2. r[t.coll[k].next] \in Seq(N)
      BY <3>1
    <3>3. <<k>> \in Seq(N)
      OBVIOUS
    <3> HIDE DEF N
    <3>4. QED
      BY <3>2, <3>3, ConcatProperties
  <2> HIDE DEF cat, N
  <2>2. QED
    BY <2>1
<1>4. nx \in [S -> S]
  <2> HIDE DEF S, row
  <2>1. QED
    BY <1>3
<1>5. PICK f \in [Nat -> S] : f[0] = x /\ \A n \in Nat : f[n + 1] = nx[f[n]]
  <2> HIDE DEF S, nx, x
  <2>1. QED
    BY <1>2, <1>4, Iterates
<1> DEFINE g == [n \in N |-> f[n]]
           step(v) == [n \in N |-> [k \in N |-> IF n = 0 \/ k = 0 THEN <<>> ELSE <<k>> \o v[n - 1][t.coll[k].next]]]
<1>6. ASSUME NEW n \in N
      PROVE  g[n] = [k \in N |-> IF n = 0 \/ k = 0 THEN <<>> ELSE <<k>> \o g[n - 1][t.coll[k].next]]
  <2>1. CASE n = 0
    BY <1>5, <2>1
  <2>2. CASE n # 0
    <3> DEFINE m == n - 1
    <3>1. m \in Nat /\ m \in N /\ m + 1 = n
      BY <1>1, <2>2
    <3> HIDE DEF m
    <3>2. f[n] = nx[f[m]] /\ f[m] \in S /\ g[n] = f[n] /\ g[m] = f[m]
      <4> HIDE DEF S, nx, x
      <4>1. QED
        BY <1>1, <1>5, <3>1
    <3>3. f[n] = row(g[m])
      <4> HIDE DEF S, row, g
      <4>1. QED
        BY <3>2
    <3>4. m = n - 1
      BY DEF m
    <3>5. QED
      BY <2>2, <3>2, <3>3, <3>4
  <2>3. QED
    BY <2>1, <2>2
<1>7. g = step(g)
  BY <1>6
<1> DEFINE w == CHOOSE v : v = step(v)
<1>8. w = step(w)
  <2> HIDE DEF step, g
  <2>1. \E v : v = step(v)
    BY <1>7
  <2>2. QED
    BY <2>1
<1>9. \A k \in N : w[HTCOLLMAX][k] = Walk(t, k)
  BY DEF Walk
<1>10. \A n, k \in N : w[n][k] = IF n = 0 \/ k = 0 THEN <<>> ELSE <<k>> \o w[n - 1][t.coll[k].next]
  <2> HIDE DEF w
  <2>1. ASSUME NEW n \in N, NEW k \in N
        PROVE  w[n][k] = IF n = 0 \/ k = 0 THEN <<>> ELSE <<k>> \o w[n - 1][t.coll[k].next]
    <3>1. w[n] = step(w)[n]
      BY <1>8
    <3>2. QED
      BY <3>1
  <2>2. QED
    BY <2>1
<1>11. QED
  <2> HIDE DEF w
  <2>1. QED
    BY <1>9, <1>10

\* ch lists the n links from link h to the end of the list, none twice.
After(ch, n, i) == IF i <= n THEN ch[i] ELSE 0
IsPath(t, h, n, ch) ==
  /\ n \in Nat /\ ch \in [1 .. n -> Link]
  /\ h = After(ch, n, 1)
  /\ \A i \in 1 .. n : t.coll[ch[i]].next = After(ch, n, i + 1)
  /\ \A i, j \in 1 .. n : ch[i] = ch[j] => i = j

Nexts(t) == \A k \in Link : t.coll[k].next \in 0 .. HTCOLLMAX

LEMMA PathShort ==
  ASSUME NEW t, NEW h, NEW n, NEW ch, IsPath(t, h, n, ch)
  PROVE  n <= HTCOLLMAX
<1>1. HTCOLLMAX \in Nat /\ n \in Nat
  BY TableAssumption DEF IsPath
<1>2. IsFiniteSet(1 .. HTCOLLMAX) /\ Cardinality(1 .. HTCOLLMAX) = HTCOLLMAX
  BY <1>1, FS_Interval
<1>3. IsFiniteSet(1 .. n) /\ Cardinality(1 .. n) = n
  BY <1>1, FS_Interval
<1>4. ch \in Injection(1 .. n, 1 .. HTCOLLMAX)
  BY Fun_IsInj DEF IsPath, Link
<1>5. Cardinality(1 .. n) <= Cardinality(1 .. HTCOLLMAX)
  <2> DEFINE A == 1 .. n
             B == 1 .. HTCOLLMAX
  <2>1. ch \in Injection(A, B)
    BY <1>4
  <2>2. IsFiniteSet(B)
    BY <1>2
  <2> HIDE DEF A, B
  <2>3. Cardinality(A) <= Cardinality(B)
    BY <2>1, <2>2, FS_Injection
  <2>4. QED
    BY <2>3 DEF A, B
<1>6. QED
  BY <1>2, <1>3, <1>5

\* One element in front of a sequence.
LEMMA InFront ==
  ASSUME NEW x, NEW n \in Nat, NEW T, NEW s \in [1 .. n -> T]
  PROVE  <<x>> \o s = [j \in 1 .. n + 1 |-> IF j = 1 THEN x ELSE s[j - 1]]
<1>1. s \in Seq(T) /\ Len(s) = n
  BY SeqDef
<1>2. <<x>> \in Seq({x}) /\ Len(<<x>>) = 1 /\ <<x>>[1] = x
  OBVIOUS
<1> DEFINE u == <<x>>
           c == u \o s
<1>3. c \in Seq({x} \cup T) /\ Len(c) = 1 + n /\ \A j \in 1 .. 1 + n : c[j] = IF j <= 1 THEN u[j] ELSE s[j - 1]
  <2> DEFINE D == {x} \cup T
  <2>1. u \in Seq(D) /\ s \in Seq(D) /\ Len(u) = 1 /\ Len(s) = n
    BY <1>1, <1>2
  <2> HIDE DEF u, D, c
  <2>2. u \o s \in Seq(D) /\ Len(u \o s) = Len(u) + Len(s)
    BY <2>1, ConcatProperties
  <2>3. \A j \in 1 .. Len(u) + Len(s) : (u \o s)[j] = IF j <= Len(u) THEN u[j] ELSE s[j - Len(u)]
    BY <2>1, ConcatProperties
  <2>4. QED
    BY <2>1, <2>2, <2>3 DEF D, c
<1>4. DOMAIN c = 1 .. n + 1
  <2> HIDE DEF c
  <2>1. QED
    BY <1>3
<1> HIDE DEF c, u
<1>5. c = [j \in DOMAIN c |-> c[j]]
  BY <1>3
<1>6. \A j \in 1 .. n + 1 : c[j] = IF j = 1 THEN x ELSE s[j - 1]
  BY <1>3, <1>2 DEF u
<1>7. QED
  BY <1>4, <1>5, <1>6 DEF c, u

\* The walk from the head of a path is the path.
LEMMA WalkIsPath ==
  ASSUME NEW t, Nexts(t), NEW h, NEW n, NEW ch, IsPath(t, h, n, ch)
  PROVE  Walk(t, h) = ch
<1>1. HTCOLLMAX \in Nat /\ n \in Nat /\ n <= HTCOLLMAX /\ ch \in [1 .. n -> Link] /\ h \in 0 .. HTCOLLMAX
  <2>1. HTCOLLMAX \in Nat /\ n \in Nat /\ ch \in [1 .. n -> Link] /\ h = After(ch, n, 1)
    BY TableAssumption DEF IsPath
  <2>2. n <= HTCOLLMAX
    BY PathShort
  <2>3. h \in 0 .. HTCOLLMAX
    BY <2>1 DEF After, Link
  <2>4. QED
    BY <2>1, <2>2, <2>3
<1>2. PICK w : /\ \A k \in 0 .. HTCOLLMAX : w[HTCOLLMAX][k] = Walk(t, k)
               /\ \A m, k \in 0 .. HTCOLLMAX :
                    w[m][k] = IF m = 0 \/ k = 0 THEN <<>> ELSE <<k>> \o w[m - 1][t.coll[k].next]
  BY WalkExists DEF Nexts
<1> DEFINE suffix(k) == [j \in 1 .. k |-> ch[(n - k) + j]]
           Bad == {k \in 0 .. n : \E m \in k .. HTCOLLMAX : w[m][After(ch, n, n - k + 1)] # suffix(k)}
<1>3. Bad = {}
  <2> SUFFICES ASSUME Bad # {} PROVE FALSE
    OBVIOUS
  <2>1. PICK k \in Bad : \A j \in Bad : k <= j
    <3>1. Bad \in SUBSET Nat
      OBVIOUS
    <3> HIDE DEF Bad
    <3>2. QED
      BY <3>1, LeastMember
  <2>2. PICK m \in k .. HTCOLLMAX : w[m][After(ch, n, n - k + 1)] # suffix(k)
    OBVIOUS
  <2>3. CASE k = 0
    <3>1. After(ch, n, n - k + 1) = 0
      BY <1>1, <2>3 DEF After
    <3>2. m \in 0 .. HTCOLLMAX /\ 0 \in 0 .. HTCOLLMAX
      BY <1>1, <2>2, <2>3
    <3>3. w[m][0] = <<>>
      BY <1>2, <3>2
    <3>4. suffix(k) = <<>>
      BY <2>3
    <3>5. QED
      BY <2>2, <3>1, <3>3, <3>4
  <2>4. CASE k # 0
    <3> DEFINE i == n - k + 1
               l == k - 1
    <3>1. /\ k \in 1 .. n /\ i \in 1 .. n /\ l \in 0 .. n /\ l \in Nat /\ l \notin Bad /\ l + 1 = k /\ n - l + 1 = i + 1
          /\ m \in 0 .. HTCOLLMAX /\ m # 0 /\ m - 1 \in l .. HTCOLLMAX
      <4>1. k \in 0 .. n /\ \A j \in Bad : k <= j
        BY <2>1
      <4> HIDE DEF Bad
      <4>2. QED
        BY <1>1, <2>2, <2>4, <4>1
    <3>2. After(ch, n, i) = ch[i] /\ ch[i] \in Link /\ ch[i] \in 0 .. HTCOLLMAX /\ ch[i] # 0
      BY <1>1, <3>1 DEF After, Link
    <3>3. t.coll[ch[i]].next = After(ch, n, i + 1)
      BY <3>1 DEF IsPath
    <3>4. w[m - 1][After(ch, n, i + 1)] = suffix(l)
      BY <3>1
    <3>5. w[m][ch[i]] = <<ch[i]>> \o suffix(l)
      <4>1. w[m][ch[i]] = IF m = 0 \/ ch[i] = 0 THEN <<>> ELSE <<ch[i]>> \o w[m - 1][t.coll[ch[i]].next]
        BY <1>2, <3>1, <3>2
      <4>2. QED
        BY <3>1, <3>2, <3>3, <3>4, <4>1
    <3>6. suffix(l) \in [1 .. l -> Link]
      <4>1. \A j \in 1 .. l : (n - l) + j \in 1 .. n
        BY <1>1, <3>1
      <4>2. QED
        BY <1>1, <4>1
    <3>7. <<ch[i]>> \o suffix(l) = [j \in 1 .. l + 1 |-> IF j = 1 THEN ch[i] ELSE suffix(l)[j - 1]]
      <4> DEFINE s == suffix(l)
                 y == ch[i]
      <4>1. s \in [1 .. l -> Link] /\ l \in Nat
        BY <3>1, <3>6
      <4> HIDE DEF s, y, l
      <4>2. <<y>> \o s = [j \in 1 .. l + 1 |-> IF j = 1 THEN y ELSE s[j - 1]]
        BY <4>1, InFront
      <4>3. QED
        BY <4>2 DEF s, y
    <3>8. \A j \in 1 .. k : (IF j = 1 THEN ch[i] ELSE suffix(l)[j - 1]) = ch[(n - k) + j]
      <4>1. ASSUME NEW j \in 1 .. k, j # 1 PROVE suffix(l)[j - 1] = ch[(n - k) + j]
        <5>1. j - 1 \in 1 .. l /\ (n - l) + (j - 1) = (n - k) + j
          BY <1>1, <3>1, <4>1
        <5>2. QED
          BY <5>1
      <4>2. (n - k) + 1 = i
        BY <1>1
      <4>3. QED
        BY <4>1, <4>2
    <3>9. <<ch[i]>> \o suffix(l) = suffix(k)
      BY <3>1, <3>7, <3>8
    <3>10. QED
      BY <2>2, <3>2, <3>5, <3>9
  <2>5. QED
    BY <2>3, <2>4
<1>4. w[HTCOLLMAX][h] = suffix(n)
  <2>1. n \in 0 .. n /\ HTCOLLMAX \in n .. HTCOLLMAX /\ n - n + 1 = 1
    BY <1>1
  <2>2. w[HTCOLLMAX][After(ch, n, n - n + 1)] = suffix(n)
    BY <1>3, <2>1
  <2>3. QED
    BY <2>1, <2>2 DEF IsPath
<1>5. suffix(n) = ch
  BY <1>1
<1>6. QED
  BY <1>1, <1>2, <1>4, <1>5

-----------------------------------------------------------------------------
(* The links of a table: those in chains, those on the list of free links,  *)
(* and the set X of those that an operation has taken but not placed yet.   *)

EntryWord == [tag : {"entry"}, ptr : Ptr, count : 0 .. MAX_GCCOUNT, stk : BOOLEAN]
LinkTo == [tag : {"link"}, link : 0 .. HTCOLLMAX]
Cell == [word : Word, next : 0 .. HTCOLLMAX]
Slot == [ptr : Ptr \cup {ATOM_T}, cnt : Int]
Tables == [main : [Bucket -> Word], coll : [Link -> Cell], free : 0 .. HTCOLLMAX, hwm : 1 .. HTCOLLMAX + 1,
           big : Seq(Slot), cnt : Int, min : {CntNIL, ReclaimMin}, disabled : BOOLEAN]

Ch(t, b) == {Chain(t, b)[i] : i \in DOMAIN Chain(t, b)}
Spare(t) == {Walk(t, t.free)[i] : i \in DOMAIN Walk(t, t.free)}

ChainPath(t, b) == t.main[b].tag = "link" => \E n \in Nat \ {0} : IsPath(t, t.main[b].link, n, Chain(t, b))
FreePath(t) == \E n \in Nat : IsPath(t, t.free, n, Walk(t, t.free))
Paths(t) == t \in Tables /\ FreePath(t) /\ \A b \in Bucket : ChainPath(t, b)

Apart(t, X) ==
  /\ \A b, c \in Bucket : b # c => Ch(t, b) \cap Ch(t, c) = {}
  /\ \A b \in Bucket : Ch(t, b) \cap (Spare(t) \cup X) = {}
  /\ \A b \in Bucket : Ch(t, b) \subseteq 1 .. t.hwm - 1
  /\ Spare(t) \cap X = {} /\ Spare(t) \cup X \subseteq 1 .. t.hwm - 1
Accounted(t, X) == ~t.disabled => \A l \in 1 .. t.hwm - 1 : l \in Spare(t) \cup X \/ \E b \in Bucket : l \in Ch(t, b)

LinkInv(t, X) == Paths(t) /\ Apart(t, X) /\ Accounted(t, X)

LEMMA TableNexts ==
  ASSUME NEW t \in Tables
  PROVE  Nexts(t)
BY DEF Tables, Nexts, Cell

\* A path does not see what happens to the links of others.
LEMMA PathKept ==
  ASSUME NEW t, NEW u, NEW h, NEW n, NEW ch, IsPath(t, h, n, ch),
         \A i \in 1 .. n : u.coll[ch[i]].next = t.coll[ch[i]].next
  PROVE  IsPath(u, h, n, ch)
BY DEF IsPath

\* The members of a chain and of the free list.
LEMMA PathDomain ==
  ASSUME NEW t, NEW h, NEW n, NEW ch, IsPath(t, h, n, ch)
  PROVE  DOMAIN ch = 1 .. n /\ {ch[i] : i \in DOMAIN ch} = {ch[i] : i \in 1 .. n} /\ \A i \in 1 .. n : ch[i] \in Link
BY DEF IsPath

LEMMA ChainFrom ==
  ASSUME NEW u \in Tables, NEW b \in Bucket, u.main[b].tag = "link", NEW n \in Nat \ {0}, NEW ch,
         IsPath(u, u.main[b].link, n, ch)
  PROVE  Chain(u, b) = ch /\ ChainPath(u, b) /\ Ch(u, b) = {ch[i] : i \in 1 .. n}
<1>1. Chain(u, b) = ch
  BY TableNexts, WalkIsPath DEF Chain
<1>2. QED
  BY <1>1, PathDomain DEF ChainPath, Ch

LEMMA NoChain ==
  ASSUME NEW u, NEW b, u.main[b].tag # "link"
  PROVE  Chain(u, b) = <<>> /\ ChainPath(u, b) /\ Ch(u, b) = {}
BY DEF Chain, ChainPath, Ch

LEMMA FreeFrom ==
  ASSUME NEW u \in Tables, NEW n \in Nat, NEW ch, IsPath(u, u.free, n, ch)
  PROVE  FreePath(u) /\ \A x : x \in Spare(u) <=> \E i \in 1 .. n : x = ch[i]
<1>1. Walk(u, u.free) = ch /\ n \in Nat
  BY TableNexts, WalkIsPath DEF IsPath
<1>2. QED
  BY <1>1, PathDomain DEF FreePath, Spare

\* The chain of a bucket stays when its word and the links of its members do.
LEMMA ChainKept ==
  ASSUME NEW t \in Tables, NEW u \in Tables, NEW b \in Bucket, ChainPath(t, b), u.main[b] = t.main[b],
         \A l \in Ch(t, b) : u.coll[l].next = t.coll[l].next
  PROVE  Chain(u, b) = Chain(t, b) /\ ChainPath(u, b) /\ Ch(u, b) = Ch(t, b)
<1>1. CASE t.main[b].tag # "link"
  BY <1>1, NoChain
<1>2. CASE t.main[b].tag = "link"
  <2>1. PICK n \in Nat \ {0} : IsPath(t, t.main[b].link, n, Chain(t, b))
    BY <1>2 DEF ChainPath
  <2>2. Ch(t, b) = {Chain(t, b)[i] : i \in 1 .. n}
    BY <2>1, PathDomain DEF Ch
  <2>3. IsPath(u, u.main[b].link, n, Chain(t, b))
    BY <2>1, <2>2, PathKept
  <2>4. QED
    BY <1>2, <2>2, <2>3, ChainFrom
<1>3. QED
  BY <1>1, <1>2

LEMMA FreeKept ==
  ASSUME NEW t \in Tables, NEW u \in Tables, FreePath(t), u.free = t.free,
         \A l \in Spare(t) : u.coll[l].next = t.coll[l].next
  PROVE  FreePath(u) /\ Spare(u) = Spare(t)
<1>1. PICK n \in Nat : IsPath(t, t.free, n, Walk(t, t.free))
  BY DEF FreePath
<1>2. Spare(t) = {Walk(t, t.free)[i] : i \in 1 .. n}
  BY <1>1, PathDomain DEF Spare
<1>3. IsPath(u, u.free, n, Walk(t, t.free))
  BY <1>1, <1>2, PathKept
<1> DEFINE ch == Walk(t, t.free)
<1>4. IsPath(u, u.free, n, ch) /\ Spare(t) = {ch[i] : i \in 1 .. n}
  BY <1>2, <1>3
<1> HIDE DEF ch
<1>5. QED
  BY <1>4, FreeFrom

\* The first link of the free list, and the rest of the list.
LEMMA FreeHead ==
  ASSUME NEW t \in Tables, FreePath(t), t.free # 0
  PROVE  /\ t.free \in Spare(t) /\ t.free \in Link
         /\ \A u \in Tables : u.coll = t.coll /\ u.free = t.coll[t.free].next
              => FreePath(u) /\ Spare(u) = Spare(t) \ {t.free}
<1> DEFINE ch == Walk(t, t.free)
<1>1. PICK n \in Nat : IsPath(t, t.free, n, ch)
  BY DEF FreePath
<1>2. Spare(t) = {ch[i] : i \in 1 .. n}
  BY <1>1, PathDomain DEF Spare
<1> HIDE DEF ch
<1>3. n >= 1 /\ t.free = ch[1] /\ ch \in [1 .. n -> Link]
  BY <1>1 DEF IsPath, After
<1>4. ASSUME NEW u \in Tables, u.coll = t.coll, u.free = t.coll[t.free].next
      PROVE  FreePath(u) /\ Spare(u) = Spare(t) \ {t.free}
  <2> DEFINE m == n - 1
             dh == [i \in 1 .. m |-> ch[i + 1]]
  <2>1. m \in Nat /\ n = m + 1
    BY <1>3
  <2>2. IsPath(u, u.free, m, dh)
    <3>1. dh \in [1 .. m -> Link]
      BY <1>3, <2>1
    <3>2. ASSUME NEW i \in 1 .. m PROVE dh[i] = ch[i + 1] /\ i + 1 \in 1 .. n
      BY <2>1
    <3>3. u.free = After(dh, m, 1)
      <4>1. u.free = After(ch, n, 2)
        BY <1>1, <1>3, <1>4 DEF IsPath
      <4>2. QED
        BY <2>1, <3>2, <4>1 DEF After
    <3>4. ASSUME NEW i \in 1 .. m PROVE u.coll[dh[i]].next = After(dh, m, i + 1)
      <4>1. u.coll[dh[i]].next = After(ch, n, (i + 1) + 1)
        BY <1>1, <1>4, <3>2 DEF IsPath
      <4>2. QED
        BY <2>1, <3>2, <4>1 DEF After
    <3>5. ASSUME NEW i \in 1 .. m, NEW j \in 1 .. m, dh[i] = dh[j] PROVE i = j
      <4>1. i + 1 = j + 1
        BY <1>1, <3>2, <3>5 DEF IsPath
      <4>2. QED
        BY <4>1
    <3> HIDE DEF dh, m
    <3>6. QED
      BY <2>1, <3>1, <3>3, <3>4, <3>5 DEF IsPath
  <2>3. {dh[i] : i \in 1 .. m} = {ch[i] : i \in 1 .. n} \ {ch[1]}
    <3>1. ASSUME NEW i \in 1 .. m PROVE dh[i] \in {ch[j] : j \in 1 .. n} \ {ch[1]}
      <4>1. i + 1 \in 1 .. n /\ 1 \in 1 .. n /\ i + 1 # 1
        BY <2>1
      <4>2. dh[i] = ch[i + 1] /\ ch[i + 1] # ch[1]
        BY <1>1, <4>1 DEF IsPath
      <4>3. QED
        BY <4>1, <4>2
    <3>2. ASSUME NEW j \in 1 .. n, ch[j] # ch[1] PROVE ch[j] \in {dh[i] : i \in 1 .. m}
      <4>1. j - 1 \in 1 .. m /\ (j - 1) + 1 = j
        BY <2>1, <3>2
      <4>2. ch[j] = dh[j - 1]
        BY <4>1
      <4>3. QED
        BY <4>1, <4>2
    <3>3. QED
      BY <3>1, <3>2
  <2> HIDE DEF dh, m
  <2>4. FreePath(u) /\ \A x : x \in Spare(u) <=> \E i \in 1 .. m : x = dh[i]
    BY <1>4, <2>1, <2>2, FreeFrom
  <2>5. QED
    BY <1>2, <1>3, <2>3, <2>4
<1>5. QED
  BY <1>2, <1>3, <1>4

\* u is t once link l was handed out.
Handed(t, u, l) ==
  /\ l \in Link /\ \A b \in Bucket : Ch(u, b) = Ch(t, b) /\ l \notin Ch(t, b)
  /\ u.main = t.main /\ u.coll = t.coll /\ u.big = t.big /\ u.cnt = t.cnt /\ u.min = t.min
  /\ u.disabled = t.disabled

\* GetLink hands out a link that nobody has.
LEMMA GetLinkTakes ==
  ASSUME NEW t, NEW X, LinkInv(t, X), ~t.disabled, NEW l, l = GetLink(t).link, NEW u, u = GetLink(t).t
  PROVE  \/ l = 0 /\ u = disablegc1(t)
         \/ l # 0 /\ l \notin X /\ LinkInv(u, X \cup {l}) /\ Handed(t, u, l)
<1>1. t \in Tables /\ FreePath(t) /\ HTCOLLMAX \in Nat /\ t.hwm \in 1 .. HTCOLLMAX + 1
  BY TableAssumption DEF LinkInv, Paths, Tables
<1>2. CASE t.free # 0
  <2>1. l = t.free /\ u = [t EXCEPT !.free = t.coll[t.free].next]
    BY <1>2 DEF GetLink
  <2>2. l \in Spare(t) /\ l \in Link
    BY <1>1, <1>2, <2>1, FreeHead
  <2>3. t.coll[l].next \in 0 .. HTCOLLMAX
    BY <2>2, <1>1, TableNexts DEF Nexts
  <2>4. /\ u \in Tables /\ u.main = t.main /\ u.coll = t.coll /\ u.big = t.big /\ u.cnt = t.cnt /\ u.min = t.min
        /\ u.disabled = t.disabled /\ u.hwm = t.hwm /\ u.free = t.coll[l].next
    BY <1>1, <2>1, <2>3 DEF Tables
  <2>5. FreePath(u) /\ Spare(u) = Spare(t) \ {l}
    <3>1. \A v \in Tables : v.coll = t.coll /\ v.free = t.coll[t.free].next
                            => FreePath(v) /\ Spare(v) = Spare(t) \ {t.free}
      BY <1>1, <1>2, FreeHead
    <3>2. QED
      BY <2>1, <2>4, <3>1
  <2>6. \A b \in Bucket : Chain(u, b) = Chain(t, b) /\ ChainPath(u, b) /\ Ch(u, b) = Ch(t, b)
    BY <1>1, <2>4, ChainKept DEF LinkInv, Paths
  <2>7. l # 0
    BY <1>2, <2>1
  <2>8. Apart(u, X \cup {l}) /\ l \notin X /\ \A b \in Bucket : l \notin Ch(t, b)
    BY <2>2, <2>4, <2>5, <2>6 DEF LinkInv, Apart
  <2>9. Accounted(u, X \cup {l})
    BY <2>2, <2>4, <2>5, <2>6 DEF LinkInv, Accounted
  <2>10. QED
    BY <2>2, <2>4, <2>5, <2>6, <2>7, <2>8, <2>9 DEF LinkInv, Paths, Handed
<1>3. CASE t.free = 0 /\ t.hwm > HTCOLLMAX
  BY <1>3 DEF GetLink
<1>4. CASE t.free = 0 /\ ~(t.hwm > HTCOLLMAX)
  <2>1. l = t.hwm /\ u = [t EXCEPT !.hwm = @ + 1]
    BY <1>4 DEF GetLink, NextFresh
  <2>2. l \in Link /\ l # 0 /\ l + 1 \in 1 .. HTCOLLMAX + 1 /\ 1 .. l = (1 .. l - 1) \cup {l} /\ l \notin 1 .. l - 1
    BY <1>1, <1>4, <2>1 DEF Link
  <2>3. /\ u \in Tables /\ u.main = t.main /\ u.coll = t.coll /\ u.big = t.big /\ u.cnt = t.cnt /\ u.min = t.min
        /\ u.disabled = t.disabled /\ u.hwm = l + 1 /\ u.free = t.free
    BY <1>1, <2>1, <2>2 DEF Tables
  <2>4. FreePath(u) /\ Spare(u) = Spare(t)
    BY <1>1, <2>3, FreeKept
  <2>5. \A b \in Bucket : Chain(u, b) = Chain(t, b) /\ ChainPath(u, b) /\ Ch(u, b) = Ch(t, b)
    BY <1>1, <2>3, ChainKept DEF LinkInv, Paths
  <2>6. 1 .. u.hwm - 1 = (1 .. t.hwm - 1) \cup {l}
    BY <2>1, <2>2, <2>3
  <2>7. l \notin X /\ l \notin Spare(t) /\ \A b \in Bucket : l \notin Ch(t, b)
    BY <2>1, <2>2 DEF LinkInv, Apart
  <2>8. Apart(u, X \cup {l})
    BY <2>4, <2>5, <2>6, <2>7 DEF LinkInv, Apart
  <2>9. Accounted(u, X \cup {l})
    BY <2>3, <2>4, <2>5, <2>6 DEF LinkInv, Accounted
  <2>10. QED
    BY <2>2, <2>3, <2>4, <2>5, <2>7, <2>8, <2>9 DEF LinkInv, Paths, Handed
<1>5. QED
  BY <1>2, <1>3, <1>4

\* The links of S, n of them, are those reached from h.
Reach(t, h, n, S) == \E ch : IsPath(t, h, n, ch) /\ \A x : x \in S <=> \E i \in 1 .. n : x = ch[i]

LEMMA ReachBy ==
  ASSUME NEW t, NEW h, NEW n, NEW ch, IsPath(t, h, n, ch), NEW S, \A x : x \in S <=> \E i \in 1 .. n : x = ch[i]
  PROVE  Reach(t, h, n, S)
BY Zenon DEF Reach

\* A path grows at its head.
LEMMA PathPush ==
  ASSUME NEW t, NEW u, NEW h, NEW n \in Nat, NEW ch, IsPath(t, h, n, ch), NEW l \in Link,
         \A i \in 1 .. n : l # ch[i] /\ u.coll[ch[i]].next = t.coll[ch[i]].next, u.coll[l].next = h, l # 0,
         NEW S, \A x : x \in S <=> (x = l \/ \E i \in 1 .. n : x = ch[i])
  PROVE  Reach(u, l, n + 1, S)
<1> DEFINE m == n + 1
           dh == [i \in 1 .. m |-> IF i = 1 THEN l ELSE ch[i - 1]]
<1>1. \A i \in 1 .. n : ch[i] \in Link
  BY DEF IsPath
<1>2. m \in Nat \ {0} /\ dh \in [1 .. m -> Link] /\ dh[1] = l /\ 1 \in 1 .. m
  BY <1>1
<1>3. ASSUME NEW i \in 1 .. n PROVE i + 1 \in 1 .. m /\ dh[i + 1] = ch[i] /\ ch[i] # l
  OBVIOUS
<1>4. ASSUME NEW i \in 1 .. m, i # 1 PROVE i - 1 \in 1 .. n /\ dh[i] = ch[i - 1]
  BY <1>4
<1>5. l = After(dh, m, 1)
  BY <1>2 DEF After
<1>6. ASSUME NEW i \in 1 .. m PROVE u.coll[dh[i]].next = After(dh, m, i + 1)
  <2>1. CASE i = 1
    <3>1. u.coll[dh[i]].next = After(ch, n, 1)
      BY <1>2, <2>1 DEF IsPath
    <3>2. QED
      BY <2>1, <3>1 DEF After
  <2>2. CASE i # 1
    <3> DEFINE j == i - 1
    <3>1. j \in 1 .. n /\ dh[i] = ch[j] /\ i = j + 1
      BY <1>4, <2>2
    <3> HIDE DEF j
    <3>2. u.coll[dh[i]].next = After(ch, n, j + 1)
      BY <3>1 DEF IsPath
    <3>3. After(ch, n, j + 1) = After(dh, m, i + 1)
      BY <1>3, <3>1 DEF After
    <3>4. QED
      BY <3>2, <3>3
  <2>3. QED
    BY <2>1, <2>2
<1>7. ASSUME NEW i \in 1 .. m, NEW j \in 1 .. m, dh[i] = dh[j] PROVE i = j
  <2>1. CASE i = 1 \/ j = 1
    BY <1>2, <1>3, <1>4, <1>7, <2>1
  <2>2. CASE i # 1 /\ j # 1
    <3>1. i - 1 = j - 1
      BY <1>4, <1>7, <2>2 DEF IsPath
    <3>2. QED
      BY <3>1
  <2>3. QED
    BY <2>1, <2>2
<1> HIDE DEF dh, m
<1>8. IsPath(u, l, m, dh)
  BY <1>2, <1>5, <1>6, <1>7 DEF IsPath
<1>9. ASSUME NEW x PROVE (\E i \in 1 .. m : x = dh[i]) <=> (x = l \/ \E i \in 1 .. n : x = ch[i])
  <2>1. ASSUME NEW i \in 1 .. m, x = dh[i], x # l PROVE \E j \in 1 .. n : x = ch[j]
    BY <1>2, <1>4, <2>1
  <2>2. ASSUME NEW i \in 1 .. n, x = ch[i] PROVE \E j \in 1 .. m : x = dh[j]
    BY <1>3, <2>2
  <2>3. QED
    BY <1>2, <2>1, <2>2
<1>10. \A x : x \in S <=> \E i \in 1 .. m : x = dh[i]
  BY <1>9
<1>11. Reach(u, l, m, S)
  BY <1>8, <1>10, ReachBy, Zenon
<1>12. QED
  BY <1>11 DEF m

\* Link i of a path is passed by, and S is what the path keeps.
Bypassed(t, u, n, ch, i, S) ==
  /\ i # 1 => u.coll[ch[i - 1]].next = t.coll[ch[i]].next
  /\ \A j \in 1 .. n : j # i /\ j # i - 1 => u.coll[ch[j]].next = t.coll[ch[j]].next
  /\ \A x : x \in S <=> (x # ch[i] /\ \E j \in 1 .. n : x = ch[j])

\* A link is bypassed: the head moves on, or the link before points past it.
LEMMA PathCut ==
  ASSUME NEW t, NEW u, NEW h, NEW n \in Nat, NEW ch, IsPath(t, h, n, ch), NEW i \in 1 .. n,
         NEW S, Bypassed(t, u, n, ch, i, S), NEW g, g = IF i = 1 THEN t.coll[ch[i]].next ELSE h,
         NEW m, m = n - 1
  PROVE  Reach(u, g, m, S)
<1> USE DEF Bypassed
<1> DEFINE dh == [j \in 1 .. m |-> IF j < i THEN ch[j] ELSE ch[j + 1]]
<1>1. m \in Nat /\ n = m + 1 /\ ch \in [1 .. n -> Link] /\ \A j \in 1 .. n : ch[j] \in Link
  <2>1. m \in Nat /\ n = m + 1
    OBVIOUS
  <2>2. ch \in [1 .. n -> Link]
    BY DEF IsPath
  <2>3. QED
    BY <2>1, <2>2
<1>2. ASSUME NEW j \in 1 .. m PROVE /\ j < i => j \in 1 .. n /\ dh[j] = ch[j]
                                    /\ ~(j < i) => j + 1 \in 1 .. n /\ dh[j] = ch[j + 1]
  BY <1>1
<1>3. dh \in [1 .. m -> Link]
  BY <1>1
<1>4. g = After(dh, m, 1)
  <2>1. CASE i = 1
    <3>1. g = After(ch, n, 2)
      BY <2>1 DEF IsPath
    <3>2. QED
      BY <1>1, <1>2, <2>1, <3>1 DEF After
  <2>2. CASE i # 1
    <3>1. g = After(ch, n, 1)
      BY <2>2 DEF IsPath
    <3>2. QED
      BY <1>1, <1>2, <2>2, <3>1 DEF After
  <2>3. QED
    BY <2>1, <2>2
<1>5. ASSUME NEW j \in 1 .. m PROVE u.coll[dh[j]].next = After(dh, m, j + 1)
  <2>1. CASE j < i - 1
    <3>1. u.coll[dh[j]].next = After(ch, n, j + 1)
      BY <1>1, <1>2, <2>1 DEF IsPath
    <3>2. j + 1 \in 1 .. m /\ j + 1 < i
      BY <1>1, <2>1
    <3>3. QED
      BY <1>1, <1>2, <3>1, <3>2 DEF After
  <2>2. CASE j = i - 1
    <3>1. u.coll[dh[j]].next = After(ch, n, i + 1)
      BY <1>1, <1>2, <2>2 DEF IsPath
    <3>2. ~(j + 1 < i)
      BY <2>2
    <3>3. j + 1 \in 1 .. m => dh[j + 1] = ch[i + 1]
      BY <1>2, <2>2, <3>2
    <3>4. QED
      BY <1>1, <2>2, <3>1, <3>3 DEF After
  <2>3. CASE ~(j < i)
    <3>1. u.coll[dh[j]].next = After(ch, n, (j + 1) + 1)
      BY <1>1, <1>2, <2>3 DEF IsPath
    <3>2. j + 1 \in 1 .. m => dh[j + 1] = ch[(j + 1) + 1]
      BY <1>2, <2>3
    <3>3. QED
      BY <1>1, <3>1, <3>2 DEF After
  <2>4. QED
    BY <2>1, <2>2, <2>3
<1>6. ASSUME NEW j \in 1 .. m, NEW k \in 1 .. m, dh[j] = dh[k] PROVE j = k
  <2> DEFINE a == IF j < i THEN j ELSE j + 1
             c == IF k < i THEN k ELSE k + 1
  <2>1. a \in 1 .. n /\ c \in 1 .. n /\ dh[j] = ch[a] /\ dh[k] = ch[c]
    BY <1>2
  <2> HIDE DEF dh
  <2>2. a = c
    <3>1. \A x, y \in 1 .. n : ch[x] = ch[y] => x = y
      BY DEF IsPath
    <3>2. ch[a] = ch[c]
      BY <1>6, <2>1
    <3> HIDE DEF a, c
    <3>3. QED
      BY <2>1, <3>1, <3>2
  <2>3. QED
    BY <2>2
<1>7. ASSUME NEW x PROVE (\E j \in 1 .. m : x = dh[j]) <=> (x # ch[i] /\ \E j \in 1 .. n : x = ch[j])
  <2>1. ASSUME NEW j \in 1 .. m, x = dh[j] PROVE x # ch[i] /\ \E k \in 1 .. n : x = ch[k]
    <3> DEFINE a == IF j < i THEN j ELSE j + 1
    <3>1. a \in 1 .. n /\ dh[j] = ch[a] /\ a # i
      BY <1>2
    <3> HIDE DEF a, dh
    <3>2. QED
      BY <2>1, <3>1 DEF IsPath
  <2>2. ASSUME NEW j \in 1 .. n, x = ch[j], j # i PROVE \E k \in 1 .. m : x = dh[k]
    <3> DEFINE a == IF j < i THEN j ELSE j - 1
    <3>1. a \in 1 .. m /\ dh[a] = ch[j]
      BY <1>1, <2>2
    <3> HIDE DEF a, dh
    <3>2. QED
      BY <2>2, <3>1
  <2>3. QED
    BY <2>1, <2>2
<1> HIDE DEF dh
<1>8. IsPath(u, g, m, dh)
  BY <1>1, <1>3, <1>4, <1>5, <1>6 DEF IsPath
<1>9. ASSUME NEW x PROVE x \in S <=> \E j \in 1 .. m : x = dh[j]
  <2>1. x \in S <=> (x # ch[i] /\ \E j \in 1 .. n : x = ch[j])
    OBVIOUS
  <2>2. QED
    BY <1>7, <2>1, Zenon
<1>10. QED
  BY <1>8, <1>9, ReachBy

\* Link l goes in front of the links T reached from h, which makes S.
Joins(t, u, h, T, l, S) ==
  /\ l \in Link /\ l # 0 /\ u.coll[l].next = h
  /\ \A k \in T : k # l /\ u.coll[k].next = t.coll[k].next
  /\ \A x : x \in S <=> x = l \/ x \in T

LEMMA ReachPush ==
  ASSUME NEW t, NEW u, NEW h, NEW n \in Nat, NEW T, Reach(t, h, n, T), NEW l, NEW S, Joins(t, u, h, T, l, S),
         NEW m, m = n + 1
  PROVE  Reach(u, l, m, S)
<1>1. PICK ch : IsPath(t, h, n, ch) /\ \A x : x \in T <=> \E i \in 1 .. n : x = ch[i]
  BY DEF Reach
<1>2. \A x : x \in S <=> (x = l \/ \E i \in 1 .. n : x = ch[i])
  BY <1>1 DEF Joins
<1>3. \A i \in 1 .. n : l # ch[i] /\ u.coll[ch[i]].next = t.coll[ch[i]].next
  BY <1>1 DEF Joins
<1>6. l \in Link /\ l # 0 /\ u.coll[l].next = h
  BY DEF Joins
<1>4. Reach(u, l, n + 1, S)
  BY <1>1, <1>2, <1>3, <1>6, PathPush
<1>5. QED
  BY <1>4

LEMMA PathNil ==
  ASSUME NEW t
  PROVE  IsPath(t, 0, 0, <<>>)
BY DEF IsPath, After

ChainIs(u, b, S) == ChainPath(u, b) /\ Ch(u, b) = S

\* What Reach says about a chain and about the free list.
LEMMA ChainReach ==
  ASSUME NEW u \in Tables, NEW b \in Bucket, u.main[b].tag = "link", NEW n, n # 0, NEW S,
         Reach(u, u.main[b].link, n, S)
  PROVE  ChainIs(u, b, S)
<1>1. PICK ch : IsPath(u, u.main[b].link, n, ch) /\ \A x : x \in S <=> \E i \in 1 .. n : x = ch[i]
  BY DEF Reach
<1>2. n \in Nat \ {0}
  BY <1>1 DEF IsPath
<1>3. ChainPath(u, b) /\ Ch(u, b) = {ch[i] : i \in 1 .. n}
  BY <1>1, <1>2, ChainFrom
<1>4. QED
  BY <1>1, <1>3 DEF ChainIs

LEMMA ChainReaches ==
  ASSUME NEW t, NEW b, ChainPath(t, b), t.main[b].tag = "link"
  PROVE  \E n \in Nat \ {0} : Reach(t, t.main[b].link, n, Ch(t, b))
<1>1. PICK n \in Nat \ {0} : IsPath(t, t.main[b].link, n, Chain(t, b))
  BY DEF ChainPath
<1> DEFINE ch == Chain(t, b)
           S == Ch(t, b)
<1>2. IsPath(t, t.main[b].link, n, ch) /\ \A x : x \in S <=> \E i \in 1 .. n : x = ch[i]
  BY <1>1, PathDomain DEF Ch
<1> HIDE DEF ch, S
<1>3. Reach(t, t.main[b].link, n, S)
  BY <1>2, ReachBy
<1>4. QED
  BY <1>3 DEF S

LEMMA FreeReaches ==
  ASSUME NEW t, FreePath(t)
  PROVE  \E n \in Nat : Reach(t, t.free, n, Spare(t))
<1>1. PICK n \in Nat : IsPath(t, t.free, n, Walk(t, t.free))
  BY DEF FreePath
<1> DEFINE ch == Walk(t, t.free)
           S == Spare(t)
<1>2. IsPath(t, t.free, n, ch) /\ \A x : x \in S <=> \E i \in 1 .. n : x = ch[i]
  BY <1>1, PathDomain DEF Spare
<1> HIDE DEF ch, S
<1>3. Reach(t, t.free, n, S)
  BY <1>2, ReachBy
<1>4. QED
  BY <1>3 DEF S

LEMMA FreeReach ==
  ASSUME NEW u \in Tables, NEW n, NEW S, Reach(u, u.free, n, S)
  PROVE  FreePath(u) /\ Spare(u) = S
<1>1. PICK ch : IsPath(u, u.free, n, ch) /\ \A x : x \in S <=> \E i \in 1 .. n : x = ch[i]
  BY DEF Reach
<1>2. n \in Nat
  BY <1>1 DEF IsPath
<1>3. FreePath(u) /\ \A x : x \in Spare(u) <=> \E i \in 1 .. n : x = ch[i]
  BY <1>1, <1>2, FreeFrom
<1>4. QED
  BY <1>1, <1>3

\* FreeLink puts a link that is out back on the list.
LEMMA FreeLinkPuts ==
  ASSUME NEW t, NEW X, LinkInv(t, X), NEW l \in X, NEW u, u = FreeLink(t, l)
  PROVE  /\ LinkInv(u, X \ {l}) /\ \A b \in Bucket : Ch(u, b) = Ch(t, b) /\ Chain(u, b) = Chain(t, b)
         /\ u.main = t.main /\ u.big = t.big /\ u.cnt = t.cnt /\ u.min = t.min
         /\ u.disabled = t.disabled /\ u.hwm = t.hwm /\ \A k \in Link : k # l => u.coll[k] = t.coll[k]
<1>1. t \in Tables /\ FreePath(t) /\ HTCOLLMAX \in Nat /\ t.hwm \in 1 .. HTCOLLMAX + 1 /\ t.free \in 0 .. HTCOLLMAX
  BY TableAssumption DEF LinkInv, Paths, Tables
<1>2. l \in Link /\ l # 0 /\ l \in 0 .. HTCOLLMAX /\ l \notin Spare(t) /\ \A b \in Bucket : l \notin Ch(t, b)
  BY <1>1 DEF LinkInv, Apart, Link
<1> DEFINE c == [word |-> Empty, next |-> t.free]
<1>3. c \in Cell /\ c.next = t.free
  BY <1>1 DEF Cell, Word
<1>4. u = [t EXCEPT !.coll[l] = c, !.free = l]
  BY DEF FreeLink
<1> HIDE DEF c
<1>5. /\ u \in Tables /\ u.main = t.main /\ u.big = t.big /\ u.cnt = t.cnt /\ u.min = t.min
      /\ u.disabled = t.disabled /\ u.hwm = t.hwm /\ u.free = l /\ u.coll[l] = c
      /\ \A k \in Link : k # l => u.coll[k] = t.coll[k]
  <2>1. [t.coll EXCEPT ![l] = c] \in [Link -> Cell]
    BY <1>1, <1>2, <1>3 DEF Tables
  <2>2. u = [t EXCEPT !.coll = [t.coll EXCEPT ![l] = c], !.free = l]
    BY <1>4
  <2>3. u \in Tables
    BY <1>1, <1>2, <2>1, <2>2 DEF Tables
  <2>4. QED
    BY <1>1, <1>2, <2>2, <2>3 DEF Tables
<1>6. ASSUME NEW b \in Bucket PROVE Chain(u, b) = Chain(t, b) /\ ChainPath(u, b) /\ Ch(u, b) = Ch(t, b)
  <2>1. Ch(t, b) \subseteq Link
    BY <1>1 DEF LinkInv, Apart, Link
  <2>2. \A k \in Ch(t, b) : u.coll[k].next = t.coll[k].next
    BY <1>2, <1>5, <2>1
  <2>3. QED
    BY <1>1, <1>5, <2>2, ChainKept DEF LinkInv, Paths
<1>7. FreePath(u) /\ Spare(u) = Spare(t) \cup {l}
  <2>1. PICK n \in Nat : Reach(t, t.free, n, Spare(t))
    BY <1>1, FreeReaches
  <2>2. Spare(t) \subseteq Link
    BY <1>1 DEF LinkInv, Apart, Link
  <2>3. \A k \in Spare(t) : k # l /\ u.coll[k].next = t.coll[k].next
    BY <1>2, <1>5, <2>2
  <2>4. u.coll[l].next = t.free /\ l \in Link /\ l # 0
    BY <1>2, <1>3, <1>5
  <2>5. PICK m \in Nat : m = n + 1
    OBVIOUS
  <2> DEFINE S == Spare(t) \cup {l}
  <2>6. Reach(u, l, m, S)
    <3>1. Joins(t, u, t.free, Spare(t), l, S)
      BY <2>3, <2>4 DEF Joins
    <3> HIDE DEF S
    <3>2. QED
      BY <2>1, <2>5, <3>1, ReachPush
  <2>7. QED
    BY <1>5, <2>6, FreeReach
<1>8. Apart(u, X \ {l})
  BY <1>2, <1>5, <1>6, <1>7 DEF LinkInv, Apart
<1>9. Accounted(u, X \ {l})
  BY <1>5, <1>6, <1>7 DEF LinkInv, Accounted
<1>10. QED
  BY <1>5, <1>6, <1>7, <1>8, <1>9 DEF LinkInv, Paths

\* Only bucket b changes, and the links it gains or loses are those of X and Y.
Edits(t, X, u, Y, b) ==
  /\ u \in Tables /\ u.hwm = t.hwm /\ u.disabled = t.disabled /\ u.free = t.free
  /\ \A c \in Bucket : c # b => u.main[c] = t.main[c]
  /\ \A l \in Link : l \notin Ch(t, b) \cup X => u.coll[l].next = t.coll[l].next
  /\ ChainPath(u, b) /\ Ch(u, b) \cup Y = Ch(t, b) \cup X /\ Ch(u, b) \cap Y = {}

ElsewhereCh(t, u, b) == \A c \in Bucket : c # b => Ch(u, c) = Ch(t, c)

LEMMA BucketEdit ==
  ASSUME NEW t, NEW X, LinkInv(t, X), NEW u, NEW Y, NEW b \in Bucket, Edits(t, X, u, Y, b)
  PROVE  LinkInv(u, Y) /\ ElsewhereCh(t, u, b)
<1> USE DEF Edits
<1>1. t \in Tables /\ FreePath(t) /\ \A c \in Bucket : ChainPath(t, c)
  BY DEF LinkInv, Paths
<1>2. Spare(t) \subseteq Link /\ \A c \in Bucket : Ch(t, c) \subseteq Link
  BY <1>1, TableAssumption DEF LinkInv, Apart, Tables, Link
<1>3. ASSUME NEW c \in Bucket, c # b
      PROVE  Chain(u, c) = Chain(t, c) /\ ChainPath(u, c) /\ Ch(u, c) = Ch(t, c)
  <2>1. \A l \in Ch(t, c) : u.coll[l].next = t.coll[l].next
    BY <1>2, <1>3 DEF LinkInv, Apart
  <2>2. QED
    BY <1>1, <1>3, <2>1, ChainKept
<1>4. FreePath(u) /\ Spare(u) = Spare(t)
  <2>1. \A l \in Spare(t) : u.coll[l].next = t.coll[l].next
    BY <1>2 DEF LinkInv, Apart
  <2>2. QED
    BY <1>1, <2>1, FreeKept
<1>5. Apart(u, Y)
  <2>1. \A c, d \in Bucket : c # d => Ch(u, c) \cap Ch(u, d) = {}
    BY <1>3 DEF LinkInv, Apart
  <2>2. \A c \in Bucket : Ch(u, c) \cap (Spare(u) \cup Y) = {}
    BY <1>3, <1>4 DEF LinkInv, Apart
  <2>3. \A c \in Bucket : Ch(u, c) \subseteq 1 .. u.hwm - 1
    BY <1>3 DEF LinkInv, Apart
  <2>4. Spare(u) \cap Y = {} /\ Spare(u) \cup Y \subseteq 1 .. u.hwm - 1
    BY <1>4 DEF LinkInv, Apart
  <2>5. QED
    BY <2>1, <2>2, <2>3, <2>4 DEF Apart
<1>6. Accounted(u, Y)
  BY <1>3, <1>4 DEF LinkInv, Accounted
<1>7. QED
  BY <1>1, <1>3, <1>4, <1>5, <1>6 DEF LinkInv, Paths, ElsewhereCh

\* Counters and overflow slots have no part in this.
LEMMA CountersEdit ==
  ASSUME NEW t, NEW X, LinkInv(t, X), NEW u \in Tables,
         u.hwm = t.hwm, u.free = t.free, u.main = t.main, u.coll = t.coll, t.disabled => u.disabled
  PROVE  LinkInv(u, X) /\ \A c \in Bucket : Ch(u, c) = Ch(t, c) /\ Chain(u, c) = Chain(t, c)
<1>1. t \in Tables /\ FreePath(t) /\ \A c \in Bucket : ChainPath(t, c)
  BY DEF LinkInv, Paths
<1>2. FreePath(u) /\ Spare(u) = Spare(t)
  BY <1>1, FreeKept
<1>3. \A c \in Bucket : Chain(u, c) = Chain(t, c) /\ ChainPath(u, c) /\ Ch(u, c) = Ch(t, c)
  BY <1>1, ChainKept
<1>4. QED
  BY <1>1, <1>2, <1>3 DEF LinkInv, Paths, Apart, Accounted

-----------------------------------------------------------------------------
(* What the words of a bucket say.                                         *)

Words(t, b) ==
  IF t.main[b].tag = "link" THEN {t.coll[l].word : l \in Ch(t, b)}
  ELSE IF t.main[b].tag = "entry" THEN {t.main[b]} ELSE {}

\* A chain has two links or more; no two of its words are about one pointer.
ChainOK(t, b) ==
  t.main[b].tag = "link" =>
    /\ \E l, k \in Ch(t, b) : l # k
    /\ \A l, k \in Ch(t, b) : t.coll[l].word.ptr = t.coll[k].word.ptr => l = k
WordOK(w, b) == w \in EntryWord /\ Hash[w.ptr] = b /\ ~NeedsNoEntry(w.count, w.stk)
BucketOK(t, b) == ChainOK(t, b) /\ \A w \in Words(t, b) : WordOK(w, b)

\* Everything but the overflow slots; X as in LinkInv.
Core(t, X) == LinkInv(t, X) /\ \A b \in Bucket : BucketOK(t, b)

\* The word about p, as a set of one or none.
At(t, p) == {w \in Words(t, Hash[p]) : w.ptr = p}

SameBucket(t, u, c) ==
  u.main[c] = t.main[c] /\ Ch(u, c) = Ch(t, c) /\ \A l \in Ch(t, c) : u.coll[l].word = t.coll[l].word

Elsewhere(t, u, b) == \A c \in Bucket : c # b => SameBucket(t, u, c)

LEMMA SameBucketWords ==
  ASSUME NEW t, NEW u, NEW c, SameBucket(t, u, c)
  PROVE  Words(u, c) = Words(t, c) /\ (BucketOK(t, c) => BucketOK(u, c))
<1>1. Words(u, c) = Words(t, c)
  BY DEF SameBucket, Words
<1>2. QED
  BY <1>1 DEF SameBucket, BucketOK, ChainOK

LEMMA AtOne ==
  ASSUME NEW t, NEW b \in Bucket, BucketOK(t, b), NEW v \in Words(t, b), NEW w \in Words(t, b), v.ptr = w.ptr
  PROVE  v = w
BY DEF BucketOK, ChainOK, Words

LEMMA TagsApart ==
  /\ Empty \in Word /\ Empty.tag = "empty"
  /\ \A w \in EntryWord : w \in Word /\ w.tag = "entry"
  /\ \A l \in 0 .. HTCOLLMAX : LinkWord(l) \in Word /\ LinkWord(l).tag = "link" /\ LinkWord(l).link = l
  /\ \A w \in Word : /\ w.tag \in {"empty", "entry", "link"}
                     /\ w.tag = "entry" => w \in EntryWord
                     /\ w.tag = "link" => w.link \in 0 .. HTCOLLMAX
                     /\ w.tag = "empty" => w = Empty
BY DEF Empty, EntryWord, Word, LinkWord

\* The words of bucket b that are not about p stay; those about p are now in S.
Reworded(t, u, b, p, S) ==
  /\ \A w \in S : w.ptr = p
  /\ \A w : w \in Words(u, b) <=> (w \in S \/ (w \in Words(t, b) /\ w.ptr # p))

\* Afterwards the words about p are S, and those about the others are what they were.
Now(t, u, p, S) == At(u, p) = S /\ \A q \in Ptr : q # p => At(u, q) = At(t, q)

\* An edit of bucket b after which p's word is the one in S, and nothing else.
LEMMA EntryEdit ==
  ASSUME NEW t, NEW X, Core(t, X), NEW u, NEW Y, LinkInv(u, Y), NEW p \in Ptr, NEW b, b = Hash[p],
         Elsewhere(t, u, b), BucketOK(u, b),
         NEW S, Reworded(t, u, b, p, S)
  PROVE  Core(u, Y) /\ Now(t, u, p, S)
<1>1. b \in Bucket /\ \A q \in Ptr : Hash[q] \in Bucket
  BY TableAssumption
<1>2. \A c \in Bucket : c # b => Words(u, c) = Words(t, c) /\ BucketOK(u, c)
  BY SameBucketWords DEF Core, Elsewhere
<1>3. At(u, p) = S
  BY DEF At, Reworded
<1>4. \A q \in Ptr : q # p => At(u, q) = At(t, q)
  <2>1. ASSUME NEW q \in Ptr, q # p, Hash[q] = b PROVE At(u, q) = At(t, q)
    BY <2>1 DEF At, Reworded
  <2>2. ASSUME NEW q \in Ptr, q # p, Hash[q] # b PROVE At(u, q) = At(t, q)
    BY <1>1, <1>2, <2>2 DEF At
  <2>3. QED
    BY <2>1, <2>2
<1>5. QED
  BY <1>2, <1>3, <1>4 DEF Core, Now

-----------------------------------------------------------------------------
(* Writing words.                                                          *)

Rest(t, u) == u.big = t.big /\ u.cnt = t.cnt /\ u.min = t.min /\ u.disabled = t.disabled

WordPlace(t, b, s) ==
  \/ s = Main(b) /\ t.main[b].tag = "entry"
  \/ t.main[b].tag = "link" /\ \E l \in Ch(t, b) : s = Coll(l)

LEMMA MainSet ==
  ASSUME NEW t, NEW X, LinkInv(t, X), NEW b \in Bucket, t.main[b].tag # "link",
         NEW w \in Word, w.tag # "link", NEW u, u = SetGC(t, Main(b), w)
  PROVE  /\ LinkInv(u, X) /\ Rest(t, u) /\ Elsewhere(t, u, b)
         /\ u.main[b] = w /\ ChainOK(u, b) /\ Words(u, b) = IF w.tag = "entry" THEN {w} ELSE {}
<1>1. u = [t EXCEPT !.main[b] = w]
  BY DEF SetGC, Main
<1>2. t \in Tables
  BY DEF LinkInv, Paths
<1>3. /\ u \in Tables /\ Rest(t, u) /\ u.hwm = t.hwm /\ u.free = t.free /\ u.coll = t.coll
      /\ u.main[b] = w /\ \A c \in Bucket : c # b => u.main[c] = t.main[c]
  BY <1>1, <1>2 DEF Tables, Rest
<1>4. Ch(t, b) = {} /\ ChainPath(u, b) /\ Ch(u, b) = {}
  BY <1>3, NoChain
<1>5. LinkInv(u, X) /\ \A c \in Bucket : c # b => Ch(u, c) = Ch(t, c)
  <2>1. Ch(u, b) \cap X = {} /\ Ch(u, b) \cup X = Ch(t, b) \cup X /\ u.disabled = t.disabled
    BY <1>3, <1>4 DEF Rest
  <2>2. \A l \in Link : l \notin Ch(t, b) \cup X => u.coll[l].next = t.coll[l].next
    BY <1>3
  <2>3. Edits(t, X, u, X, b)
    BY <1>3, <1>4, <2>1, <2>2 DEF Edits
  <2>4. QED
    BY <2>3, BucketEdit DEF ElsewhereCh
<1>6. QED
  BY <1>3, <1>5 DEF Elsewhere, SameBucket, ChainOK, Words

\* u is t with w in link l.
CollWritten(t, u, l, w) ==
  /\ Rest(t, u) /\ u.main = t.main /\ u.coll[l].word = w
  /\ \A k \in Link : u.coll[k].next = t.coll[k].next /\ (k # l => u.coll[k] = t.coll[k])
  /\ \A c \in Bucket : Ch(u, c) = Ch(t, c)

LEMMA CollSet ==
  ASSUME NEW t, NEW X, LinkInv(t, X), NEW l \in Link, NEW w \in Word, NEW u, u = SetGC(t, Coll(l), w)
  PROVE  LinkInv(u, X) /\ CollWritten(t, u, l, w)
<1>1. u = [t EXCEPT !.coll[l].word = w]
  BY DEF SetGC, Coll, Main
<1>2. t \in Tables /\ FreePath(t) /\ \A c \in Bucket : ChainPath(t, c)
  BY DEF LinkInv, Paths
<1>3. /\ u \in Tables /\ Rest(t, u) /\ u.hwm = t.hwm /\ u.free = t.free /\ u.main = t.main
      /\ u.coll[l].word = w /\ u.coll[l].next = t.coll[l].next /\ \A k \in Link : k # l => u.coll[k] = t.coll[k]
  <2> DEFINE c == [t.coll[l] EXCEPT !.word = w]
  <2>1. t.coll \in [Link -> Cell] /\ t.coll[l] \in Cell
    BY <1>2 DEF Tables
  <2>2. c \in Cell /\ c.word = w /\ c.next = t.coll[l].next
    BY <2>1 DEF Cell
  <2>3. u = [t EXCEPT !.coll[l] = c]
    BY <1>1
  <2> HIDE DEF c
  <2>4. u \in Tables /\ Rest(t, u) /\ u.hwm = t.hwm /\ u.free = t.free /\ u.main = t.main
    BY <1>2, <2>2, <2>3 DEF Tables, Rest
  <2>5. u.coll = [t.coll EXCEPT ![l] = c]
    BY <1>2, <2>3 DEF Tables
  <2>6. QED
    BY <2>1, <2>2, <2>4, <2>5
<1>4. Spare(t) \subseteq Link /\ \A c \in Bucket : Ch(t, c) \subseteq Link
  BY <1>2, TableAssumption DEF LinkInv, Apart, Tables, Link
<1>5. FreePath(u) /\ Spare(u) = Spare(t)
  <2>1. \A k \in Spare(t) : u.coll[k].next = t.coll[k].next
    BY <1>3, <1>4
  <2>2. QED
    BY <1>2, <1>3, <2>1, FreeKept
<1>6. ASSUME NEW c \in Bucket PROVE ChainPath(u, c) /\ Ch(u, c) = Ch(t, c)
  <2>1. \A k \in Ch(t, c) : u.coll[k].next = t.coll[k].next
    BY <1>3, <1>4
  <2>2. QED
    BY <1>2, <1>3, <2>1, ChainKept
<1>7. LinkInv(u, X)
  BY <1>3, <1>5, <1>6 DEF LinkInv, Paths, Apart, Accounted, Rest
<1>8. QED
  BY <1>3, <1>6, <1>7 DEF CollWritten

\* The word of a place is overwritten by another word about the same pointer.
LEMMA WordSet ==
  ASSUME NEW t, NEW X, Core(t, X), NEW p \in Ptr, NEW b, b = Hash[p], NEW s, WordPlace(t, b, s),
         GETGC(t, s).ptr = p, NEW w, WordOK(w, b), w.ptr = p, NEW u, u = SetGC(t, s, w)
  PROVE  /\ Core(u, X) /\ Now(t, u, p, {w})
         /\ Rest(t, u) /\ WordPlace(u, b, s) /\ GETGC(u, s) = w
<1>1. b \in Bucket /\ LinkInv(t, X) /\ BucketOK(t, b) /\ t \in Tables
  BY TableAssumption DEF Core, LinkInv, Paths
<1>2. w \in Word /\ w.tag = "entry"
  BY TagsApart DEF WordOK
<1>3. CASE s = Main(b) /\ t.main[b].tag = "entry"
  <2>1. /\ LinkInv(u, X) /\ Rest(t, u) /\ Elsewhere(t, u, b)
        /\ u.main[b] = w /\ ChainOK(u, b) /\ Words(u, b) = {w}
    BY <1>1, <1>2, <1>3, MainSet
  <2>2. {v \in Words(t, b) : v.ptr # p} = {}
    BY <1>3 DEF Words, GETGC, Main
  <2>3. BucketOK(u, b)
    BY <2>1 DEF BucketOK
  <2>4. Reworded(t, u, b, p, {w})
    BY <2>1, <2>2 DEF Reworded
  <2>5. QED
    BY <1>2, <1>3, <2>1, <2>3, <2>4, EntryEdit DEF WordPlace, GETGC, Main
<1>4. CASE t.main[b].tag = "link" /\ \E l \in Ch(t, b) : s = Coll(l)
  <2>1. PICK l \in Ch(t, b) : s = Coll(l)
    BY <1>4
  <2>2. Ch(t, b) \subseteq Link
    BY <1>1, TableAssumption DEF LinkInv, Apart, Tables, Link
  <2>3. t.coll[l].word.ptr = p
    BY <2>1 DEF GETGC, Coll
  <2>4. /\ LinkInv(u, X) /\ Rest(t, u) /\ u.main = t.main /\ u.coll[l].word = w
        /\ \A k \in Link : u.coll[k].next = t.coll[k].next /\ (k # l => u.coll[k] = t.coll[k])
        /\ \A c \in Bucket : Ch(u, c) = Ch(t, c)
    BY <1>1, <1>2, <2>1, <2>2, CollSet DEF CollWritten
  <2>5. Elsewhere(t, u, b)
    <3>1. ASSUME NEW c \in Bucket, c # b PROVE \A k \in Ch(t, c) : k \in Link /\ k # l
      BY <1>1, <3>1, TableAssumption DEF LinkInv, Apart, Tables, Link
    <3>2. QED
      BY <2>4, <3>1 DEF Elsewhere, SameBucket
  <2>6. \A k \in Ch(t, b) : k # l => t.coll[k].word.ptr # p
    BY <1>1, <1>4, <2>3 DEF BucketOK, ChainOK
  <2>7. Words(u, b) = {v \in Words(t, b) : v.ptr # p} \cup {w}
    <3>1. /\ \A x : x \in Words(u, b) <=> \E k \in Ch(t, b) : x = u.coll[k].word
          /\ \A x : x \in Words(t, b) <=> \E k \in Ch(t, b) : x = t.coll[k].word
      BY <1>1, <1>4, <2>4 DEF Words
    <3>2. \A k \in Ch(t, b) : k # l => u.coll[k].word = t.coll[k].word
      BY <2>2, <2>4
    <3>3. ASSUME NEW v \in Words(u, b) PROVE (v \in Words(t, b) /\ v.ptr # p) \/ v = w
      BY <2>4, <2>6, <3>1, <3>2
    <3>4. ASSUME NEW v \in Words(t, b), v.ptr # p PROVE v \in Words(u, b)
      BY <2>3, <3>1, <3>2, <3>4
    <3>5. w \in Words(u, b)
      BY <2>4, <3>1
    <3>6. QED
      BY <3>3, <3>4, <3>5
  <2>8. BucketOK(u, b)
    <3>1. \A v \in Words(u, b) : WordOK(v, b)
      BY <1>1, <2>7 DEF BucketOK
    <3>2. ChainOK(u, b)
      BY <1>1, <1>4, <2>2, <2>4, <2>6 DEF BucketOK, ChainOK
    <3>3. QED
      BY <3>1, <3>2 DEF BucketOK
  <2>9. WordPlace(u, b, s) /\ GETGC(u, s) = w
    BY <1>1, <1>4, <2>1, <2>4 DEF WordPlace, GETGC, Coll, Main
  <2>10. Core(u, X) /\ Now(t, u, p, {w})
    <3>1. Reworded(t, u, b, p, {w})
      BY <2>7 DEF Reworded
    <3>2. LinkInv(u, X)
      BY <2>4
    <3>3. QED
      BY <2>5, <2>8, <3>1, <3>2, EntryEdit
  <2>11. QED
    BY <2>4, <2>9, <2>10
<1>5. QED
  BY <1>3, <1>4 DEF WordPlace

\* The word of a place is the word about its pointer.
LEMMA PlaceAt ==
  ASSUME NEW t, NEW X, Core(t, X), NEW p \in Ptr, NEW s, WordPlace(t, Hash[p], s), GETGC(t, s).ptr = p
  PROVE  At(t, p) = {GETGC(t, s)} /\ WordOK(GETGC(t, s), Hash[p])
<1>1. Hash[p] \in Bucket /\ BucketOK(t, Hash[p])
  BY TableAssumption DEF Core
<1>2. GETGC(t, s) \in Words(t, Hash[p])
  BY DEF WordPlace, GETGC, Words, Main, Coll
<1>3. QED
  BY <1>1, <1>2, AtOne DEF At, BucketOK

-----------------------------------------------------------------------------
(* Taking a link out of a chain.                                           *)

LEMMA ChainLinks ==
  ASSUME NEW t, NEW X, LinkInv(t, X), NEW b \in Bucket
  PROVE  Ch(t, b) \subseteq Link /\ t \in Tables
BY TableAssumption DEF LinkInv, Paths, Apart, Tables, Link

LEMMA HeadOf ==
  ASSUME NEW t, NEW X, LinkInv(t, X), NEW b \in Bucket, t.main[b].tag = "link", NEW h, h = t.main[b].link
  PROVE  /\ h \in Ch(t, b) /\ h \in Link
         /\ t.coll[h].next = 0 => Ch(t, b) = {h}
         /\ t.coll[h].next # 0 => \E l, k \in Ch(t, b) : l # k
<1>1. PICK n \in Nat \ {0} : Reach(t, h, n, Ch(t, b))
  BY ChainReaches DEF LinkInv, Paths
<1>2. PICK ch : IsPath(t, h, n, ch) /\ \A x : x \in Ch(t, b) <=> \E i \in 1 .. n : x = ch[i]
  BY <1>1 DEF Reach
<1>3. 1 \in 1 .. n /\ h = ch[1] /\ ch[1] \in Link
  BY <1>2 DEF IsPath, After
<1>4. t.coll[h].next = After(ch, n, 2)
  BY <1>2, <1>3 DEF IsPath
<1>5. CASE n = 1
  BY <1>2, <1>3, <1>4, <1>5 DEF After
<1>6. CASE n # 1
  <2>1. 2 \in 1 .. n
    BY <1>6
  <2>2. ch[2] \in Link /\ ch[2] # 0 /\ ch[2] # ch[1]
    BY <1>2, <1>3, <2>1, TableAssumption DEF IsPath, Link
  <2>3. t.coll[h].next # 0
    BY <1>4, <2>1, <2>2 DEF After
  <2>4. QED
    BY <1>2, <1>3, <2>1, <2>2, <2>3
<1>7. QED
  BY <1>5, <1>6

\* u is t with link l cut out of the chain of bucket b.
CutFrom(t, u, b, l) ==
  /\ Rest(t, u) /\ u.main[b].tag = "link" /\ Ch(u, b) = Ch(t, b) \ {l}
  /\ \A k \in Link : u.coll[k].word = t.coll[k].word
  /\ \A c \in Bucket : c # b => Ch(u, c) = Ch(t, c) /\ u.main[c] = t.main[c]

\* u is t with w in HTmain[b], where a chain was.
Collapsed(t, u, b, w) ==
  /\ Rest(t, u) /\ u.main[b] = w /\ u.coll = t.coll
  /\ \A c \in Bucket : c # b => Ch(u, c) = Ch(t, c) /\ u.main[c] = t.main[c]

\* The first half of Unlink.
CutAt(t, l, prev, b) ==
  IF prev # 0 THEN [t EXCEPT !.coll[prev].next = t.coll[l].next]
  ELSE [t EXCEPT !.main[b] = LinkWord(t.coll[l].next)]

LEMMA CutOut ==
  ASSUME NEW t, NEW X, LinkInv(t, X), NEW b \in Bucket, t.main[b].tag = "link", ChainOK(t, b),
         NEW i \in DOMAIN Chain(t, b), NEW l, l = Chain(t, b)[i], NEW prev, prev = PrevInChain(Chain(t, b), i),
         NEW u, u = CutAt(t, l, prev, b)
  PROVE  LinkInv(u, X \cup {l}) /\ l \in Ch(t, b) /\ CutFrom(t, u, b, l)
<1> USE DEF CutAt
<1> DEFINE ch == Chain(t, b)
<1>1. t \in Tables /\ Ch(t, b) \subseteq Link /\ l \in Ch(t, b)
  BY ChainLinks DEF Ch
<1>2. PICK n \in Nat \ {0} : IsPath(t, t.main[b].link, n, ch)
  BY DEF LinkInv, Paths, ChainPath
<1>3. DOMAIN ch = 1 .. n /\ i \in 1 .. n /\ \A x : x \in Ch(t, b) <=> \E j \in 1 .. n : x = ch[j]
  BY <1>2, PathDomain DEF Ch
<1>4. \A j \in 1 .. n : ch[j] \in Link /\ ch[j] # 0
  BY <1>2, TableAssumption DEF IsPath, Link
<1>5. l = ch[i] /\ l \in Link /\ (i = 1 => prev = 0) /\ (i # 1 => i - 1 \in 1 .. n /\ prev = ch[i - 1] /\ prev # 0 /\ prev \in Link)
  BY <1>3, <1>4 DEF PrevInChain
<1>6. n # 1
  BY <1>3 DEF ChainOK
<1>7. t.coll[l].next \in 0 .. HTCOLLMAX
  BY <1>1, <1>5, TableNexts DEF Nexts
<1>8. \A j, k \in 1 .. n : ch[j] = ch[k] => j = k
  BY <1>2 DEF IsPath
<1> DEFINE h == t.main[b].link
<1>9. /\ u \in Tables /\ Rest(t, u) /\ u.hwm = t.hwm /\ u.free = t.free /\ u.main[b].tag = "link"
      /\ u.main[b].link = IF i = 1 THEN t.coll[l].next ELSE h
      /\ \A c \in Bucket : c # b => u.main[c] = t.main[c]
      /\ \A k \in Link : u.coll[k].word = t.coll[k].word /\ (k # prev => u.coll[k].next = t.coll[k].next)
      /\ i # 1 => u.coll[prev].next = t.coll[l].next
  <2>1. CASE i = 1
    <3> DEFINE w == LinkWord(t.coll[l].next)
    <3>1. w \in Word /\ w.tag = "link" /\ w.link = t.coll[l].next
      BY <1>7, TagsApart
    <3>2. u = [t EXCEPT !.main[b] = w]
      BY <1>5, <2>1
    <3> HIDE DEF w
    <3>3. u.coll = t.coll /\ Rest(t, u) /\ u.hwm = t.hwm /\ u.free = t.free
      BY <1>1, <3>2 DEF Tables, Rest
    <3>4. u.main[b] = w /\ \A c \in Bucket : c # b => u.main[c] = t.main[c]
      BY <1>1, <3>2 DEF Tables
    <3>5. u \in Tables
      <4>1. [t.main EXCEPT ![b] = w] \in [Bucket -> Word]
        BY <1>1, <3>1 DEF Tables
      <4>2. QED
        BY <1>1, <3>2, <4>1 DEF Tables
    <3>6. QED
      BY <2>1, <3>1, <3>3, <3>4, <3>5
  <2>2. CASE i # 1
    <3> DEFINE m == t.coll[l].next
               c == [t.coll[prev] EXCEPT !.next = m]
    <3>1. t.coll \in [Link -> Cell] /\ t.coll[prev] \in Cell
      BY <1>1, <1>5, <2>2 DEF Tables
    <3>2. c \in Cell /\ c.next = m /\ c.word = t.coll[prev].word
      BY <1>7, <3>1 DEF Cell
    <3>3. u = [t EXCEPT !.coll[prev] = c]
      BY <1>5, <2>2
    <3> HIDE DEF c, m
    <3>4. u \in Tables /\ Rest(t, u) /\ u.hwm = t.hwm /\ u.free = t.free /\ u.main = t.main
      BY <1>1, <1>5, <2>2, <3>2, <3>3 DEF Tables, Rest
    <3>5. u.coll = [t.coll EXCEPT ![prev] = c]
      BY <1>1, <3>3 DEF Tables
    <3>6. \A k \in Link : u.coll[k].word = t.coll[k].word /\ (k # prev => u.coll[k].next = t.coll[k].next)
      BY <3>1, <3>2, <3>5
    <3>7. u.coll[prev].next = m
      BY <1>5, <2>2, <3>1, <3>2, <3>5
    <3>8. QED
      BY <2>2, <3>4, <3>6, <3>7 DEF m
  <2>3. QED
    BY <2>1, <2>2
<1> DEFINE S == Ch(t, b) \ {l}
<1> DEFINE g == IF i = 1 THEN t.coll[ch[i]].next ELSE h
<1>11. PICK m \in Nat : m = n - 1
  OBVIOUS
<1>10. Reach(u, g, m, S)
  <2>1. IsPath(t, h, n, ch) /\ \A x : x \in S <=> (x # ch[i] /\ \E j \in 1 .. n : x = ch[j])
    BY <1>2, <1>3, <1>5
  <2>2. i # 1 => u.coll[ch[i - 1]].next = t.coll[ch[i]].next
    BY <1>5, <1>9
  <2>3. \A j \in 1 .. n : j # i /\ j # i - 1 => u.coll[ch[j]].next = t.coll[ch[j]].next
    <3>1. ASSUME NEW j \in 1 .. n, j # i, j # i - 1 PROVE ch[j] \in Link /\ ch[j] # prev
      BY <1>3, <1>4, <1>5, <1>8, <3>1
    <3>2. QED
      BY <1>9, <3>1
  <2>4. i \in 1 .. n
    BY <1>3
  <2>5. g = IF i = 1 THEN t.coll[ch[i]].next ELSE h
    OBVIOUS
  <2> HIDE DEF S, h, ch, g
  <2>6. Bypassed(t, u, n, ch, i, S)
    BY <2>1, <2>2, <2>3 DEF Bypassed
  <2>7. QED
    BY <1>11, <2>1, <2>4, <2>5, <2>6, PathCut
<1>12. ChainPath(u, b) /\ Ch(u, b) = S
  <2>1. Reach(u, u.main[b].link, m, S) /\ m # 0
    BY <1>5, <1>6, <1>9, <1>10, <1>11
  <2> HIDE DEF S
  <2>2. ChainIs(u, b, S)
    BY <1>9, <2>1, ChainReach
  <2>3. QED
    BY <2>2 DEF ChainIs
<1>13. LinkInv(u, X \cup {l}) /\ \A c \in Bucket : c # b => Ch(u, c) = Ch(t, c)
  <2> DEFINE Y == X \cup {l}
  <2>1. Ch(u, b) \cup Y = Ch(t, b) \cup X /\ Ch(u, b) \cap Y = {}
    BY <1>1, <1>12 DEF LinkInv, Apart
  <2>2. \A k \in Link : k \notin Ch(t, b) \cup X => u.coll[k].next = t.coll[k].next
    BY <1>3, <1>5, <1>9
  <2> HIDE DEF Y
  <2>3. Edits(t, X, u, Y, b)
    BY <1>9, <1>12, <2>1, <2>2 DEF Edits, Rest
  <2>4. LinkInv(u, Y) /\ ElsewhereCh(t, u, b)
    BY <2>3, BucketEdit
  <2>5. QED
    BY <2>4 DEF Y, ElsewhereCh
<1>14. QED
  BY <1>1, <1>9, <1>12, <1>13 DEF CutFrom

\* A chain of one link is given up for the word w in HTmain.
LEMMA DropHead ==
  ASSUME NEW t, NEW X, LinkInv(t, X), NEW b \in Bucket, NEW h \in Link, Ch(t, b) = {h},
         NEW w \in Word, w.tag # "link", NEW u, u = [t EXCEPT !.main[b] = w]
  PROVE  LinkInv(u, X \cup {h}) /\ Collapsed(t, u, b, w)
<1>1. t \in Tables
  BY DEF LinkInv, Paths
<1>2. /\ u \in Tables /\ Rest(t, u) /\ u.hwm = t.hwm /\ u.free = t.free /\ u.coll = t.coll
      /\ u.main[b] = w /\ \A c \in Bucket : c # b => u.main[c] = t.main[c]
  <2>1. [t.main EXCEPT ![b] = w] \in [Bucket -> Word]
    BY <1>1 DEF Tables
  <2>2. u \in Tables
    BY <1>1, <2>1 DEF Tables
  <2>3. QED
    BY <1>1, <2>2 DEF Tables, Rest
<1>3. ChainPath(u, b) /\ Ch(u, b) = {}
  BY <1>2, NoChain
<1> DEFINE Y == X \cup {h}
<1>4. Ch(u, b) \cup Y = Ch(t, b) \cup X /\ Ch(u, b) \cap Y = {}
  BY <1>3
<1> HIDE DEF Y
<1>5. Edits(t, X, u, Y, b)
  BY <1>2, <1>3, <1>4 DEF Edits, Rest
<1>6. LinkInv(u, Y) /\ ElsewhereCh(t, u, b)
  BY <1>5, BucketEdit
<1>7. QED
  BY <1>2, <1>6 DEF Y, ElsewhereCh, Collapsed

\* FreeLink as the callers see it.
LEMMA FreeLinkKeeps ==
  ASSUME NEW t, NEW X, NEW l, l \notin X, LinkInv(t, X \cup {l}), NEW u, u = FreeLink(t, l)
  PROVE  /\ LinkInv(u, X) /\ Rest(t, u) /\ u.main = t.main /\ \A c \in Bucket : Ch(u, c) = Ch(t, c) /\ l \notin Ch(t, c)
         /\ \A k \in Link : k # l => u.coll[k] = t.coll[k]
<1> DEFINE Y == X \cup {l}
<1>1. LinkInv(t, Y) /\ l \in Y /\ Y \ {l} = X
  OBVIOUS
<1> HIDE DEF Y
<1>2. /\ LinkInv(u, Y \ {l}) /\ \A b \in Bucket : Ch(u, b) = Ch(t, b) /\ Chain(u, b) = Chain(t, b)
      /\ u.main = t.main /\ u.big = t.big /\ u.cnt = t.cnt /\ u.min = t.min
      /\ u.disabled = t.disabled /\ u.hwm = t.hwm /\ \A k \in Link : k # l => u.coll[k] = t.coll[k]
  BY <1>1, FreeLinkPuts
<1>3. \A c \in Bucket : l \notin Ch(t, c)
  BY <1>1 DEF LinkInv, Apart
<1>4. QED
  BY <1>1, <1>2, <1>3 DEF Rest

\* DelLink takes the entry out of the chain, and the chain out of use when one
\* entry is left.
LEMMA DelLinkTakes ==
  ASSUME NEW t, NEW X, LinkInv(t, X), NEW b \in Bucket, t.main[b].tag = "link", BucketOK(t, b),
         NEW i \in DOMAIN Chain(t, b), NEW l, l = Chain(t, b)[i], NEW p, p = t.coll[l].word.ptr,
         NEW u, u = DelLink(t, l, PrevInChain(Chain(t, b), i), b)
  PROVE  LinkInv(u, X) /\ Rest(t, u) /\ Elsewhere(t, u, b) /\ BucketOK(u, b) /\ Reworded(t, u, b, p, {})
<1> DEFINE prev == PrevInChain(Chain(t, b), i)
           v == CutAt(t, l, prev, b)
           x == FreeLink(v, l)
<1>2. u = CollapseChain(x, b)
  BY DEF DelLink, Unlink, CutAt
<1>0. LinkInv(v, X \cup {l}) /\ l \in Ch(t, b) /\ CutFrom(t, v, b, l)
  <2>1. /\ prev = PrevInChain(Chain(t, b), i) /\ ChainOK(t, b)
        /\ v = CutAt(t, l, prev, b)
    BY DEF BucketOK
  <2> HIDE DEF prev, v
  <2>2. QED
    BY <2>1, CutOut
<1>1. /\ LinkInv(v, X \cup {l}) /\ l \in Ch(t, b) /\ Rest(t, v) /\ v.main[b].tag = "link"
      /\ Ch(v, b) = Ch(t, b) \ {l} /\ \A k \in Link : v.coll[k].word = t.coll[k].word
      /\ \A c \in Bucket : c # b => Ch(v, c) = Ch(t, c) /\ v.main[c] = t.main[c]
  BY <1>0 DEF CutFrom
<1>3. l \in Link /\ l \notin X /\ \A c \in Bucket : Ch(t, c) \subseteq Link
  BY <1>1, ChainLinks DEF LinkInv, Apart
<1> HIDE DEF v
<1>4. /\ LinkInv(x, X) /\ Rest(v, x) /\ x.main = v.main /\ \A c \in Bucket : Ch(x, c) = Ch(v, c) /\ l \notin Ch(v, c)
      /\ \A k \in Link : k # l => x.coll[k] = v.coll[k]
  BY <1>1, <1>3, FreeLinkKeeps
<1> HIDE DEF x
<1>5. /\ Rest(t, x) /\ x.main[b].tag = "link" /\ Ch(x, b) = Ch(t, b) \ {l}
      /\ \A k \in Link : k # l => x.coll[k].word = t.coll[k].word
  BY <1>1, <1>4 DEF Rest
<1>6. Elsewhere(t, x, b)
  BY <1>1, <1>3, <1>4, <1>5 DEF Elsewhere, SameBucket
<1>7. /\ \A k, m \in Ch(t, b) : t.coll[k].word.ptr = t.coll[m].word.ptr => k = m
      /\ \A w : w \in Words(t, b) <=> \E k \in Ch(t, b) : w = t.coll[k].word
      /\ \A k \in Ch(t, b) : WordOK(t.coll[k].word, b)
  BY DEF BucketOK, ChainOK, Words
<1> DEFINE h == x.main[b].link
<1>8. CASE x.coll[h].next # 0
  <2>1. u = x
    BY <1>2, <1>8 DEF CollapseChain
  <2>2. \E k, m \in Ch(x, b) : k # m
    BY <1>4, <1>5, <1>8, HeadOf
  <2>3. \A k \in Ch(x, b) : k \in Ch(t, b) /\ k # l /\ x.coll[k].word = t.coll[k].word
    BY <1>3, <1>5
  <2>4. \A w : w \in Words(x, b) <=> \E k \in Ch(x, b) : w = x.coll[k].word
    BY <1>5 DEF Words
  <2>5. BucketOK(x, b)
    BY <1>7, <2>2, <2>3, <2>4 DEF BucketOK, ChainOK
  <2>6. Reworded(t, x, b, p, {})
    <3>1. ASSUME NEW w \in Words(x, b) PROVE w \in Words(t, b) /\ w.ptr # p
      BY <1>1, <1>7, <2>3, <2>4
    <3>2. ASSUME NEW w \in Words(t, b), w.ptr # p PROVE w \in Words(x, b)
      BY <1>5, <1>7, <2>3, <2>4, <3>2
    <3>3. QED
      BY <3>1, <3>2 DEF Reworded
  <2>7. QED
    BY <1>4, <1>5, <1>6, <2>1, <2>5, <2>6
<1>9. CASE x.coll[h].next = 0
  <2> DEFINE w == x.coll[h].word
             y == [x EXCEPT !.main[b] = w]
  <2>1. u = FreeLink(y, h)
    BY <1>2, <1>9 DEF CollapseChain
  <2>2. Ch(x, b) = {h} /\ h \in Link
    BY <1>4, <1>5, <1>9, HeadOf
  <2>3. h \in Ch(t, b) /\ h # l /\ w = t.coll[h].word /\ WordOK(w, b) /\ Ch(t, b) = {h, l}
    BY <1>1, <1>5, <1>7, <2>2
  <2>4. w \in Word /\ w.tag = "entry"
    BY <2>3, TagsApart DEF WordOK
  <2>5. h \notin X
    BY <1>4, <2>2 DEF LinkInv, Apart
  <2>14. y = [x EXCEPT !.main[b] = w]
    OBVIOUS
  <2> HIDE DEF h, w, y
  <2>15. LinkInv(x, X) /\ w.tag # "link"
    BY <1>4, <2>4
  <2>16. LinkInv(y, X \cup {h}) /\ Collapsed(x, y, b, w)
    BY <2>2, <2>4, <2>14, <2>15, DropHead
  <2>6. /\ LinkInv(y, X \cup {h}) /\ Rest(x, y) /\ y.main[b] = w /\ y.coll = x.coll
        /\ \A c \in Bucket : c # b => Ch(y, c) = Ch(x, c) /\ y.main[c] = x.main[c]
    BY <2>16 DEF Collapsed
  <2>7. /\ LinkInv(u, X) /\ Rest(y, u) /\ u.main = y.main /\ \A c \in Bucket : Ch(u, c) = Ch(y, c) /\ h \notin Ch(y, c)
        /\ \A k \in Link : k # h => u.coll[k] = y.coll[k]
    BY <2>1, <2>5, <2>6, FreeLinkKeeps
  <2>8. Rest(t, u)
    BY <1>5, <2>6, <2>7 DEF Rest
  <2>9. Elsewhere(t, u, b)
    <3>1. ASSUME NEW c \in Bucket, c # b PROVE SameBucket(t, u, c)
      <4>1. u.main[c] = t.main[c] /\ Ch(u, c) = Ch(t, c)
        BY <1>6, <2>6, <2>7, <3>1 DEF Elsewhere, SameBucket
      <4>2. \A k \in Ch(t, c) : k \in Link /\ k # h /\ x.coll[k].word = t.coll[k].word
        BY <1>3, <1>6, <2>6, <2>7, <3>1, <4>1 DEF Elsewhere, SameBucket
      <4>3. QED
        BY <2>6, <2>7, <4>1, <4>2 DEF SameBucket
    <3>2. QED
      BY <3>1 DEF Elsewhere
  <2>10. u.main[b] = w /\ Words(u, b) = {w}
    BY <2>4, <2>6, <2>7 DEF Words
  <2>11. BucketOK(u, b)
    BY <2>3, <2>4, <2>10 DEF BucketOK, ChainOK
  <2>12. Reworded(t, u, b, p, {})
    BY <1>1, <1>7, <2>3, <2>10 DEF Reworded
  <2>13. QED
    BY <2>7, <2>8, <2>9, <2>11, <2>12
<1>10. QED
  BY <1>8, <1>9

-----------------------------------------------------------------------------
(* Putting links into a chain.                                             *)

\* u is t with the links of L put into the chain of bucket b, their words aside.
PutInto(t, u, b, L) ==
  /\ Rest(t, u) /\ u.main[b].tag = "link" /\ Ch(u, b) = Ch(t, b) \cup L
  /\ \A k \in Link : k \notin L => u.coll[k].word = t.coll[k].word
  /\ \A c \in Bucket : c # b => Ch(u, c) = Ch(t, c) /\ u.main[c] = t.main[c]

PushedAt(t, l, b) == [t EXCEPT !.coll[l].next = t.main[b].link, !.main[b] = LinkWord(l)]
PairAt(t, l, m, b, v) ==
  [t EXCEPT !.coll[m] = [word |-> v, next |-> 0], !.coll[l].next = m, !.main[b] = LinkWord(l)]

LEMMA HeadPushed ==
  ASSUME NEW t, NEW X, NEW l \in Link, l \notin X, LinkInv(t, X \cup {l}), NEW b \in Bucket, t.main[b].tag = "link",
         NEW u, u = PushedAt(t, l, b)
  PROVE  LinkInv(u, X) /\ PutInto(t, u, b, {l})
<1> DEFINE h == t.main[b].link
           w == LinkWord(l)
           c == [t.coll[l] EXCEPT !.next = h]
<1>1. t \in Tables /\ t.main[b] \in Word /\ t.coll[l] \in Cell /\ l # 0 /\ l \in 0 .. HTCOLLMAX
  BY ChainLinks, TableAssumption DEF Tables, Link
<1>2. h \in 0 .. HTCOLLMAX
  BY <1>1, TagsApart
<1>3. w \in Word /\ w.tag = "link" /\ w.link = l
  BY <1>1, TagsApart
<1>4. c \in Cell /\ c.next = h /\ c.word = t.coll[l].word
  BY <1>1, <1>2 DEF Cell
<1>5. u = [t EXCEPT !.coll[l] = c, !.main[b] = w]
  BY DEF PushedAt
<1>6. l \notin Ch(t, b) /\ Ch(t, b) \subseteq Link
  BY ChainLinks DEF LinkInv, Apart
<1> HIDE DEF c, w
<1>7. /\ Rest(t, u) /\ u.hwm = t.hwm /\ u.free = t.free
      /\ u.coll = [t.coll EXCEPT ![l] = c] /\ u.main = [t.main EXCEPT ![b] = w]
  BY <1>1, <1>5 DEF Tables, Rest
<1>8. u \in Tables
  <2>1. [t.main EXCEPT ![b] = w] \in [Bucket -> Word] /\ [t.coll EXCEPT ![l] = c] \in [Link -> Cell]
    BY <1>1, <1>3, <1>4 DEF Tables
  <2>2. QED
    BY <1>1, <1>5, <2>1 DEF Tables
<1>9. /\ u.main[b] = w /\ \A d \in Bucket : d # b => u.main[d] = t.main[d]
      /\ u.coll[l].next = h /\ \A k \in Link : k # l => u.coll[k] = t.coll[k]
  BY <1>1, <1>4, <1>7 DEF Tables
<1>10. PICK n \in Nat \ {0} : Reach(t, h, n, Ch(t, b))
  BY ChainReaches DEF LinkInv, Paths
<1> DEFINE S == Ch(t, b) \cup {l}
           Y == X \cup {l}
<1>11. PICK m \in Nat : m = n + 1 /\ m # 0
  OBVIOUS
<1>12. ChainIs(u, b, S)
  <2>1. \A k \in Ch(t, b) : k # l /\ u.coll[k].next = t.coll[k].next
    BY <1>6, <1>9
  <2>2. Joins(t, u, h, Ch(t, b), l, S)
    BY <1>1, <1>9, <2>1 DEF Joins
  <2> HIDE DEF S
  <2>5. Reach(u, l, m, S)
    BY <1>10, <1>11, <2>2, ReachPush
  <2>3. Reach(u, u.main[b].link, m, S) /\ u.main[b].tag = "link"
    BY <1>3, <1>9, <2>5
  <2>4. QED
    BY <1>8, <1>11, <2>3, ChainReach
<1>13. LinkInv(u, X) /\ ElsewhereCh(t, u, b)
  <2>1. LinkInv(t, Y) /\ Ch(u, b) \cup X = Ch(t, b) \cup Y
    BY <1>12 DEF ChainIs
  <2>2. Ch(u, b) \cap X = {}
    BY <1>12 DEF ChainIs, LinkInv, Apart
  <2>3. \A k \in Link : k \notin Ch(t, b) \cup Y => u.coll[k].next = t.coll[k].next
    BY <1>9
  <2> HIDE DEF Y
  <2>4. Edits(t, Y, u, X, b)
    BY <1>7, <1>8, <1>9, <1>12, <2>1, <2>2, <2>3 DEF Edits, Rest, ChainIs
  <2>5. QED
    BY <2>1, <2>4, BucketEdit
<1>14. PutInto(t, u, b, {l})
  BY <1>3, <1>7, <1>9, <1>12, <1>13 DEF PutInto, ElsewhereCh, ChainIs
<1>15. QED
  BY <1>13, <1>14

PairPut(t, u, b, l, m, v) ==
  /\ l # m /\ Rest(t, u) /\ u.main[b].tag = "link" /\ Ch(u, b) = {l, m} /\ u.coll[m].word = v
  /\ \A k \in Link : k # l /\ k # m => u.coll[k].word = t.coll[k].word
  /\ \A c \in Bucket : c # b => Ch(u, c) = Ch(t, c) /\ u.main[c] = t.main[c]

LEMMA PairMade ==
  ASSUME NEW t, NEW X, NEW l \in Link, NEW m \in Link, l \notin X, m \notin X \cup {l}, LinkInv(t, (X \cup {l}) \cup {m}),
         NEW b \in Bucket, t.main[b].tag # "link", NEW v \in Word,
         NEW u, u = PairAt(t, l, m, b, v)
  PROVE  LinkInv(u, X) /\ PairPut(t, u, b, l, m, v)
<1> DEFINE w == LinkWord(l)
           c == [word |-> v, next |-> 0]
           d == [t.coll[l] EXCEPT !.next = m]
<1>1. t \in Tables /\ t.coll[l] \in Cell /\ l # 0 /\ m # 0 /\ l \in 0 .. HTCOLLMAX /\ m \in 0 .. HTCOLLMAX
      /\ 0 \in 0 .. HTCOLLMAX
  BY ChainLinks, TableAssumption DEF Tables, Link
<1>2. w \in Word /\ w.tag = "link" /\ w.link = l
  BY <1>1, TagsApart
<1>3. c \in Cell /\ c.next = 0 /\ c.word = v
  BY <1>1 DEF Cell
<1>4. d \in Cell /\ d.next = m
  BY <1>1 DEF Cell
<1>5. u = [t EXCEPT !.coll = [[t.coll EXCEPT ![m] = c] EXCEPT ![l] = d], !.main[b] = w]
  BY <1>1 DEF Tables, PairAt
<1> HIDE DEF c, d, w
<1>6. /\ Rest(t, u) /\ u.hwm = t.hwm /\ u.free = t.free
      /\ u.coll = [[t.coll EXCEPT ![m] = c] EXCEPT ![l] = d] /\ u.main = [t.main EXCEPT ![b] = w]
  BY <1>1, <1>5 DEF Tables, Rest
<1>7. u \in Tables
  <2>1. [t.main EXCEPT ![b] = w] \in [Bucket -> Word] /\ [[t.coll EXCEPT ![m] = c] EXCEPT ![l] = d] \in [Link -> Cell]
    BY <1>1, <1>2, <1>3, <1>4 DEF Tables
  <2>2. QED
    BY <1>1, <1>5, <2>1 DEF Tables
<1>8. /\ u.main[b] = w /\ \A e \in Bucket : e # b => u.main[e] = t.main[e]
      /\ u.coll[l].next = m /\ u.coll[m].next = 0 /\ u.coll[m].word = v
      /\ \A k \in Link : k # l /\ k # m => u.coll[k] = t.coll[k]
  BY <1>1, <1>3, <1>4, <1>6 DEF Tables
<1> DEFINE S == {} \cup {m}
           T == S \cup {l}
           Y == (X \cup {l}) \cup {m}
           E == {}
<1>9. Ch(t, b) = {}
  BY NoChain
<1>10. ChainIs(u, b, T)
  <2>1. PICK n0 \in Nat : n0 = 0
    OBVIOUS
  <2>2. Reach(t, 0, n0, E)
    BY <2>1, PathNil DEF Reach
  <2>4. PICK n1 \in Nat : n1 = n0 + 1
    OBVIOUS
  <2>5. PICK n2 \in Nat : n2 = n1 + 1 /\ n2 # 0
    OBVIOUS
  <2>6. Joins(t, u, 0, E, m, S)
    BY <1>1, <1>8 DEF Joins
  <2>7. Joins(u, u, m, S, l, T)
    BY <1>1, <1>8 DEF Joins
  <2> HIDE DEF S, T, E
  <2>8. Reach(u, l, n2, T)
    <3>1. Reach(u, m, n1, S)
      BY <2>2, <2>4, <2>6, ReachPush
    <3>2. QED
      BY <2>5, <2>7, <3>1, ReachPush
  <2>9. Reach(u, u.main[b].link, n2, T) /\ u.main[b].tag = "link"
    BY <1>2, <1>8, <2>8
  <2>10. QED
    BY <1>7, <2>5, <2>9, ChainReach
<1>11. LinkInv(u, X) /\ ElsewhereCh(t, u, b)
  <2>1. LinkInv(t, Y) /\ Ch(u, b) \cup X = Ch(t, b) \cup Y /\ Ch(u, b) \cap X = {}
    BY <1>9, <1>10 DEF ChainIs
  <2>2. \A k \in Link : k \notin Ch(t, b) \cup Y => u.coll[k].next = t.coll[k].next
    BY <1>8
  <2> HIDE DEF Y
  <2>3. Edits(t, Y, u, X, b)
    BY <1>6, <1>7, <1>8, <1>10, <2>1, <2>2 DEF Edits, Rest, ChainIs
  <2>4. QED
    BY <2>1, <2>3, BucketEdit
<1>12. PairPut(t, u, b, l, m, v)
  BY <1>2, <1>6, <1>8, <1>9, <1>10, <1>11 DEF PairPut, ElsewhereCh, ChainIs
<1>13. QED
  BY <1>8, <1>11, <1>12

-----------------------------------------------------------------------------
(* Entries come and go.                                                    *)

NoLinks == {}
NoWords == {}

\* u is t with p's words now S, in good order.
Become(t, u, p, S) == Core(u, NoLinks) /\ Now(t, u, p, S) /\ Rest(t, u)

LEMMA EntryEdited ==
  ASSUME NEW t, Core(t, NoLinks), NEW u, LinkInv(u, NoLinks), NEW p \in Ptr, NEW b, b = Hash[p], Elsewhere(t, u, b), BucketOK(u, b),
         NEW S, Reworded(t, u, b, p, S), Rest(t, u)
  PROVE  Become(t, u, p, S)
BY EntryEdit DEF Become

LEMMA CoreFacts ==
  ASSUME NEW t, Core(t, NoLinks), NEW p \in Ptr, NEW b, b = Hash[p]
  PROVE  b \in Bucket /\ LinkInv(t, NoLinks) /\ t \in Tables /\ BucketOK(t, b) /\ t.main[b] \in Word /\ Ch(t, b) \subseteq Link
<1>1. b \in Bucket /\ LinkInv(t, NoLinks) /\ BucketOK(t, b)
  BY TableAssumption DEF Core
<1>2. QED
  BY <1>1, ChainLinks DEF Tables

\* An entry is put into an empty word of HTmain.
LEMMA EmptyFilled ==
  ASSUME NEW t, Core(t, NoLinks), NEW p \in Ptr, NEW b, b = Hash[p], t.main[b].tag = "empty",
         NEW w, WordOK(w, b), w.ptr = p, NEW u, u = SetGC(t, Main(b), w)
  PROVE  Become(t, u, p, {w}) /\ At(t, p) = {}
<1>1. b \in Bucket /\ LinkInv(t, NoLinks)
  BY CoreFacts
<1>2. w \in Word /\ w.tag = "entry"
  BY TagsApart DEF WordOK
<1>3. /\ LinkInv(u, NoLinks) /\ Rest(t, u) /\ Elsewhere(t, u, b)
      /\ u.main[b] = w /\ ChainOK(u, b) /\ Words(u, b) = {w}
  BY <1>1, <1>2, MainSet
<1>4. Words(t, b) = {}
  BY DEF Words
<1>5. BucketOK(u, b) /\ Reworded(t, u, b, p, {w})
  BY <1>3, <1>4 DEF BucketOK, Reworded
<1>6. Become(t, u, p, {w})
  BY <1>3, <1>5, EntryEdited
<1>7. QED
  BY <1>4, <1>6 DEF At

\* The entry in HTmain is taken out.
LEMMA MainEmptied ==
  ASSUME NEW t, Core(t, NoLinks), NEW p \in Ptr, NEW b, b = Hash[p], t.main[b].tag = "entry", t.main[b].ptr = p,
         NEW u, u = SetGC(t, Main(b), Empty)
  PROVE  Become(t, u, p, NoWords)
<1>1. b \in Bucket /\ LinkInv(t, NoLinks)
  BY CoreFacts
<1> DEFINE e == Empty
<1>2. e \in Word /\ e.tag = "empty"
  BY TagsApart
<1>3. u = SetGC(t, Main(b), e)
  OBVIOUS
<1> HIDE DEF e
<1>4. /\ LinkInv(u, NoLinks) /\ Rest(t, u) /\ Elsewhere(t, u, b)
      /\ ChainOK(u, b) /\ Words(u, b) = {}
  BY <1>1, <1>2, <1>3, MainSet
<1>5. Words(t, b) = {t.main[b]}
  BY DEF Words
<1>6. BucketOK(u, b) /\ Reworded(t, u, b, p, NoWords)
  BY <1>4, <1>5 DEF BucketOK, Reworded, NoWords
<1>7. QED
  BY <1>4, <1>6, EntryEdited

\* The entry in link i of the chain is taken out.
LEMMA LinkDeleted ==
  ASSUME NEW t, Core(t, NoLinks), NEW p \in Ptr, NEW b, b = Hash[p], t.main[b].tag = "link",
         NEW i \in DOMAIN Chain(t, b), t.coll[Chain(t, b)[i]].word.ptr = p,
         NEW u, u = DelLink(t, Chain(t, b)[i], PrevInChain(Chain(t, b), i), b)
  PROVE  Become(t, u, p, NoWords)
<1>1. b \in Bucket /\ LinkInv(t, NoLinks) /\ BucketOK(t, b)
  BY CoreFacts
<1> DEFINE l == Chain(t, b)[i]
<1>2. l = Chain(t, b)[i] /\ p = t.coll[l].word.ptr /\ u = DelLink(t, l, PrevInChain(Chain(t, b), i), b)
  OBVIOUS
<1> HIDE DEF l
<1>3. LinkInv(u, NoLinks) /\ Rest(t, u) /\ Elsewhere(t, u, b) /\ BucketOK(u, b) /\ Reworded(t, u, b, p, NoWords)
  BY <1>1, <1>2, DelLinkTakes DEF NoWords
<1>4. QED
  BY <1>3, EntryEdited

\* A new link at the head of a chain in which nothing is about p.
LEMMA LinkAdded ==
  ASSUME NEW t, Core(t, NoLinks), NEW p \in Ptr, NEW b, b = Hash[p], t.main[b].tag = "link",
         \A k \in Ch(t, b) : t.coll[k].word.ptr # p,
         NEW l, NEW g, l \notin NoLinks, LinkInv(g, NoLinks \cup {l}), Handed(t, g, l),
         NEW w, WordOK(w, b), w.ptr = p,
         NEW v, v = [g EXCEPT !.coll[l].next = t.main[b].link, !.main[b] = LinkWord(l)],
         NEW u, u = SetGC(v, Coll(l), w)
  PROVE  Become(t, u, p, {w}) /\ At(t, p) = {}
<1>1. b \in Bucket /\ LinkInv(t, NoLinks) /\ BucketOK(t, b) /\ Ch(t, b) \subseteq Link
  BY CoreFacts
<1>2. w \in Word /\ w.tag = "entry"
  BY TagsApart DEF WordOK
<1>3. /\ l \in Link /\ \A c \in Bucket : Ch(g, c) = Ch(t, c) /\ l \notin Ch(t, c)
      /\ g.main = t.main /\ g.coll = t.coll /\ Rest(t, g)
  BY DEF Handed, Rest
<1>4. LinkInv(v, NoLinks) /\ PutInto(g, v, b, {l})
  <2>1. v = PushedAt(g, l, b) /\ g.main[b].tag = "link"
    BY <1>3 DEF PushedAt
  <2>2. QED
    BY <1>1, <1>3, <2>1, HeadPushed
<1>5a. LinkInv(u, NoLinks) /\ CollWritten(v, u, l, w)
  BY <1>2, <1>3, <1>4, CollSet
<1>5. /\ LinkInv(u, NoLinks) /\ Rest(v, u) /\ u.main = v.main /\ u.coll[l].word = w
      /\ \A k \in Link : u.coll[k].next = v.coll[k].next /\ (k # l => u.coll[k] = v.coll[k])
      /\ \A c \in Bucket : Ch(u, c) = Ch(v, c)
  BY <1>5a DEF CollWritten
<1>6. Rest(t, u)
  BY <1>3, <1>4, <1>5 DEF Rest, PutInto
<1>7. Elsewhere(t, u, b)
  <2>1. ASSUME NEW c \in Bucket, c # b PROVE SameBucket(t, u, c)
    <3>0. Ch(t, c) \subseteq Link
      BY <1>1, <2>1, ChainLinks
    <3>0a. v.main[c] = g.main[c] /\ Ch(v, c) = Ch(g, c)
      BY <1>4, <2>1 DEF PutInto
    <3>0b. u.main = v.main /\ Ch(u, c) = Ch(v, c) /\ g.main = t.main /\ Ch(g, c) = Ch(t, c)
      BY <1>3, <1>5
    <3>1. u.main[c] = t.main[c] /\ Ch(u, c) = Ch(t, c) /\ Ch(t, c) \subseteq Link
      BY <3>0, <3>0a, <3>0b
    <3>2. ASSUME NEW k \in Ch(t, c) PROVE k # l /\ u.coll[k].word = t.coll[k].word
      <4>1. k \in Link /\ k # l
        BY <1>3, <2>1, <3>1
      <4>2. u.coll[k] = v.coll[k] /\ v.coll[k].word = g.coll[k].word
        BY <1>4, <1>5, <4>1 DEF PutInto
      <4>3. QED
        BY <1>3, <4>1, <4>2
    <3>3. QED
      BY <3>1, <3>2 DEF SameBucket
  <2>2. QED
    BY <2>1 DEF Elsewhere
<1>8. /\ u.main[b].tag = "link" /\ \A k : k \in Ch(u, b) <=> k = l \/ k \in Ch(t, b)
      /\ \A k \in Ch(t, b) : k # l /\ u.coll[k].word = t.coll[k].word
  <2>1. u.main[b].tag = "link"
    BY <1>4, <1>5 DEF PutInto
  <2>2. Ch(u, b) = Ch(g, b) \cup {l} /\ Ch(g, b) = Ch(t, b)
    BY <1>1, <1>3, <1>4, <1>5 DEF PutInto
  <2>3. ASSUME NEW k \in Ch(t, b) PROVE k # l /\ u.coll[k].word = t.coll[k].word
    <3>1. k # l /\ k \in Link
      BY <1>1, <1>3
    <3>2. u.coll[k] = v.coll[k] /\ v.coll[k].word = g.coll[k].word
      BY <1>4, <1>5, <3>1 DEF PutInto
    <3>3. QED
      BY <1>3, <3>1, <3>2
  <2>4. QED
    BY <2>1, <2>2, <2>3
<1>9. \A x : x \in Words(u, b) <=> x = w \/ \E k \in Ch(t, b) : x = t.coll[k].word
  <2>1. \A x : x \in Words(u, b) <=> \E k \in Ch(u, b) : x = u.coll[k].word
    BY <1>8 DEF Words
  <2>2. u.coll[l].word = w
    BY <1>5
  <2>3. ASSUME NEW x \in Words(u, b) PROVE x = w \/ \E k \in Ch(t, b) : x = t.coll[k].word
    <3>0. u.main[b].tag = "link"
      BY <1>8
    <3>1. PICK k \in Ch(u, b) : x = u.coll[k].word
      BY <3>0 DEF Words
    <3>2. QED
      BY <1>8, <2>2, <3>1
  <2>4. ASSUME NEW k \in Ch(t, b) PROVE t.coll[k].word \in Words(u, b)
    BY <1>8, <2>1
  <2>5. w \in Words(u, b)
    BY <1>8, <2>1, <2>2
  <2>6. QED
    BY <2>3, <2>4, <2>5
<1>10. \A x : x \in Words(t, b) <=> \E k \in Ch(t, b) : x = t.coll[k].word
  BY DEF Words
<1>11. BucketOK(u, b)
  <2>1. ChainOK(u, b)
    <3>1. \E j, k \in Ch(u, b) : j # k
      BY <1>1, <1>8 DEF BucketOK, ChainOK
    <3>2. \A j, k \in Ch(u, b) : u.coll[j].word.ptr = u.coll[k].word.ptr => j = k
      <4>1. \A j, k \in Ch(t, b) : t.coll[j].word.ptr = t.coll[k].word.ptr => j = k
        BY <1>1 DEF BucketOK, ChainOK
      <4>2. u.coll[l].word.ptr = p
        BY <1>5
      <4>3. \A k \in Ch(t, b) : u.coll[k].word.ptr # p /\ u.coll[k].word.ptr = t.coll[k].word.ptr
        BY <1>8
      <4>4. \A k \in Ch(u, b) : k = l \/ k \in Ch(t, b)
        BY <1>8
      <4>5. ASSUME NEW j \in Ch(u, b), NEW k \in Ch(u, b), u.coll[j].word.ptr = u.coll[k].word.ptr PROVE j = k
        <5>1. CASE j = l
          <6>1. u.coll[k].word.ptr = p
            BY <4>2, <4>5, <5>1
          <6>2. QED
            BY <4>3, <4>4, <5>1, <6>1
        <5>2. CASE k = l
          <6>1. u.coll[j].word.ptr = p
            BY <4>2, <4>5, <5>2
          <6>2. QED
            BY <4>3, <4>4, <5>2, <6>1
        <5>3. CASE j # l /\ k # l
          <6>1. j \in Ch(t, b) /\ k \in Ch(t, b)
            BY <4>4, <5>3
          <6>2. t.coll[j].word.ptr = t.coll[k].word.ptr
            BY <4>3, <4>5, <6>1
          <6>3. QED
            BY <4>1, <6>1, <6>2
        <5>4. QED
          BY <5>1, <5>2, <5>3
      <4>6. QED
        BY <4>5
    <3>3. QED
      BY <3>1, <3>2 DEF ChainOK
  <2>2. \A x \in Words(u, b) : WordOK(x, b)
    BY <1>1, <1>9, <1>10 DEF BucketOK
  <2>3. QED
    BY <2>1, <2>2 DEF BucketOK
<1>12. Reworded(t, u, b, p, {w})
  BY <1>9, <1>10 DEF Reworded
<1>13. Become(t, u, p, {w})
  BY <1>4, <1>5, <1>6, <1>7, <1>11, <1>12, EntryEdited
<1>14. QED
  BY <1>10, <1>13 DEF At

\* Two links for the entry in HTmain and for that of p.
LEMMA PairAdded ==
  ASSUME NEW t, Core(t, NoLinks), NEW p \in Ptr, NEW b, b = Hash[p], t.main[b].tag = "entry", t.main[b].ptr # p,
         NEW l, NEW m, NEW g1, NEW g, l \notin NoLinks, m \notin NoLinks \cup {l}, LinkInv(g, (NoLinks \cup {l}) \cup {m}),
         Handed(t, g1, l), Handed(g1, g, m),
         NEW w, WordOK(w, b), w.ptr = p,
         NEW v, v = [g EXCEPT !.coll[m] = [word |-> t.main[b], next |-> 0], !.coll[l].next = m, !.main[b] = LinkWord(l)],
         NEW u, u = SetGC(v, Coll(l), w)
  PROVE  Become(t, u, p, {w}) /\ At(t, p) = {}
<1> DEFINE e == t.main[b]
<1>1. b \in Bucket /\ LinkInv(t, NoLinks) /\ BucketOK(t, b) /\ e \in Word /\ e.tag = "entry"
  BY CoreFacts
<1>2. w \in Word /\ w.tag = "entry"
  BY TagsApart DEF WordOK
<1>3. /\ l \in Link /\ m \in Link /\ l # m /\ \A c \in Bucket : Ch(g, c) = Ch(t, c) /\ l \notin Ch(t, c) /\ m \notin Ch(t, c)
      /\ g.main = t.main /\ g.coll = t.coll /\ Rest(t, g)
  BY DEF Handed, Rest
<1>4. LinkInv(v, NoLinks) /\ PairPut(g, v, b, l, m, e)
  <2>1. v = PairAt(g, l, m, b, e)
    BY DEF PairAt
  <2>2. LinkInv(g, (NoLinks \cup {l}) \cup {m}) /\ g.main[b].tag # "link" /\ l \notin NoLinks /\ m \notin NoLinks
        /\ m \notin NoLinks \cup {l}
    BY <1>1, <1>3
  <2> HIDE DEF e
  <2>3. QED
    BY <1>1, <1>3, <2>1, <2>2, PairMade
<1>5a. LinkInv(u, NoLinks) /\ CollWritten(v, u, l, w)
  BY <1>2, <1>3, <1>4, CollSet
<1>5. /\ LinkInv(u, NoLinks) /\ Rest(v, u) /\ u.main = v.main /\ u.coll[l].word = w
      /\ \A k \in Link : u.coll[k].next = v.coll[k].next /\ (k # l => u.coll[k] = v.coll[k])
      /\ \A c \in Bucket : Ch(u, c) = Ch(v, c)
  BY <1>5a DEF CollWritten
<1>6. Rest(t, u)
  BY <1>3, <1>4, <1>5 DEF Rest, PairPut
<1>7. Elsewhere(t, u, b)
  <2>1. ASSUME NEW c \in Bucket, c # b PROVE SameBucket(t, u, c)
    <3>0. Ch(t, c) \subseteq Link
      BY <1>1, <2>1, ChainLinks
    <3>0a. v.main[c] = g.main[c] /\ Ch(v, c) = Ch(g, c)
      BY <1>4, <2>1 DEF PairPut
    <3>0b. u.main = v.main /\ Ch(u, c) = Ch(v, c) /\ g.main = t.main /\ Ch(g, c) = Ch(t, c)
      BY <1>3, <1>5
    <3>1. u.main[c] = t.main[c] /\ Ch(u, c) = Ch(t, c) /\ Ch(t, c) \subseteq Link
      BY <3>0, <3>0a, <3>0b
    <3>2. ASSUME NEW k \in Ch(t, c) PROVE k # l /\ u.coll[k].word = t.coll[k].word
      <4>1. k \in Link /\ k # l /\ k # m
        BY <1>3, <2>1, <3>1
      <4>2. u.coll[k] = v.coll[k] /\ v.coll[k].word = g.coll[k].word
        BY <1>4, <1>5, <4>1 DEF PairPut
      <4>3. QED
        BY <1>3, <4>1, <4>2
    <3>3. QED
      BY <3>1, <3>2 DEF SameBucket
  <2>2. QED
    BY <2>1 DEF Elsewhere
<1>8. Ch(t, b) = {}
  BY NoChain
<1>9. u.main[b].tag = "link" /\ \A k : k \in Ch(u, b) <=> k = l \/ k = m
  BY <1>1, <1>3, <1>4, <1>5, <1>8 DEF PairPut
<1>10. u.coll[m].word = e /\ u.coll[l].word = w
  BY <1>3, <1>4, <1>5 DEF PairPut
<1>11. \A x : x \in Words(u, b) <=> x = w \/ x = e
  <2>1. \A x : x \in Words(u, b) <=> \E k \in Ch(u, b) : x = u.coll[k].word
    BY <1>9 DEF Words
  <2>2. l \in Ch(u, b) /\ m \in Ch(u, b) /\ \A k \in Ch(u, b) : k = l \/ k = m
    BY <1>9
  <2> HIDE DEF e
  <2>3. w \in Words(u, b) /\ e \in Words(u, b)
    BY <1>10, <2>1, <2>2, Zenon
  <2>4. ASSUME NEW x \in Words(u, b) PROVE x = w \/ x = e
    <3>0. u.main[b].tag = "link"
      BY <1>9
    <3>1. PICK k \in Ch(u, b) : x = u.coll[k].word
      BY <3>0 DEF Words
    <3>2. k = l \/ k = m
      BY <2>2, <3>1
    <3>3. QED
      BY <1>10, <3>1, <3>2
  <2>5. QED
    BY <2>3, <2>4
<1>12. \A x : x \in Words(t, b) <=> x = e
  BY DEF Words
<1>13. BucketOK(u, b)
  <2>1. ChainOK(u, b)
    <3>1. l # m /\ u.coll[m].word.ptr # p /\ u.coll[l].word.ptr = p
      BY <1>3, <1>10
    <3>2. l \in Ch(u, b) /\ m \in Ch(u, b) /\ \A k \in Ch(u, b) : k = l \/ k = m
      BY <1>9
    <3>3. \E j, k \in Ch(u, b) : j # k
      BY <3>1, <3>2
    <3>4. ASSUME NEW j \in Ch(u, b), NEW k \in Ch(u, b), u.coll[j].word.ptr = u.coll[k].word.ptr PROVE j = k
      <4>1. CASE j = l
        BY <3>1, <3>2, <3>4, <4>1
      <4>2. CASE j = m
        BY <3>1, <3>2, <3>4, <4>2
      <4>3. QED
        BY <3>2, <4>1, <4>2
    <3>5. QED
      BY <3>3, <3>4 DEF ChainOK
  <2>2. \A x \in Words(u, b) : WordOK(x, b)
    BY <1>1, <1>11, <1>12 DEF BucketOK
  <2>3. QED
    BY <2>1, <2>2 DEF BucketOK
<1>14. Reworded(t, u, b, p, {w})
  BY <1>11, <1>12 DEF Reworded
<1>15. Become(t, u, p, {w})
  BY <1>4, <1>5, <1>6, <1>7, <1>13, <1>14, EntryEdited
<1>16. QED
  BY <1>12, <1>15 DEF At

-----------------------------------------------------------------------------
(* The overflow table.                                                     *)

BigCnt(big, p) == big[CHOOSE i \in DOMAIN big : big[i].ptr = p].cnt

\* The pointers of P have one slot each, and nobody else has one.
BigFits(big, P) ==
  /\ big \in Seq(Slot)
  /\ \A i \in DOMAIN big : big[i].ptr \in Ptr => big[i].ptr \in P /\ big[i].cnt >= MAX_GCCOUNT
  /\ \A i, j \in DOMAIN big : big[i].ptr \in Ptr /\ big[i].ptr = big[j].ptr => i = j
  /\ \A p \in P : \E i \in DOMAIN big : big[i].ptr = p

BigSame(big, new, P, p) == \A q \in P : q # p => BigCnt(new, q) = BigCnt(big, q)

LEMMA BigCntAt ==
  ASSUME NEW big, NEW P, BigFits(big, P), NEW p \in Ptr, NEW i \in DOMAIN big, big[i].ptr = p
  PROVE  /\ BigCnt(big, p) = big[i].cnt /\ i = (CHOOSE k \in DOMAIN big : big[k].ptr = p)
         /\ big[i].cnt \in Nat /\ big[i].cnt >= MAX_GCCOUNT
<1> DEFINE k == CHOOSE j \in DOMAIN big : big[j].ptr = p
<1>1. k \in DOMAIN big /\ big[k].ptr = p
  OBVIOUS
<1>2. k = i
  BY <1>1 DEF BigFits
<1>3. big[i] \in Slot /\ big[i].cnt >= MAX_GCCOUNT
  <2>1. big \in Seq(Slot)
    BY DEF BigFits
  <2>2. big[i] \in Slot
    BY <2>1
  <2>3. QED
    BY <2>2 DEF BigFits
<1>4. BigCnt(big, p) = big[k].cnt
  BY DEF BigCnt
<1>5. big[i].cnt \in Nat
  BY <1>3, TableAssumption DEF Slot
<1>6. QED
  BY <1>2, <1>3, <1>4, <1>5

\* A slot that is p's or free becomes one that is p's or free; P and Q are the
\* pointers with a slot before and after.
SlotSwap(old, slot, P, Q, p) ==
  /\ slot.ptr \in {p, ATOM_T} /\ old.ptr \in {p, ATOM_T}
  /\ slot.ptr = p => slot.cnt >= MAX_GCCOUNT
  /\ old.ptr = p \/ p \notin P
  /\ \A q : q \in Q <=> (IF slot.ptr = p THEN q = p \/ q \in P ELSE q # p /\ q \in P)

SlotSet(big, i, slot) == [big EXCEPT ![i] = slot]

\* Slot i is rewritten; the slots of the other pointers stay.
LEMMA BigRewrite ==
  ASSUME NEW big, NEW P, BigFits(big, P), P \subseteq Ptr, NEW i \in DOMAIN big, NEW slot \in Slot,
         NEW new, new = SlotSet(big, i, slot), NEW Q, NEW p \in Ptr, SlotSwap(big[i], slot, P, Q, p)
  PROVE  BigFits(new, Q) /\ BigSame(big, new, P, p) /\ (slot.ptr = p => BigCnt(new, p) = slot.cnt)
<1> USE DEF SlotSwap, SlotSet
<1>1. big \in Seq(Slot) /\ ATOM_T \notin Ptr
  BY TableAssumption DEF BigFits
<1>2. DOMAIN new = DOMAIN big /\ new[i] = slot /\ \A j \in DOMAIN big : j # i => new[j] = big[j]
  BY <1>1
<1>3. new \in Seq(Slot)
  BY <1>1
<1>4. \A j \in DOMAIN big : j # i /\ big[j].ptr = p => big[i].ptr # p /\ p \in P
  BY DEF BigFits
<1>5. \A j \in DOMAIN new : new[j].ptr \in Ptr => new[j].ptr \in Q /\ new[j].cnt >= MAX_GCCOUNT
  BY <1>1, <1>2, <1>4 DEF BigFits
<1>6. \A j, k \in DOMAIN new : new[j].ptr \in Ptr /\ new[j].ptr = new[k].ptr => j = k
  BY <1>1, <1>2, <1>4 DEF BigFits
<1>7. ASSUME NEW q \in Q PROVE \E j \in DOMAIN new : new[j].ptr = q
  <2>1. CASE q = p
    BY <1>2, <1>7, <2>1
  <2>2. CASE q # p
    <3>1. q \in P /\ q \in Ptr
      BY <1>7, <2>2
    <3>2. PICK j \in DOMAIN big : big[j].ptr = q
      BY <3>1 DEF BigFits
    <3>3. QED
      BY <1>1, <1>2, <2>2, <3>1, <3>2
  <2>3. QED
    BY <2>1, <2>2
<1>8. BigFits(new, Q)
  BY <1>3, <1>5, <1>6, <1>7 DEF BigFits
<1>9. ASSUME NEW q \in P, q # p PROVE BigCnt(new, q) = BigCnt(big, q)
  <2>1. PICK j \in DOMAIN big : big[j].ptr = q
    BY DEF BigFits
  <2>2. j # i /\ q \in Ptr
    BY <1>1, <1>9, <2>1
  <2>3. new[j] = big[j] /\ j \in DOMAIN new
    BY <1>2, <2>2
  <2>4. BigCnt(big, q) = big[j].cnt
    BY <2>1, <2>2, BigCntAt
  <2>5. BigCnt(new, q) = new[j].cnt
    BY <1>8, <2>1, <2>2, <2>3, BigCntAt
  <2>6. QED
    BY <2>3, <2>4, <2>5
<1>10. ASSUME slot.ptr = p PROVE BigCnt(new, p) = slot.cnt
  BY <1>2, <1>8, <1>10, BigCntAt
<1>11. QED
  BY <1>8, <1>9, <1>10 DEF BigSame

\* A slot after the last one.
LEMMA BigAppend ==
  ASSUME NEW big, NEW P, BigFits(big, P), P \subseteq Ptr, NEW p \in Ptr, p \notin P, NEW slot \in Slot,
         slot.ptr = p, slot.cnt >= MAX_GCCOUNT, NEW new, new = Append(big, slot)
  PROVE  BigFits(new, P \cup {p}) /\ BigSame(big, new, P, p) /\ BigCnt(new, p) = slot.cnt
<1> DEFINE Q == P \cup {p}
           n == Len(big) + 1
<1>1. big \in Seq(Slot)
  BY DEF BigFits
<1>2. new \in Seq(Slot) /\ DOMAIN new = 1 .. n /\ DOMAIN big = 1 .. n - 1 /\ n \in Nat \ {0}
      /\ new[n] = slot /\ \A j \in 1 .. n - 1 : new[j] = big[j]
  BY <1>1
<1> HIDE DEF n
<1>3. \A j \in 1 .. n : j = n \/ j \in 1 .. n - 1
  BY <1>2
<1>4. \A j \in 1 .. n - 1 : big[j].ptr # p
  BY <1>2 DEF BigFits
<1>5. \A j \in DOMAIN new : new[j].ptr \in Ptr => new[j].ptr \in Q /\ new[j].cnt >= MAX_GCCOUNT
  BY <1>2, <1>3 DEF BigFits
<1>6. \A j, k \in DOMAIN new : new[j].ptr \in Ptr /\ new[j].ptr = new[k].ptr => j = k
  BY <1>2, <1>3, <1>4 DEF BigFits
<1>7. ASSUME NEW q \in Q PROVE \E j \in DOMAIN new : new[j].ptr = q
  <2>1. CASE q = p
    BY <1>2, <2>1
  <2>2. CASE q # p
    <3>1. PICK j \in DOMAIN big : big[j].ptr = q
      BY <1>7, <2>2 DEF BigFits
    <3>2. QED
      BY <1>2, <3>1
  <2>3. QED
    BY <2>1, <2>2
<1>8. BigFits(new, Q)
  BY <1>2, <1>5, <1>6, <1>7 DEF BigFits
<1> HIDE DEF Q
<1>9. ASSUME NEW q \in P, q # p PROVE BigCnt(new, q) = BigCnt(big, q)
  <2>1. PICK j \in DOMAIN big : big[j].ptr = q
    BY DEF BigFits
  <2>2. q \in Ptr /\ new[j] = big[j] /\ j \in DOMAIN new
    BY <1>2, <2>1
  <2>3. BigCnt(big, q) = big[j].cnt
    BY <2>1, <2>2, BigCntAt
  <2>4. BigCnt(new, q) = new[j].cnt
    <3>1. new[j].ptr = q
      BY <2>1, <2>2
    <3>2. QED
      BY <1>8, <2>2, <3>1, BigCntAt
  <2>5. QED
    BY <2>2, <2>3, <2>4
<1>10. BigCnt(new, p) = slot.cnt
  <2>1. n \in DOMAIN new /\ new[n].ptr = p
    BY <1>2
  <2>2. QED
    <3>1. BigCnt(new, p) = new[n].cnt
      BY <1>8, <2>1, BigCntAt
    <3>2. QED
      BY <1>2, <3>1
<1>11. QED
  BY <1>8, <1>9, <1>10 DEF BigSame, Q

-----------------------------------------------------------------------------
(* What the table says about a pointer.                                    *)

Sat(t) == {p \in Ptr : \E w \in At(t, p) : w.count = MAX_GCCOUNT}

\* The table is in order.
TableOK(t) == Core(t, NoLinks) /\ BigFits(t.big, Sat(t))

LEMMA EntriesAre ==
  ASSUME NEW t, Core(t, NoLinks), NEW p \in Ptr
  PROVE  /\ \A s \in EntriesOf(t, p) : WordPlace(t, Hash[p], s) /\ GETGC(t, s).ptr = p /\ GETGC(t, s) \in At(t, p)
         /\ \A s, r \in EntriesOf(t, p) : s = r
         /\ At(t, p) # {} => EntriesOf(t, p) # {}
<1> DEFINE b == Hash[p]
<1>1. b \in Bucket /\ BucketOK(t, b) /\ t.main[b] \in Word /\ Ch(t, b) \subseteq Link
  BY CoreFacts
<1>2. \A s : s \in EntriesOf(t, p) <=> /\ s = Main(b) \/ \E l \in Ch(t, b) : s = Coll(l)
                                       /\ GETGC(t, s).tag = "entry" /\ GETGC(t, s).ptr = p
  <2>1. EntriesOf(t, p) = {s \in {Main(b)} \cup {Coll(l) : l \in Ch(t, b)} : LET w == GETGC(t, s) IN w.tag = "entry" /\ w.ptr = p}
    BY DEF EntriesOf, Ch
  <2> HIDE DEF b
  <2>2. QED
    BY <2>1
<1>3. GETGC(t, Main(b)) = t.main[b] /\ \A l : GETGC(t, Coll(l)) = t.coll[l].word
  BY DEF GETGC, Main, Coll
<1> HIDE DEF b
<1>4. CASE t.main[b].tag = "link"
  <2>1. \A s : s \in EntriesOf(t, p) <=> \E l \in Ch(t, b) : s = Coll(l) /\ t.coll[l].word.tag = "entry" /\ t.coll[l].word.ptr = p
    BY <1>2, <1>3, <1>4
  <2>2. \A w : w \in Words(t, b) <=> \E l \in Ch(t, b) : w = t.coll[l].word
    BY <1>4 DEF Words
  <2>3. \A l \in Ch(t, b) : t.coll[l].word.tag = "entry"
    BY <1>1, <2>2, TagsApart DEF BucketOK, WordOK
  <2>4. \A s \in EntriesOf(t, p) : WordPlace(t, b, s) /\ GETGC(t, s).ptr = p /\ GETGC(t, s) \in Words(t, b)
    BY <1>3, <1>4, <2>1, <2>2 DEF WordPlace
  <2>5. ASSUME NEW s \in EntriesOf(t, p), NEW r \in EntriesOf(t, p) PROVE s = r
    <3>1. PICK l \in Ch(t, b) : s = Coll(l) /\ t.coll[l].word.ptr = p
      BY <2>1
    <3>2. PICK k \in Ch(t, b) : r = Coll(k) /\ t.coll[k].word.ptr = p
      BY <2>1
    <3>3. l = k
      BY <1>1, <1>4, <3>1, <3>2 DEF BucketOK, ChainOK
    <3>4. QED
      BY <3>1, <3>2, <3>3
  <2>6. ASSUME NEW w \in At(t, p) PROVE \E s : s \in EntriesOf(t, p)
    <3>1. w \in Words(t, b) /\ w.ptr = p
      BY DEF At, b
    <3>2. PICK l \in Ch(t, b) : w = t.coll[l].word
      BY <2>2, <3>1
    <3>3. QED
      BY <2>1, <2>3, <3>1, <3>2
  <2>7. QED
    BY <2>4, <2>5, <2>6 DEF At, b
<1>5. CASE t.main[b].tag # "link"
  <2>1. Ch(t, b) = {}
    BY <1>5, NoChain
  <2>2. \A s : s \in EntriesOf(t, p) <=> s = Main(b) /\ t.main[b].tag = "entry" /\ t.main[b].ptr = p
    BY <1>2, <1>3, <2>1
  <2>3. \A w : w \in Words(t, b) <=> t.main[b].tag = "entry" /\ w = t.main[b]
    BY <1>5 DEF Words
  <2>4. \A s \in EntriesOf(t, p) : WordPlace(t, b, s) /\ GETGC(t, s).ptr = p /\ GETGC(t, s) \in Words(t, b)
    BY <1>3, <2>2, <2>3 DEF WordPlace
  <2>5. \A s, r \in EntriesOf(t, p) : s = r
    BY <2>2
  <2>6. ASSUME NEW w \in At(t, p) PROVE \E s : s \in EntriesOf(t, p)
    <3>1. w \in Words(t, b) /\ w.ptr = p
      BY DEF At, b
    <3>2. QED
      BY <2>2, <2>3, <3>1
  <2>7. QED
    BY <2>4, <2>5, <2>6 DEF At, b
<1>6. QED
  BY <1>4, <1>5

LEMMA NoEntry ==
  ASSUME NEW t, Core(t, NoLinks), NEW p \in Ptr, At(t, p) = {}
  PROVE  ~HasEntry(t, p) /\ RefCnt(t, p) = 1 /\ ~StkBit(t, p)
<1>1. EntriesOf(t, p) = {}
  BY EntriesAre
<1>2. QED
  BY <1>1 DEF HasEntry, RefCnt, StkBit

LEMMA OneEntry ==
  ASSUME NEW t, Core(t, NoLinks), NEW p \in Ptr, NEW w \in At(t, p)
  PROVE  /\ HasEntry(t, p) /\ (StkBit(t, p) <=> w.stk) /\ At(t, p) = {w}
         /\ RefCnt(t, p) = IF w.count < MAX_GCCOUNT THEN w.count ELSE BigCnt(t.big, p)
         /\ w \in EntryWord /\ w.ptr = p /\ ~NeedsNoEntry(w.count, w.stk)
<1>1. PICK s \in EntriesOf(t, p) : EntriesOf(t, p) = {s}
  BY EntriesAre
<1>2. Hash[p] \in Bucket /\ BucketOK(t, Hash[p])
  BY CoreFacts
<1>3. At(t, p) = {w} /\ WordOK(w, Hash[p]) /\ w.ptr = p
  BY <1>2, AtOne DEF At, BucketOK
<1>4. GETGC(t, s) = w
  BY <1>1, <1>3, EntriesAre
<1>5. (CHOOSE r \in EntriesOf(t, p) : TRUE) = s
  BY <1>1
<1>6. RefCnt(t, p) = IF w.count < MAX_GCCOUNT THEN w.count ELSE BigCnt(t.big, p)
  BY <1>1, <1>4, <1>5 DEF RefCnt, BigCnt
<1>7. HasEntry(t, p) /\ (StkBit(t, p) <=> w.stk)
  BY <1>1, <1>4 DEF HasEntry, StkBit
<1>8. QED
  BY <1>3, <1>6, <1>7 DEF WordOK

\* Nothing is said about the others.
LEMMA OthersStay ==
  ASSUME NEW t, TableOK(t), NEW u, Core(u, NoLinks), NEW q \in Ptr, At(u, q) = At(t, q),
         q \in Sat(t) => BigCnt(u.big, q) = BigCnt(t.big, q)
  PROVE  RefCnt(u, q) = RefCnt(t, q) /\ (StkBit(u, q) <=> StkBit(t, q)) /\ (HasEntry(u, q) <=> HasEntry(t, q))
<1>1. Core(t, NoLinks)
  BY DEF TableOK
<1>2. CASE At(t, q) = {}
  BY <1>1, <1>2, NoEntry
<1>3. CASE At(t, q) # {}
  <2>1. PICK w : w \in At(t, q)
    BY <1>3
  <2>2. w \in EntryWord
    BY <1>1, <2>1, OneEntry
  <2>3. ~(w.count < MAX_GCCOUNT) => q \in Sat(t)
    BY <2>1, <2>2, TableAssumption DEF Sat, EntryWord
  <2>4. QED
    BY <1>1, <2>1, <2>3, OneEntry
<1>4. QED
  BY <1>2, <1>3

\* An entry is there exactly when there is more to say than "count one".
LEMMA EntrySaysMore ==
  ASSUME NEW t, TableOK(t), NEW p \in Ptr
  PROVE  /\ HasEntry(t, p) <=> ~NeedsNoEntry(RefCnt(t, p), StkBit(t, p))
         /\ RefCnt(t, p) \in Nat
<1>1. Core(t, NoLinks)
  BY DEF TableOK
<1>2. CASE At(t, p) = {}
  BY <1>1, <1>2, NoEntry DEF NeedsNoEntry
<1>3. CASE At(t, p) # {}
  <2>1. PICK w : w \in At(t, p)
    BY <1>3
  <2>2. /\ HasEntry(t, p) /\ (StkBit(t, p) <=> w.stk)
        /\ RefCnt(t, p) = IF w.count < MAX_GCCOUNT THEN w.count ELSE BigCnt(t.big, p)
        /\ w \in EntryWord /\ ~NeedsNoEntry(w.count, w.stk)
    BY <1>1, <2>1, OneEntry
  <2>3. w.count \in 0 .. MAX_GCCOUNT
    BY <2>2 DEF EntryWord
  <2>4. CASE w.count < MAX_GCCOUNT
    BY <2>2, <2>3, <2>4, TableAssumption DEF NeedsNoEntry
  <2>5. CASE ~(w.count < MAX_GCCOUNT)
    <3>1. p \in Sat(t)
      BY <2>1, <2>3, <2>5, TableAssumption DEF Sat
    <3>2. PICK i \in DOMAIN t.big : t.big[i].ptr = p
      BY <3>1 DEF TableOK, BigFits
    <3>2a. BigFits(t.big, Sat(t))
      BY DEF TableOK
    <3>3. BigCnt(t.big, p) = t.big[i].cnt /\ t.big[i].cnt \in Nat /\ t.big[i].cnt >= MAX_GCCOUNT
      BY <3>2, <3>2a, BigCntAt
    <3>4. QED
      BY <2>2, <2>5, <3>3, TableAssumption DEF NeedsNoEntry
  <2>6. QED
    BY <2>4, <2>5
<1>4. QED
  BY <1>2, <1>3

\* Only counters and overflow slots change.
LEMMA SideEdit ==
  ASSUME NEW t, Core(t, NoLinks), NEW u \in Tables, u.hwm = t.hwm, u.free = t.free, u.main = t.main, u.coll = t.coll,
         t.disabled => u.disabled
  PROVE  Core(u, NoLinks) /\ \A p \in Ptr : At(u, p) = At(t, p)
<1>1. LinkInv(u, NoLinks) /\ \A c \in Bucket : Ch(u, c) = Ch(t, c)
  BY CountersEdit DEF Core
<1>2. \A c \in Bucket : SameBucket(t, u, c)
  BY <1>1 DEF SameBucket
<1>3. \A c \in Bucket : Words(u, c) = Words(t, c) /\ BucketOK(u, c)
  BY <1>2, SameBucketWords DEF Core
<1>4. \A p \in Ptr : Hash[p] \in Bucket
  BY TableAssumption
<1>5. QED
  BY <1>1, <1>3, <1>4 DEF Core, At

-----------------------------------------------------------------------------
(* What an operation on p's entry does to what the table says.             *)

\* The table now says count n and stack mark k of p, and of others what it did.
Says(t, u, p, n, k) ==
  /\ TableOK(u) /\ RefCnt(u, p) = n /\ (StkBit(u, p) <=> k)
  /\ \A q \in Ptr : q # p => /\ RefCnt(u, q) = RefCnt(t, q) /\ (StkBit(u, q) <=> StkBit(t, q))
                             /\ (HasEntry(u, q) <=> HasEntry(t, q))

SatAfter(t, p, S) == {q \in Sat(t) : q # p} \cup {q \in {p} : \E w \in S : w.count = MAX_GCCOUNT}

LEMMA SatIs ==
  ASSUME NEW t, NEW u, NEW p \in Ptr, NEW S, Now(t, u, p, S)
  PROVE  Sat(u) = SatAfter(t, p, S)
BY DEF Now, Sat, SatAfter

\* p has no entry any more.
LEMMA SaysOne ==
  ASSUME NEW t, TableOK(t), NEW p \in Ptr, NEW u, Core(u, NoLinks), Now(t, u, p, NoWords), u.big = t.big, p \notin Sat(t)
  PROVE  Says(t, u, p, 1, FALSE)
<1>1. Sat(u) = Sat(t)
  BY SatIs DEF SatAfter, NoWords
<1>2. TableOK(u)
  BY <1>1 DEF TableOK
<1>3. RefCnt(u, p) = 1 /\ ~StkBit(u, p)
  BY NoEntry DEF Now, NoWords
<1>4. \A q \in Ptr : q # p => /\ RefCnt(u, q) = RefCnt(t, q) /\ (StkBit(u, q) <=> StkBit(t, q))
                              /\ (HasEntry(u, q) <=> HasEntry(t, q))
  BY OthersStay DEF Now
<1>5. QED
  BY <1>2, <1>3, <1>4 DEF Says

\* p's entry is w now.
LEMMA SaysEntry ==
  ASSUME NEW t, TableOK(t), NEW p \in Ptr, NEW w, NEW u, Core(u, NoLinks), Now(t, u, p, {w}),
         NEW P, \A q : q \in P <=> (q \in Sat(t) /\ q # p) \/ (q = p /\ w.count = MAX_GCCOUNT),
         BigFits(u.big, P), BigSame(t.big, u.big, Sat(t), p)
  PROVE  Says(t, u, p, IF w.count < MAX_GCCOUNT THEN w.count ELSE BigCnt(u.big, p), w.stk)
<1>1. Sat(u) = P
  <2>1. Sat(u) = SatAfter(t, p, {w})
    BY SatIs
  <2>2. \A q : q \in SatAfter(t, p, {w}) <=> q \in P
    BY DEF SatAfter
  <2>3. QED
    BY <2>1, <2>2
<1>2. TableOK(u)
  BY <1>1 DEF TableOK
<1>3. w \in At(u, p)
  BY DEF Now
<1>4. /\ RefCnt(u, p) = IF w.count < MAX_GCCOUNT THEN w.count ELSE BigCnt(u.big, p)
      /\ (StkBit(u, p) <=> w.stk)
  BY <1>3, OneEntry
<1>5. \A q \in Ptr : q # p => /\ RefCnt(u, q) = RefCnt(t, q) /\ (StkBit(u, q) <=> StkBit(t, q))
                              /\ (HasEntry(u, q) <=> HasEntry(t, q))
  BY OthersStay DEF Now, BigSame
<1>6. QED
  BY <1>2, <1>4, <1>5 DEF Says

\* The same when the overflow table has no part in it.
LEMMA SaysSmall ==
  ASSUME NEW t, TableOK(t), NEW p \in Ptr, NEW w, NEW u, Core(u, NoLinks), Now(t, u, p, {w}), u.big = t.big,
         p \notin Sat(t), w.count \in 0 .. MAX_GCCOUNT - 1
  PROVE  Says(t, u, p, w.count, w.stk)
<1>1. w.count # MAX_GCCOUNT /\ w.count < MAX_GCCOUNT
  BY TableAssumption
<1>2. BigFits(u.big, Sat(t)) /\ BigSame(t.big, u.big, Sat(t), p)
  BY DEF TableOK, BigSame
<1>3. \A q : q \in Sat(t) <=> (q \in Sat(t) /\ q # p) \/ (q = p /\ w.count = MAX_GCCOUNT)
  BY <1>1
<1>4. QED
  BY <1>1, <1>2, <1>3, SaysEntry

\* Field updates of an entry.
LEMMA EntryWords ==
  ASSUME NEW e \in EntryWord
  PROVE  /\ \A c \in 0 .. MAX_GCCOUNT : LET w == [e EXCEPT !.count = c]
                                         IN  w \in EntryWord /\ w.ptr = e.ptr /\ w.count = c /\ w.stk = e.stk
         /\ \A k \in BOOLEAN : LET w == [e EXCEPT !.stk = k]
                               IN  w \in EntryWord /\ w.ptr = e.ptr /\ w.count = e.count /\ w.stk = k
BY DEF EntryWord

\* The states of p's entry before an operation on it.
LEMMA EntryAt ==
  ASSUME NEW t, TableOK(t), NEW p \in Ptr, NEW s, WordPlace(t, Hash[p], s), GETGC(t, s).ptr = p, NEW e, e = GETGC(t, s)
  PROVE  /\ e \in EntryWord /\ e.count \in 0 .. MAX_GCCOUNT /\ e.stk \in BOOLEAN /\ ~NeedsNoEntry(e.count, e.stk)
         /\ HasEntry(t, p) /\ (StkBit(t, p) <=> e.stk)
         /\ RefCnt(t, p) = IF e.count = MAX_GCCOUNT THEN BigCnt(t.big, p) ELSE e.count
         /\ p \in Sat(t) <=> e.count = MAX_GCCOUNT
         /\ e.count = MAX_GCCOUNT => \E i \in DOMAIN t.big : t.big[i].ptr = p
<1>1. At(t, p) = {e} /\ Core(t, NoLinks)
  BY PlaceAt DEF TableOK
<1>2. /\ e \in EntryWord /\ ~NeedsNoEntry(e.count, e.stk) /\ HasEntry(t, p) /\ (StkBit(t, p) <=> e.stk)
      /\ RefCnt(t, p) = IF e.count < MAX_GCCOUNT THEN e.count ELSE BigCnt(t.big, p)
  BY <1>1, OneEntry
<1>3. e.count \in 0 .. MAX_GCCOUNT /\ e.stk \in BOOLEAN
  BY <1>2 DEF EntryWord
<1>4. p \in Sat(t) <=> e.count = MAX_GCCOUNT
  BY <1>1 DEF Sat
<1>5. p \in Sat(t) => \E i \in DOMAIN t.big : t.big[i].ptr = p
  BY DEF TableOK, BigFits
<1>6. QED
  BY <1>2, <1>3, <1>4, <1>5, TableAssumption

\* A word below the threshold is stored in the place of p's entry, which was below it too.
LEMMA StoredSmall ==
  ASSUME NEW t, TableOK(t), NEW p \in Ptr, NEW s, WordPlace(t, Hash[p], s), GETGC(t, s).ptr = p, p \notin Sat(t),
         NEW w \in EntryWord, w.ptr = p, ~NeedsNoEntry(w.count, w.stk), w.count # MAX_GCCOUNT, NEW u, u = SetGC(t, s, w)
  PROVE  Says(t, u, p, w.count, w.stk) /\ Rest(t, u)
<1>1. WordOK(w, Hash[p]) /\ Core(t, NoLinks)
  BY DEF WordOK, TableOK
<1>2. Core(u, NoLinks) /\ Now(t, u, p, {w}) /\ Rest(t, u)
  BY <1>1, WordSet
<1>3. w.count \in 0 .. MAX_GCCOUNT - 1
  BY TableAssumption DEF EntryWord
<1>4. u.big = t.big
  BY <1>2 DEF Rest
<1>5. QED
  BY <1>2, <1>3, <1>4, SaysSmall

-----------------------------------------------------------------------------
(* ModEntry, case by case.                                                 *)

ModifiesBig(t, u, p, n, k) == Says(t, u, p, n, k) /\ u.cnt = t.cnt /\ u.min = t.min /\ u.disabled = t.disabled

\* A table with other overflow slots is one.
LEMMA BigTyped ==
  ASSUME NEW t \in Tables, NEW big \in Seq(Slot)
  PROVE  /\ [t EXCEPT !.big = big] \in Tables
         /\ LET u == [t EXCEPT !.big = big]
            IN  /\ u.big = big /\ u.hwm = t.hwm /\ u.free = t.free /\ u.main = t.main /\ u.coll = t.coll
                /\ u.cnt = t.cnt /\ u.min = t.min /\ u.disabled = t.disabled
BY DEF Tables

LEMMA BigSwap ==
  ASSUME NEW t, Core(t, NoLinks), NEW big \in Seq(Slot), NEW u, u = [t EXCEPT !.big = big]
  PROVE  /\ Core(u, NoLinks) /\ \A p \in Ptr : At(u, p) = At(t, p)
         /\ u.big = big /\ u.cnt = t.cnt /\ u.min = t.min /\ u.disabled = t.disabled
<1>1. t \in Tables
  BY DEF Core, LinkInv, Paths
<1>2. /\ u \in Tables /\ u.big = big /\ u.hwm = t.hwm /\ u.free = t.free /\ u.main = t.main /\ u.coll = t.coll
      /\ u.cnt = t.cnt /\ u.min = t.min /\ u.disabled = t.disabled
  BY <1>1, BigTyped
<1>3. QED
  BY <1>2, SideEdit

\* enter_big_reference_count: the count just reached the threshold.
LEMMA EnterBig ==
  ASSUME NEW t, TableOK(t), NEW p \in Ptr, NEW s, WordPlace(t, Hash[p], s), GETGC(t, s).ptr = p, p \notin Sat(t),
         NEW w \in EntryWord, w.ptr = p, w.count = MAX_GCCOUNT, NEW v, v = SetGC(t, s, w),
         NEW u, u = enter_big_reference_count(v, p)
  PROVE  ModifiesBig(t, u, p, MAX_GCCOUNT, w.stk)
<1>1. Core(v, NoLinks) /\ Now(t, v, p, {w}) /\ Rest(t, v)
  <2>1. WordOK(w, Hash[p]) /\ Core(t, NoLinks)
    BY TableAssumption DEF WordOK, TableOK, NeedsNoEntry
  <2>2. QED
    BY <2>1, WordSet
<1> DEFINE big == t.big
           P == Sat(t)
           Q == P \cup {p}
           slot == [ptr |-> p, cnt |-> MAX_GCCOUNT]
           stop == {i \in DOMAIN big : big[i].ptr = ATOM_T}
<1>2. big \in Seq(Slot) /\ BigFits(big, P) /\ P \subseteq Ptr /\ v.big = big
  BY <1>1 DEF TableOK, BigFits, Sat, Rest
<1>3. slot \in Slot /\ slot.ptr = p /\ slot.cnt = MAX_GCCOUNT /\ slot.cnt >= MAX_GCCOUNT
  BY TableAssumption DEF Slot
<1>4. \E new : u = [v EXCEPT !.big = new] /\ BigFits(new, Q) /\ BigSame(big, new, P, p) /\ BigCnt(new, p) = MAX_GCCOUNT
  <2>1. CASE stop = {}
    <3> DEFINE new == Append(big, slot)
    <3>1. u = [v EXCEPT !.big = new]
      BY <1>2, <2>1 DEF enter_big_reference_count
    <3>2. new = Append(big, slot)
      OBVIOUS
    <3> HIDE DEF slot, new, big, P
    <3>3. BigFits(new, P \cup {p}) /\ BigSame(big, new, P, p) /\ BigCnt(new, p) = slot.cnt
      BY <1>2, <1>3, <3>2, BigAppend DEF P
    <3>4. QED
      BY <1>3, <3>1, <3>3 DEF Q
  <2>2. CASE stop # {}
    <3> DEFINE i == CHOOSE j \in stop : \A k \in stop : j <= k
               new == [big EXCEPT ![i] = slot]
    <3>1. u = [v EXCEPT !.big = new]
      <4>1. u = [v EXCEPT !.big[CHOOSE j \in {k \in DOMAIN v.big : v.big[k].ptr = ATOM_T} :
                                 \A k \in {m \in DOMAIN v.big : v.big[m].ptr = ATOM_T} : j <= k] = slot]
        BY <1>2, <2>2 DEF enter_big_reference_count
      <4>2. v \in Tables
        BY <1>1 DEF Core, LinkInv, Paths
      <4>3. QED
        BY <1>2, <4>1, <4>2 DEF Tables
    <3>2. i \in DOMAIN big /\ big[i].ptr = ATOM_T
      <4>1. stop \subseteq Nat
        <5>1. DOMAIN big \subseteq Nat
          BY <1>2
        <5>2. QED
          BY <5>1
      <4>2. \E j \in stop : \A k \in stop : j <= k
        <5> HIDE DEF stop
        <5>1. PICK n \in stop : \A k \in stop : n <= k
          BY <2>2, <4>1, LeastMember
        <5>2. QED
          BY <5>1
      <4>3. i \in stop
        <5> HIDE DEF stop
        <5>1. QED
          BY <4>2
      <4>4. QED
        BY <4>3
    <3>3. new = SlotSet(big, i, slot)
      BY DEF SlotSet
    <3>4. SlotSwap(big[i], slot, P, Q, p)
      <4>1. slot.ptr = p /\ slot.cnt >= MAX_GCCOUNT /\ p \notin P
        BY <1>3
      <4> HIDE DEF slot, i, big
      <4>2. QED
        BY <3>2, <4>1 DEF SlotSwap
    <3> HIDE DEF slot, new, big, P, Q, i
    <3>5. BigFits(new, Q) /\ BigSame(big, new, P, p) /\ (slot.ptr = p => BigCnt(new, p) = slot.cnt)
      <4>1. BigFits(big, P) /\ P \subseteq Ptr /\ i \in DOMAIN big /\ slot \in Slot
        BY <1>2, <1>3, <3>2
      <4>2. QED
        BY <3>3, <3>4, <4>1, BigRewrite
    <3>6. QED
      BY <1>3, <3>1, <3>5
  <2>3. QED
    BY <2>1, <2>2
<1>5. PICK new : u = [v EXCEPT !.big = new] /\ BigFits(new, Q) /\ BigSame(big, new, P, p) /\ BigCnt(new, p) = MAX_GCCOUNT
  BY <1>4
<1>6. new \in Seq(Slot)
  BY <1>5 DEF BigFits
<1>7. /\ Core(u, NoLinks) /\ \A q \in Ptr : At(u, q) = At(v, q)
      /\ u.big = new /\ u.cnt = v.cnt /\ u.min = v.min /\ u.disabled = v.disabled
  BY <1>1, <1>5, <1>6, BigSwap
<1>8. Now(t, u, p, {w})
  BY <1>1, <1>7 DEF Now
<1>9. \A q : q \in Q <=> (q \in Sat(t) /\ q # p) \/ (q = p /\ w.count = MAX_GCCOUNT)
  OBVIOUS
<1> HIDE DEF Q, P, big
<1>10. Says(t, u, p, IF w.count < MAX_GCCOUNT THEN w.count ELSE BigCnt(u.big, p), w.stk)
  BY <1>5, <1>7, <1>8, <1>9, SaysEntry DEF P, big
<1>11. (IF w.count < MAX_GCCOUNT THEN w.count ELSE BigCnt(u.big, p)) = MAX_GCCOUNT
  BY <1>5, <1>7, TableAssumption
<1>12. QED
  BY <1>1, <1>7, <1>10, <1>11 DEF ModifiesBig, Rest

\* modify_big_reference_count: the count was past the threshold.
LEMMA ModifyBig ==
  ASSUME NEW t, TableOK(t), NEW p \in Ptr, NEW s, WordPlace(t, Hash[p], s), GETGC(t, s).ptr = p, p \in Sat(t),
         NEW op \in {"ADDREF", "DELREF", "STKREF"}, NEW u, u = modify_big_reference_count(t, s, op, p)
  PROVE  ModifiesBig(t, u, p, CASE op = "ADDREF" -> RefCnt(t, p) + 1 [] op = "DELREF" -> RefCnt(t, p) - 1
                                [] op = "STKREF" -> RefCnt(t, p), StkBit(t, p) \/ op = "STKREF")
<1> DEFINE e == GETGC(t, s)
           big == t.big
           P == Sat(t)
           i == CHOOSE k \in DOMAIN big : big[k].ptr = p
           c == big[i].cnt
<1>1. /\ e \in EntryWord /\ e.count = MAX_GCCOUNT /\ e.stk \in BOOLEAN /\ (StkBit(t, p) <=> e.stk)
      /\ RefCnt(t, p) = BigCnt(big, p) /\ \E k \in DOMAIN big : big[k].ptr = p
  BY EntryAt
<1>2. i \in DOMAIN big /\ big[i].ptr = p
  BY <1>1
<1>3. BigFits(big, P) /\ P \subseteq Ptr /\ big \in Seq(Slot) /\ Core(t, NoLinks) /\ At(t, p) = {e} /\ p \in P
  BY PlaceAt DEF TableOK, BigFits, Sat
<1>4. BigCnt(big, p) = c /\ c \in Nat /\ c >= MAX_GCCOUNT
  <2> HIDE DEF big, P, i
  <2>1. QED
    BY <1>2, <1>3, BigCntAt
<1>5. e.ptr = p /\ t \in Tables /\ e \in At(t, p)
  BY <1>3 DEF Core, LinkInv, Paths
<1>6. Now(t, t, p, {e})
  BY <1>3 DEF Now
<1>7. CASE op = "ADDREF" \/ (op = "DELREF" /\ ~BelowThreshold(c - 1))
  <2> DEFINE d == IF op = "ADDREF" THEN c + 1 ELSE c - 1
             slot == [ptr |-> p, cnt |-> d]
             new == SlotSet(big, i, slot)
  <2>1. d \in Nat /\ d >= MAX_GCCOUNT
    <3> HIDE DEF c
    <3>1. MAX_GCCOUNT \in Nat
      BY TableAssumption
    <3>2. CASE op = "ADDREF"
      BY <1>4, <3>1, <3>2
    <3>3. CASE op = "DELREF" /\ ~BelowThreshold(c - 1)
      BY <1>4, <3>1, <3>3 DEF BelowThreshold
    <3>4. QED
      BY <1>7, <3>2, <3>3
  <2>2. slot \in Slot /\ slot.ptr = p /\ slot.cnt = d
    BY <2>1 DEF Slot
  <2>3. u = [t EXCEPT !.big = new]
    <3>1. u = [t EXCEPT !.big[i].cnt = d]
      <4>1. CASE op = "ADDREF"
        BY <4>1 DEF modify_big_reference_count
      <4>2. CASE op = "DELREF" /\ ~BelowThreshold(c - 1)
        BY <4>2 DEF modify_big_reference_count
      <4>3. QED
        BY <1>7, <4>1, <4>2
    <3>2. big[i] \in Slot
      <4> HIDE DEF i, big
      <4>1. QED
        BY <1>2, <1>3
    <3>3. [big[i] EXCEPT !.cnt = d] = slot
      <4> HIDE DEF i, big, d
      <4>1. QED
        BY <1>2, <3>2 DEF Slot
    <3>4. u = [t EXCEPT !.big = [big EXCEPT ![i] = [big[i] EXCEPT !.cnt = d]]]
      BY <1>5, <3>1 DEF Tables
    <3>5. QED
      BY <3>3, <3>4 DEF SlotSet
  <2>4. new = SlotSet(big, i, slot) /\ SlotSwap(big[i], slot, P, P, p)
    <3> HIDE DEF slot
    <3>1. QED
      BY <1>2, <1>3, <2>1, <2>2 DEF SlotSwap
  <2> HIDE DEF slot, new, big, P, i, d, c
  <2>5. BigFits(new, P) /\ BigSame(big, new, P, p) /\ (slot.ptr = p => BigCnt(new, p) = slot.cnt)
    BY <1>2, <1>3, <2>2, <2>4, BigRewrite
  <2>6. new \in Seq(Slot)
    BY <2>5 DEF BigFits
  <2>7. /\ Core(u, NoLinks) /\ \A q \in Ptr : At(u, q) = At(t, q)
        /\ u.big = new /\ u.cnt = t.cnt /\ u.min = t.min /\ u.disabled = t.disabled
    BY <1>3, <2>3, <2>6, BigSwap
  <2>8. Now(t, u, p, {e})
    BY <1>3, <2>7 DEF Now
  <2>9. \A q : q \in P <=> (q \in Sat(t) /\ q # p) \/ (q = p /\ e.count = MAX_GCCOUNT)
    BY <1>1, <1>3 DEF P
  <2> HIDE DEF e
  <2>10. Says(t, u, p, IF e.count < MAX_GCCOUNT THEN e.count ELSE BigCnt(u.big, p), e.stk)
    BY <2>5, <2>7, <2>8, <2>9, SaysEntry DEF P, big
  <2>11. (IF e.count < MAX_GCCOUNT THEN e.count ELSE BigCnt(u.big, p)) = d
    BY <1>1, <2>2, <2>5, <2>7, TableAssumption
  <2>12. op # "STKREF"
    BY <1>7
  <2>13. Says(t, u, p, d, StkBit(t, p) \/ op = "STKREF")
    BY <1>1, <2>10, <2>11, <2>12 DEF Says
  <2>14. d = CASE op = "ADDREF" -> RefCnt(t, p) + 1 [] op = "DELREF" -> RefCnt(t, p) - 1
                                [] op = "STKREF" -> RefCnt(t, p)
    BY <1>1, <1>4, <1>7 DEF d
  <2>15. QED
    BY <2>7, <2>13, <2>14 DEF ModifiesBig
<1>8. CASE op = "DELREF" /\ BelowThreshold(c - 1)
  <2> DEFINE slot == UnusedSlot(big[i])
             new == SlotSet(big, i, slot)
             w == [e EXCEPT !.count = MAX_GCCOUNT - 1]
             v == SetGC(t, s, w)
             Q == {q \in P : q # p}
  <2>1. c = MAX_GCCOUNT
    BY <1>4, <1>8, TableAssumption DEF BelowThreshold
  <2>2. slot \in Slot /\ slot.ptr = ATOM_T /\ ATOM_T \notin Ptr
    BY <1>4, TableAssumption DEF Slot, UnusedSlot
  <2>3. w \in EntryWord /\ w.ptr = p /\ w.count = MAX_GCCOUNT - 1 /\ w.stk = e.stk
    BY <1>1, <1>5, EntryWords, TableAssumption
  <2>4. u = [v EXCEPT !.big = SlotSet(v.big, i, UnusedSlot(v.big[i]))]
    BY <1>8 DEF modify_big_reference_count, SlotSet
  <2>5. WordOK(w, Hash[p])
    BY <2>3, TableAssumption DEF WordOK, NeedsNoEntry
  <2> HIDE DEF w
  <2>6. Core(v, NoLinks) /\ Now(t, v, p, {w}) /\ Rest(t, v)
    BY <1>3, <1>5, <2>3, <2>5, WordSet
  <2> HIDE DEF v
  <2>7. u = [v EXCEPT !.big = new] /\ v.big = big
    BY <2>4, <2>6 DEF Rest
  <2>8. SlotSwap(big[i], slot, P, Q, p)
    <3> HIDE DEF slot, i
    <3>1. slot.ptr # p
      BY <2>2
    <3>2. \A q : q \in Q <=> (IF slot.ptr = p THEN q = p \/ q \in P ELSE q # p /\ q \in P)
      BY <3>1
    <3> HIDE DEF Q
    <3>3. QED
      BY <1>2, <2>2, <3>1, <3>2 DEF SlotSwap
  <2>9. new = SlotSet(big, i, slot)
    OBVIOUS
  <2>10. \A q : q \in Q <=> (q \in Sat(t) /\ q # p) \/ (q = p /\ w.count = MAX_GCCOUNT)
    BY <2>3, TableAssumption DEF P
  <2> HIDE DEF slot, new, big, P, i, Q, c
  <2>11. BigFits(new, Q) /\ BigSame(big, new, P, p)
    BY <1>2, <1>3, <2>2, <2>8, <2>9, BigRewrite
  <2>12. new \in Seq(Slot)
    BY <2>11 DEF BigFits
  <2>13. /\ Core(u, NoLinks) /\ \A q \in Ptr : At(u, q) = At(v, q)
         /\ u.big = new /\ u.cnt = v.cnt /\ u.min = v.min /\ u.disabled = v.disabled
    BY <2>6, <2>7, <2>12, BigSwap
  <2>14. Now(t, u, p, {w})
    BY <2>6, <2>13 DEF Now
  <2> HIDE DEF e
  <2>15. Says(t, u, p, IF w.count < MAX_GCCOUNT THEN w.count ELSE BigCnt(u.big, p), w.stk)
    BY <2>10, <2>11, <2>13, <2>14, SaysEntry DEF P, big
  <2>16. (IF w.count < MAX_GCCOUNT THEN w.count ELSE BigCnt(u.big, p)) = MAX_GCCOUNT - 1
    BY <2>3, TableAssumption
  <2>17. Says(t, u, p, MAX_GCCOUNT - 1, StkBit(t, p) \/ op = "STKREF")
    BY <1>1, <1>8, <2>3, <2>15, <2>16 DEF Says
  <2>18. MAX_GCCOUNT - 1 = CASE op = "ADDREF" -> RefCnt(t, p) + 1 [] op = "DELREF" -> RefCnt(t, p) - 1
                                [] op = "STKREF" -> RefCnt(t, p)
    BY <1>1, <1>4, <1>8, <2>1
  <2>19. QED
    BY <2>6, <2>13, <2>17, <2>18 DEF ModifiesBig, Rest
<1>9. CASE op = "STKREF"
  <2> DEFINE w == [e EXCEPT !.stk = TRUE]
  <2>1. w \in EntryWord /\ w.ptr = p /\ w.count = MAX_GCCOUNT /\ w.stk = TRUE
    BY <1>1, <1>5, EntryWords
  <2>2. u = SetGC(t, s, w)
    BY <1>9 DEF modify_big_reference_count
  <2>3. WordOK(w, Hash[p])
    BY <2>1, TableAssumption DEF WordOK, NeedsNoEntry
  <2> HIDE DEF w
  <2>4. Core(u, NoLinks) /\ Now(t, u, p, {w}) /\ Rest(t, u)
    <3> HIDE DEF e, big, P, i, c
    <3>1. QED
      BY <1>3, <1>5, <2>1, <2>2, <2>3, WordSet
  <2>5. u.big = big
    BY <2>4 DEF Rest
  <2>6. \A q : q \in P <=> (q \in Sat(t) /\ q # p) \/ (q = p /\ w.count = MAX_GCCOUNT)
    BY <1>3, <2>1
  <2>7. BigFits(u.big, P) /\ BigSame(t.big, u.big, Sat(t), p)
    BY <1>3, <2>5 DEF BigSame
  <2> HIDE DEF P, e, i, c, big
  <2>8. Says(t, u, p, IF w.count < MAX_GCCOUNT THEN w.count ELSE BigCnt(u.big, p), w.stk)
    BY <2>4, <2>6, <2>7, SaysEntry
  <2>9. (IF w.count < MAX_GCCOUNT THEN w.count ELSE BigCnt(u.big, p)) = RefCnt(t, p)
    BY <1>1, <2>1, <2>5, TableAssumption
  <2>10. Says(t, u, p, RefCnt(t, p), StkBit(t, p) \/ op = "STKREF")
    BY <1>9, <2>1, <2>8, <2>9 DEF Says
  <2>11. QED
    BY <1>9, <2>4, <2>10 DEF ModifiesBig, Rest
<1>10. QED
  BY <1>7, <1>8, <1>9

\* Both tables say the same of everything.
Agree(t, u) ==
  \A q \in Ptr : RefCnt(u, q) = RefCnt(t, q) /\ (StkBit(u, q) <=> StkBit(t, q)) /\ (HasEntry(u, q) <=> HasEntry(t, q))

\* u is t with other counters, and possibly disabled.
Recounted(t, u) ==
  /\ u \in Tables /\ u.hwm = t.hwm /\ u.free = t.free /\ u.main = t.main /\ u.coll = t.coll /\ u.big = t.big
  /\ t.disabled => u.disabled

LEMMA RecountedAgrees ==
  ASSUME NEW t, TableOK(t), NEW u, Recounted(t, u)
  PROVE  TableOK(u) /\ Agree(t, u)
<1>1. Core(u, NoLinks) /\ \A p \in Ptr : At(u, p) = At(t, p)
  BY SideEdit DEF Recounted, TableOK
<1>2. Sat(u) = Sat(t) /\ u.big = t.big
  BY <1>1 DEF Sat, Recounted
<1>3. TableOK(u)
  BY <1>1, <1>2 DEF TableOK
<1>4. Agree(t, u)
  BY <1>1, <1>2, OthersStay DEF Agree
<1>5. QED
  BY <1>3, <1>4

LEMMA SaysRecounted ==
  ASSUME NEW t, NEW u, NEW p \in Ptr, NEW n, NEW k, Says(t, u, p, n, k), NEW v, Recounted(u, v)
  PROVE  Says(t, v, p, n, k) /\ (HasEntry(v, p) <=> HasEntry(u, p))
<1>1. TableOK(v) /\ Agree(u, v)
  BY RecountedAgrees DEF Says
<1>2. QED
  BY <1>1 DEF Says, Agree

LEMMA CntEdit ==
  ASSUME NEW t \in Tables, NEW c \in Int, NEW u, u = [t EXCEPT !.cnt = c]
  PROVE  Recounted(t, u) /\ u.cnt = c /\ u.min = t.min /\ u.disabled = t.disabled
BY DEF Recounted, Tables

LEMMA IncDec ==
  ASSUME NEW t \in Tables
  PROVE  /\ Recounted(t, IncAllocCnt(t)) /\ Recounted(t, DecAllocCnt(t))
         /\ IncAllocCnt(t).cnt = IF t.cnt - 1 <= S_POSITIVE THEN S_POSITIVE ELSE t.cnt - 1
         /\ DecAllocCnt(t).cnt = t.cnt + 1
         /\ IncAllocCnt(t).min = t.min /\ IncAllocCnt(t).disabled = t.disabled
         /\ DecAllocCnt(t).min = t.min /\ DecAllocCnt(t).disabled = t.disabled
<1>1. t.cnt \in Int
  BY DEF Tables
<1> DEFINE c == IF t.cnt - 1 <= S_POSITIVE THEN S_POSITIVE ELSE t.cnt - 1
<1>2. c \in Int /\ t.cnt + 1 \in Int
  BY <1>1 DEF S_POSITIVE
<1>3. IncAllocCnt(t) = [t EXCEPT !.cnt = c] /\ DecAllocCnt(t) = [t EXCEPT !.cnt = t.cnt + 1]
  BY DEF IncAllocCnt, DecAllocCnt
<1> HIDE DEF c
<1>4. Recounted(t, IncAllocCnt(t)) /\ IncAllocCnt(t).cnt = c /\ IncAllocCnt(t).min = t.min /\ IncAllocCnt(t).disabled = t.disabled
  BY <1>2, <1>3, CntEdit
<1>5. Recounted(t, DecAllocCnt(t)) /\ DecAllocCnt(t).cnt = t.cnt + 1 /\ DecAllocCnt(t).min = t.min
      /\ DecAllocCnt(t).disabled = t.disabled
  BY <1>2, <1>3, CntEdit
<1>6. QED
  BY <1>4, <1>5 DEF c

-----------------------------------------------------------------------------
(* What a lookup does.                                                     *)

Ops == {"ADDREF", "DELREF", "STKREF"}
CountAfter(t, p, op) ==
  CASE op = "ADDREF" -> RefCnt(t, p) + 1 [] op = "DELREF" -> RefCnt(t, p) - 1 [] op = "STKREF" -> RefCnt(t, p)
StkAfter(t, p, op) == StkBit(t, p) \/ op = "STKREF"
Report(t, p, op) == IF op = "DELREF" /\ RefCnt(t, p) = 1 /\ ~StkBit(t, p) THEN p ELSE NIL

\* The countdown follows the entries, unless a reclamation runs.
CntAfter(t, u, p, rec) ==
  IF rec \/ (HasEntry(u, p) <=> HasEntry(t, p)) THEN t.cnt
  ELSE IF HasEntry(t, p) THEN t.cnt + 1
  ELSE IF t.cnt - 1 <= S_POSITIVE THEN S_POSITIVE ELSE t.cnt - 1

Counts(t, u, p, op, rec) ==
  /\ Says(t, u, p, CountAfter(t, p, op), StkAfter(t, p, op))
  /\ u.cnt = CntAfter(t, u, p, rec) /\ u.min = t.min /\ u.disabled = t.disabled

LEMMA TableTyped ==
  ASSUME NEW t, TableOK(t)
  PROVE  t \in Tables /\ Core(t, NoLinks)
BY DEF TableOK, Core, LinkInv, Paths

LEMMA ModEntryCounts ==
  ASSUME NEW t, TableOK(t), NEW p \in Ptr, NEW s, WordPlace(t, Hash[p], s), GETGC(t, s).ptr = p,
         NEW op \in Ops, op = "DELREF" => RefCnt(t, p) > 0,
         NEW rec \in BOOLEAN, NEW remove, Become(t, remove, p, NoWords), NEW u, u = ModEntry(t, s, op, p, rec, remove)
  PROVE  Counts(t, u, p, op, rec) /\ Report(t, p, op) = NIL
<1> DEFINE e == GETGC(t, s)
           c == IF op = "ADDREF" THEN e.count + 1 ELSE e.count - 1
           w == [e EXCEPT !.count = c]
           stored == SetGC(t, s, w)
<1>1. /\ e \in EntryWord /\ e.count \in 0 .. MAX_GCCOUNT /\ e.stk \in BOOLEAN /\ ~NeedsNoEntry(e.count, e.stk)
      /\ HasEntry(t, p) /\ (StkBit(t, p) <=> e.stk)
      /\ RefCnt(t, p) = IF e.count = MAX_GCCOUNT THEN BigCnt(t.big, p) ELSE e.count
      /\ (p \in Sat(t) <=> e.count = MAX_GCCOUNT)
  BY EntryAt
<1>2. Report(t, p, op) = NIL
  BY <1>1, EntrySaysMore DEF Report, NeedsNoEntry
<1>3. u = IF e.count = MAX_GCCOUNT THEN modify_big_reference_count(t, s, op, p)
          ELSE IF op = "STKREF" THEN SetGC(t, s, [e EXCEPT !.stk = TRUE])
          ELSE IF c = MAX_GCCOUNT THEN enter_big_reference_count(stored, p)
          ELSE IF NeedsNoEntry(c, e.stk) THEN IF rec THEN remove ELSE DecAllocCnt(remove)
          ELSE stored
  BY DEF ModEntry
<1>4. e.ptr = p
  OBVIOUS
<1> HIDE DEF e
\* As long as there is an entry the countdown stays.
<1>5. ASSUME NEW n, NEW k, Says(t, u, p, n, k), ~NeedsNoEntry(n, k), k \in BOOLEAN, u.cnt = t.cnt
      PROVE  u.cnt = CntAfter(t, u, p, rec)
  <2>1. HasEntry(u, p)
    BY <1>5, EntrySaysMore DEF Says, NeedsNoEntry
  <2>2. QED
    BY <1>1, <1>5, <2>1 DEF CntAfter
<1>6. CASE e.count = MAX_GCCOUNT
  <2>1. u = modify_big_reference_count(t, s, op, p) /\ p \in Sat(t)
    BY <1>1, <1>3, <1>6
  <2>2. ModifiesBig(t, u, p, CASE op = "ADDREF" -> RefCnt(t, p) + 1 [] op = "DELREF" -> RefCnt(t, p) - 1
                                [] op = "STKREF" -> RefCnt(t, p), StkBit(t, p) \/ op = "STKREF")
    BY <2>1, ModifyBig DEF Ops
  <2>3. ModifiesBig(t, u, p, CountAfter(t, p, op), StkAfter(t, p, op))
    BY <2>2 DEF CountAfter, StkAfter
  <2>4. RefCnt(t, p) \in Nat /\ RefCnt(t, p) >= MAX_GCCOUNT
    <3>1. PICK i \in DOMAIN t.big : t.big[i].ptr = p
      BY <1>6, EntryAt DEF e
    <3>1a. BigFits(t.big, Sat(t))
      BY DEF TableOK
    <3>2. BigCnt(t.big, p) = t.big[i].cnt /\ t.big[i].cnt \in Nat /\ t.big[i].cnt >= MAX_GCCOUNT
      BY <3>1, <3>1a, BigCntAt
    <3>3. QED
      BY <1>1, <1>6, <3>2
  <2>5. CountAfter(t, p, op) # 1
    BY <2>4, TableAssumption DEF CountAfter, Ops
  <2>6. StkAfter(t, p, op) \in BOOLEAN
    BY DEF StkAfter
  <2>7. u.cnt = CntAfter(t, u, p, rec)
    BY <1>5, <2>3, <2>5, <2>6 DEF ModifiesBig, NeedsNoEntry
  <2>8. QED
    BY <1>2, <2>3, <2>7 DEF ModifiesBig, Counts
<1>7. CASE e.count # MAX_GCCOUNT /\ op = "STKREF"
  <2> DEFINE x == [e EXCEPT !.stk = TRUE]
  <2>1. x \in EntryWord /\ x.ptr = p /\ x.count = e.count /\ x.stk = TRUE
    BY <1>1, <1>4, EntryWords
  <2>2. u = SetGC(t, s, x)
    BY <1>3, <1>7
  <2> HIDE DEF x
  <2>3. p \notin Sat(t) /\ ~NeedsNoEntry(x.count, x.stk) /\ x.count # MAX_GCCOUNT
    BY <1>1, <1>7, <2>1 DEF NeedsNoEntry
  <2>4. Says(t, u, p, x.count, x.stk) /\ Rest(t, u)
    BY <2>1, <2>2, <2>3, StoredSmall
  <2>5. u.cnt = CntAfter(t, u, p, rec)
    BY <1>5, <2>1, <2>3, <2>4 DEF Rest
  <2>6. x.count = CountAfter(t, p, op) /\ (x.stk <=> StkAfter(t, p, op))
    BY <1>1, <1>7, <2>1 DEF CountAfter, StkAfter
  <2>7. Says(t, u, p, CountAfter(t, p, op), StkAfter(t, p, op))
    BY <2>4, <2>6 DEF Says
  <2>8. QED
    BY <1>2, <2>4, <2>5, <2>7 DEF Counts, Rest
<1>8. CASE e.count # MAX_GCCOUNT /\ op # "STKREF"
  <2>1. c \in 0 .. MAX_GCCOUNT /\ c = CountAfter(t, p, op) /\ p \notin Sat(t) /\ (e.stk <=> StkAfter(t, p, op))
    BY <1>1, <1>8, TableAssumption DEF CountAfter, StkAfter, Ops
  <2>2. w \in EntryWord /\ w.ptr = p /\ w.count = c /\ w.stk = e.stk
    BY <1>1, <1>4, <2>1, EntryWords
  <2>3. stored = SetGC(t, s, w)
    OBVIOUS
  <2> HIDE DEF w, stored, c
  <2>4. CASE c = MAX_GCCOUNT
    <3>1. u = enter_big_reference_count(stored, p)
      BY <1>3, <1>8, <2>4
    <3>2. ModifiesBig(t, u, p, MAX_GCCOUNT, w.stk)
      BY <2>1, <2>2, <2>3, <2>4, <3>1, EnterBig
    <3>3. ~NeedsNoEntry(MAX_GCCOUNT, w.stk) /\ w.stk \in BOOLEAN
      BY <1>1, <2>2, TableAssumption DEF NeedsNoEntry
    <3>4. u.cnt = CntAfter(t, u, p, rec)
      BY <1>5, <3>2, <3>3 DEF ModifiesBig
    <3>5. Says(t, u, p, CountAfter(t, p, op), StkAfter(t, p, op))
      BY <2>1, <2>2, <2>4, <3>2 DEF ModifiesBig, Says
    <3>6. QED
      BY <1>2, <3>2, <3>4, <3>5 DEF ModifiesBig, Counts
  <2>5. CASE c # MAX_GCCOUNT /\ NeedsNoEntry(c, e.stk)
    <3>1. u = IF rec THEN remove ELSE DecAllocCnt(remove)
      BY <1>3, <1>8, <2>5
    <3>2. Core(remove, NoLinks) /\ Now(t, remove, p, NoWords) /\ Rest(t, remove) /\ remove \in Tables
      BY DEF Become, Core, LinkInv, Paths
    <3>3. Says(t, remove, p, 1, FALSE)
      BY <2>1, <3>2, SaysOne DEF Rest
    <3>4. ~HasEntry(remove, p)
      BY <3>2, NoEntry DEF Now, NoWords
    <3>5. c = 1 /\ ~e.stk
      BY <2>5 DEF NeedsNoEntry
    <3>6. Says(t, remove, p, CountAfter(t, p, op), StkAfter(t, p, op))
      BY <2>1, <3>3, <3>5 DEF Says
    <3>7. CASE rec
      BY <1>1, <1>2, <3>1, <3>2, <3>6, <3>7 DEF Counts, CntAfter, Rest
    <3>8. CASE ~rec
      <4>1. /\ u = DecAllocCnt(remove) /\ Recounted(remove, u) /\ u.cnt = remove.cnt + 1
            /\ u.min = remove.min /\ u.disabled = remove.disabled
        BY <3>1, <3>2, <3>8, IncDec
      <4>2. Says(t, u, p, CountAfter(t, p, op), StkAfter(t, p, op)) /\ ~HasEntry(u, p)
        BY <3>4, <3>6, <4>1, SaysRecounted
      <4>3. QED
        BY <1>1, <1>2, <3>2, <3>8, <4>1, <4>2 DEF Counts, CntAfter, Rest
    <3>9. QED
      BY <3>7, <3>8
  <2>6. CASE c # MAX_GCCOUNT /\ ~NeedsNoEntry(c, e.stk)
    <3>1. u = stored
      BY <1>3, <1>8, <2>6
    <3>2. Says(t, u, p, w.count, w.stk) /\ Rest(t, u)
      BY <2>1, <2>2, <2>3, <2>6, <3>1, StoredSmall
    <3>3. ~NeedsNoEntry(w.count, w.stk) /\ w.stk \in BOOLEAN
      BY <1>1, <2>2, <2>6
    <3>4. u.cnt = CntAfter(t, u, p, rec)
      BY <1>5, <3>2, <3>3 DEF Rest
    <3>5. Says(t, u, p, CountAfter(t, p, op), StkAfter(t, p, op))
      BY <2>1, <2>2, <3>2 DEF Says
    <3>6. QED
      BY <1>2, <3>2, <3>4, <3>5 DEF Counts, Rest
  <2>7. QED
    BY <2>4, <2>5, <2>6
<1>9. QED
  BY <1>6, <1>7, <1>8

\* The word NewEntry makes for p.
FirstWord(p, op) ==
  CASE op = "ADDREF" -> HashEntry(p, 2, FALSE) [] op = "DELREF" -> HashEntry(p, 0, FALSE)
    [] op = "STKREF" -> HashEntry(p, 1, TRUE)

LEMMA FirstWordOK ==
  ASSUME NEW p \in Ptr, NEW op \in Ops, NEW w, w = FirstWord(p, op)
  PROVE  /\ WordOK(w, Hash[p]) /\ w.ptr = p /\ w.count \in 0 .. MAX_GCCOUNT - 1 /\ w.stk \in BOOLEAN
         /\ op = "ADDREF" => w.count = 2 /\ ~w.stk
         /\ op = "DELREF" => w.count = 0 /\ ~w.stk
         /\ op = "STKREF" => w.count = 1 /\ w.stk
<1>1. 2 \in 0 .. MAX_GCCOUNT - 1 /\ 0 \in 0 .. MAX_GCCOUNT - 1 /\ 1 \in 0 .. MAX_GCCOUNT - 1
      /\ 0 .. MAX_GCCOUNT - 1 \subseteq 0 .. MAX_GCCOUNT
  BY TableAssumption
<1>2. CASE op = "ADDREF"
  <2>1. w = HashEntry(p, 2, FALSE)
    BY <1>2 DEF FirstWord
  <2>2. w \in EntryWord /\ w.ptr = p /\ w.count = 2 /\ w.stk = FALSE
    BY <1>1, <2>1 DEF HashEntry, EntryWord
  <2>3. WordOK(w, Hash[p])
    BY <2>2 DEF WordOK, NeedsNoEntry
  <2>4. QED
    BY <1>1, <1>2, <2>2, <2>3
<1>3. CASE op = "DELREF"
  <2>1. w = HashEntry(p, 0, FALSE)
    BY <1>3 DEF FirstWord
  <2>2. w \in EntryWord /\ w.ptr = p /\ w.count = 0 /\ w.stk = FALSE
    BY <1>1, <2>1 DEF HashEntry, EntryWord
  <2>3. WordOK(w, Hash[p])
    BY <2>2 DEF WordOK, NeedsNoEntry
  <2>4. QED
    BY <1>1, <1>3, <2>2, <2>3
<1>4. CASE op = "STKREF"
  <2>1. w = HashEntry(p, 1, TRUE)
    BY <1>4 DEF FirstWord
  <2>2. w \in EntryWord /\ w.ptr = p /\ w.count = 1 /\ w.stk = TRUE
    BY <1>1, <2>1 DEF HashEntry, EntryWord
  <2>3. WordOK(w, Hash[p])
    BY <2>2 DEF WordOK, NeedsNoEntry
  <2>4. QED
    BY <1>1, <1>4, <2>2, <2>3
<1>5. QED
  BY <1>2, <1>3, <1>4 DEF Ops

LEMMA NewEntryIs ==
  ASSUME NEW t, NEW s, NEW op \in Ops, NEW p, NEW rec, NEW v, v = SetGC(t, s, FirstWord(p, op))
  PROVE  NewEntry(t, s, op, p, rec) = [t |-> IF rec THEN v ELSE IncAllocCnt(v), val |-> NewZeroEntry(op, p)]
BY DEF NewEntry, FirstWord

\* p had no entry; v is t with the first word for it.
LEMMA NewEntryCounts ==
  ASSUME NEW t, TableOK(t), NEW p \in Ptr, At(t, p) = {}, NEW op \in Ops, NEW rec \in BOOLEAN,
         NEW w, w = FirstWord(p, op), NEW v, Become(t, v, p, {w}),
         NEW u, u = IF rec THEN v ELSE IncAllocCnt(v)
  PROVE  Counts(t, u, p, op, rec) /\ NewZeroEntry(op, p) = Report(t, p, op)
<1>1. ~HasEntry(t, p) /\ RefCnt(t, p) = 1 /\ ~StkBit(t, p) /\ p \notin Sat(t)
  BY TableTyped, NoEntry DEF Sat
<1>2. /\ WordOK(w, Hash[p]) /\ w.count \in 0 .. MAX_GCCOUNT - 1 /\ w.stk \in BOOLEAN
      /\ op = "ADDREF" => w.count = 2 /\ ~w.stk
      /\ op = "DELREF" => w.count = 0 /\ ~w.stk
      /\ op = "STKREF" => w.count = 1 /\ w.stk
  BY FirstWordOK
<1>3. Core(v, NoLinks) /\ Now(t, v, p, {w}) /\ Rest(t, v)
  BY DEF Become
<1>4. Says(t, v, p, w.count, w.stk)
  BY <1>1, <1>2, <1>3, SaysSmall DEF Rest
<1>5. w.count = CountAfter(t, p, op) /\ (w.stk <=> StkAfter(t, p, op))
  BY <1>1, <1>2 DEF CountAfter, StkAfter, Ops
<1>6. Says(t, v, p, CountAfter(t, p, op), StkAfter(t, p, op))
  BY <1>4, <1>5 DEF Says
<1>7. HasEntry(v, p)
  <2>1. w \in At(v, p)
    BY <1>3 DEF Now
  <2>2. QED
    BY <1>3, <2>1, OneEntry
<1>8. NewZeroEntry(op, p) = Report(t, p, op)
  BY <1>1 DEF NewZeroEntry, Report
<1>9. CASE rec
  BY <1>1, <1>3, <1>6, <1>7, <1>8, <1>9 DEF Counts, CntAfter, Rest
<1>10. CASE ~rec
  <2>1. v \in Tables /\ u = IncAllocCnt(v)
    BY <1>3, <1>10 DEF Core, LinkInv, Paths
  <2>2. /\ Recounted(v, u) /\ u.cnt = (IF v.cnt - 1 <= S_POSITIVE THEN S_POSITIVE ELSE v.cnt - 1)
        /\ u.min = v.min /\ u.disabled = v.disabled
    BY <2>1, IncDec
  <2>3. Says(t, u, p, CountAfter(t, p, op), StkAfter(t, p, op)) /\ HasEntry(u, p)
    BY <1>6, <1>7, <2>2, SaysRecounted
  <2>4. QED
    BY <1>1, <1>3, <1>8, <1>10, <2>2, <2>3 DEF Counts, CntAfter, Rest
<1>11. QED
  BY <1>9, <1>10

\* GetLink ran out: the collector is off, the table as it was.
SwitchedOff(t, u) ==
  /\ TableOK(u) /\ Agree(t, u) /\ u.disabled /\ u.cnt = CntNIL /\ u.min = CntNIL

LEMMA DisableEdit ==
  ASSUME NEW t \in Tables, NEW u, u = disablegc1(t)
  PROVE  Recounted(t, u) /\ u.disabled /\ u.cnt = CntNIL /\ u.min = CntNIL
<1>1. CntNIL \in Int /\ CntNIL \in {CntNIL, ReclaimMin}
  BY DEF CntNIL
<1>2. u = [t EXCEPT !.cnt = CntNIL, !.min = CntNIL, !.disabled = TRUE]
  BY DEF disablegc1
<1> HIDE DEF CntNIL
<1>3. QED
  BY <1>1, <1>2 DEF Recounted, Tables

LEMMA DisabledAgrees ==
  ASSUME NEW t, TableOK(t), NEW u, u = disablegc1(t)
  PROVE  SwitchedOff(t, u)
<1>1. t \in Tables
  BY TableTyped
<1>2. Recounted(t, u) /\ u.disabled /\ u.cnt = CntNIL /\ u.min = CntNIL
  BY <1>1, DisableEdit
<1>3. QED
  BY <1>2, RecountedAgrees DEF SwitchedOff

\* The outcome of a lookup that was not about to be ignored.
Looked(t, u, val, p, op, rec) ==
  \/ SwitchedOff(t, u) /\ val = NIL
  \/ Counts(t, u, p, op, rec) /\ val = Report(t, p, op)

\* GetLink ran out with link l already taken: l is lost.
LEMMA LostLink ==
  ASSUME NEW t, TableOK(t), ~t.disabled, NEW l, l \notin NoLinks, NEW g, LinkInv(g, NoLinks \cup {l}), Handed(t, g, l),
         NEW u, u = disablegc1(g)
  PROVE  SwitchedOff(t, u)
<1>1. g \in Tables /\ Core(t, NoLinks)
  BY TableTyped DEF LinkInv, Paths
<1>2. Recounted(g, u) /\ u.disabled /\ u.cnt = CntNIL /\ u.min = CntNIL
  BY <1>1, DisableEdit
<1>3. LinkInv(u, NoLinks \cup {l}) /\ \A c \in Bucket : Ch(u, c) = Ch(g, c)
  BY <1>2, CountersEdit DEF Recounted
<1>4. LinkInv(u, NoLinks)
  BY <1>2, <1>3 DEF LinkInv, Apart, Accounted, NoLinks
<1>5. u.main = t.main /\ u.coll = t.coll /\ u.big = t.big /\ \A c \in Bucket : Ch(u, c) = Ch(t, c)
  BY <1>2, <1>3 DEF Handed, Recounted
<1>6. \A c \in Bucket : SameBucket(t, u, c)
  BY <1>5 DEF SameBucket
<1>7. \A c \in Bucket : Words(u, c) = Words(t, c) /\ BucketOK(u, c)
  BY <1>1, <1>6, SameBucketWords DEF Core
<1>8. Core(u, NoLinks)
  BY <1>4, <1>7 DEF Core
<1>9. \A q \in Ptr : At(u, q) = At(t, q)
  BY <1>7, TableAssumption DEF At
<1>10. TableOK(u)
  <2>1. Sat(u) = Sat(t)
    BY <1>9 DEF Sat
  <2>2. QED
    BY <1>5, <1>8, <2>1 DEF TableOK
<1>11. Agree(t, u)
  BY <1>5, <1>8, <1>9, OthersStay DEF Agree
<1>12. QED
  BY <1>2, <1>10, <1>11 DEF SwitchedOff

\* NewEntry in a place made for it.
LEMMA EntryMade ==
  ASSUME NEW t, TableOK(t), NEW p \in Ptr, NEW op \in Ops, NEW rec \in BOOLEAN, NEW g, NEW s,
         NEW w, w = FirstWord(p, op), NEW v, v = SetGC(g, s, w), Become(t, v, p, {w}), At(t, p) = {},
         NEW r, r = NewEntry(g, s, op, p, rec)
  PROVE  Looked(t, r.t, r.val, p, op, rec)
<1> DEFINE u == IF rec THEN v ELSE IncAllocCnt(v)
<1>1. r = [t |-> u, val |-> NewZeroEntry(op, p)]
  BY NewEntryIs
<1>2. u = IF rec THEN v ELSE IncAllocCnt(v)
  OBVIOUS
<1> HIDE DEF u
<1>3. Counts(t, u, p, op, rec) /\ NewZeroEntry(op, p) = Report(t, p, op)
  BY <1>2, NewEntryCounts
<1>4. QED
  BY <1>1, <1>3 DEF Looked

LEMMA NewCollisionLooked ==
  ASSUME NEW t, TableOK(t), ~t.disabled, NEW p \in Ptr, NEW op \in Ops, NEW rec \in BOOLEAN, NEW b, b = Hash[p],
         t.main[b].tag = "entry", t.main[b].ptr # p, NEW r, r = NewCollision(t, b, op, p, rec)
  PROVE  Looked(t, r.t, r.val, p, op, rec)
<1> DEFINE l == GetLink(t).link
           g1 == GetLink(t).t
           m == GetLink(g1).link
           g == GetLink(g1).t
           v == [g EXCEPT !.coll[m] = [word |-> t.main[b], next |-> 0], !.coll[l].next = m, !.main[b] = LinkWord(l)]
           w == FirstWord(p, op)
           u == SetGC(v, Coll(l), w)
<1>1. r = IF l = 0 THEN [t |-> g1, val |-> NIL] ELSE IF m = 0 THEN [t |-> g, val |-> NIL]
          ELSE NewEntry(v, Coll(l), op, p, rec)
  BY DEF NewCollision
<1>2. /\ l = GetLink(t).link /\ g1 = GetLink(t).t /\ m = GetLink(g1).link /\ g = GetLink(g1).t
      /\ v = [g EXCEPT !.coll[m] = [word |-> t.main[b], next |-> 0], !.coll[l].next = m, !.main[b] = LinkWord(l)]
      /\ w = FirstWord(p, op) /\ u = SetGC(v, Coll(l), w)
  OBVIOUS
<1> HIDE DEF l, g1, m, g, v, w, u
<1>3. LinkInv(t, NoLinks) /\ Core(t, NoLinks)
  BY DEF TableOK, Core
<1>4. \/ l = 0 /\ g1 = disablegc1(t)
      \/ l # 0 /\ l \notin NoLinks /\ LinkInv(g1, NoLinks \cup {l}) /\ Handed(t, g1, l)
  BY <1>2, <1>3, GetLinkTakes
<1>5. CASE l = 0
  <2>1. r = [t |-> g1, val |-> NIL] /\ g1 = disablegc1(t)
    BY <1>1, <1>4, <1>5
  <2>2. QED
    BY <2>1, DisabledAgrees DEF Looked
<1>6. CASE l # 0
  <2> DEFINE X == NoLinks \cup {l}
  <2>1. X = NoLinks \cup {l}
    OBVIOUS
  <2> HIDE DEF X
  <2>2. l \notin NoLinks /\ LinkInv(g1, X) /\ Handed(t, g1, l) /\ ~g1.disabled
    BY <1>4, <1>6, <2>1 DEF Handed
  <2>3. \/ m = 0 /\ g = disablegc1(g1)
        \/ m # 0 /\ m \notin X /\ LinkInv(g, X \cup {m}) /\ Handed(g1, g, m)
    BY <1>2, <2>2, GetLinkTakes
  <2>4. CASE m = 0
    <3>1. r = [t |-> g, val |-> NIL] /\ g = disablegc1(g1)
      BY <1>1, <1>6, <2>3, <2>4
    <3>2. QED
      BY <2>1, <2>2, <3>1, LostLink DEF Looked
  <2>5. CASE m # 0
    <3>1. r = NewEntry(v, Coll(l), op, p, rec)
      BY <1>1, <1>6, <2>5
    <3>2. WordOK(w, b) /\ w.ptr = p
      BY <1>2, FirstWordOK
    <3>3. Become(t, u, p, {w}) /\ At(t, p) = {}
      <4>1. /\ l \notin NoLinks /\ m \notin NoLinks \cup {l} /\ LinkInv(g, (NoLinks \cup {l}) \cup {m})
            /\ Handed(t, g1, l) /\ Handed(g1, g, m)
        BY <2>1, <2>2, <2>3, <2>5
      <4>2. /\ v = [g EXCEPT !.coll[m] = [word |-> t.main[b], next |-> 0], !.coll[l].next = m, !.main[b] = LinkWord(l)]
            /\ u = SetGC(v, Coll(l), w)
        BY <1>2
      <4>3. QED
        BY <1>3, <3>2, <4>1, <4>2, PairAdded
    <3>4. QED
      BY <1>2, <3>1, <3>3, EntryMade
  <2>6. QED
    BY <2>4, <2>5
<1>7. QED
  BY <1>5, <1>6

LEMMA NoLinkLooked ==
  ASSUME NEW t, TableOK(t), ~t.disabled, NEW p \in Ptr, NEW op \in Ops, NEW rec \in BOOLEAN, NEW b, b = Hash[p],
         t.main[b].tag = "link", \A k \in Ch(t, b) : t.coll[k].word.ptr # p, NEW r, r = NoLink(t, b, op, p, rec)
  PROVE  Looked(t, r.t, r.val, p, op, rec)
<1> DEFINE l == GetLink(t).link
           g == GetLink(t).t
           v == [g EXCEPT !.coll[l].next = t.main[b].link, !.main[b] = LinkWord(l)]
           w == FirstWord(p, op)
           u == SetGC(v, Coll(l), w)
<1>1. r = IF l = 0 THEN [t |-> g, val |-> NIL] ELSE NewEntry(v, Coll(l), op, p, rec)
  BY DEF NoLink
<1>2. /\ l = GetLink(t).link /\ g = GetLink(t).t
      /\ v = [g EXCEPT !.coll[l].next = t.main[b].link, !.main[b] = LinkWord(l)]
      /\ w = FirstWord(p, op) /\ u = SetGC(v, Coll(l), w)
  OBVIOUS
<1> HIDE DEF l, g, v, w, u
<1>3. LinkInv(t, NoLinks) /\ Core(t, NoLinks)
  BY DEF TableOK, Core
<1>4. \/ l = 0 /\ g = disablegc1(t)
      \/ l # 0 /\ l \notin NoLinks /\ LinkInv(g, NoLinks \cup {l}) /\ Handed(t, g, l)
  BY <1>2, <1>3, GetLinkTakes
<1>5. CASE l = 0
  <2>1. r = [t |-> g, val |-> NIL] /\ g = disablegc1(t)
    BY <1>1, <1>4, <1>5
  <2>2. QED
    BY <2>1, DisabledAgrees DEF Looked
<1>6. CASE l # 0
  <2>1. r = NewEntry(v, Coll(l), op, p, rec)
    BY <1>1, <1>6
  <2>2. WordOK(w, b) /\ w.ptr = p
    BY <1>2, FirstWordOK
  <2>3. Become(t, u, p, {w}) /\ At(t, p) = {}
    <3>1. l \notin NoLinks /\ LinkInv(g, NoLinks \cup {l}) /\ Handed(t, g, l)
      BY <1>4, <1>6
    <3>2. v = [g EXCEPT !.coll[l].next = t.main[b].link, !.main[b] = LinkWord(l)] /\ u = SetGC(v, Coll(l), w)
      BY <1>2
    <3>3. QED
      BY <1>3, <2>2, <3>1, <3>2, LinkAdded
  <2>4. QED
    BY <1>2, <2>1, <2>3, EntryMade
<1>7. QED
  BY <1>5, <1>6

\* htfind and rec_htfind.  Only a pointer without an entry can overflow the table.
LEMMA HtfindLooked ==
  ASSUME NEW t, TableOK(t), ~t.disabled, NEW p \in Ptr, NEW op \in Ops, op = "DELREF" => RefCnt(t, p) > 0,
         NEW rec \in BOOLEAN, NEW r, r = htfindAs(t, p, op, rec)
  PROVE  Looked(t, r.t, r.val, p, op, rec) /\ (At(t, p) # {} => ~r.t.disabled)
<1> DEFINE b == Hash[p]
           ch == Chain(t, b)
           e == t.main[b]
           at == {i \in DOMAIN ch : t.coll[ch[i]].word.ptr = p}
           i == CHOOSE k \in at : TRUE
           del == DelLink(t, ch[i], PrevInChain(ch, i), b)
           emptied == SetGC(t, Main(b), Empty)
<1>1. b = Hash[p] /\ e = t.main[b] /\ e \in Word /\ Core(t, NoLinks)
  BY TableTyped, CoreFacts
<1>2. e.tag \in {"empty", "entry", "link"}
  BY <1>1, TagsApart
<1>3. CASE e.tag = "empty"
  <2>1. r = NewEntry(t, Main(b), op, p, rec)
    BY <1>3 DEF htfindAs
  <2> DEFINE w == FirstWord(p, op)
             v == SetGC(t, Main(b), w)
  <2>2. w = FirstWord(p, op) /\ v = SetGC(t, Main(b), w)
    OBVIOUS
  <2> HIDE DEF w, v, b, e
  <2>3. WordOK(w, b) /\ w.ptr = p
    BY <1>1, <2>2, FirstWordOK
  <2>4. Become(t, v, p, {w}) /\ At(t, p) = {}
    BY <1>1, <1>3, <2>2, <2>3, EmptyFilled
  <2>5. QED
    BY <2>1, <2>2, <2>4, EntryMade
<1>4. CASE e.tag = "entry" /\ e.ptr = p
  <2>1. r = [t |-> ModEntry(t, Main(b), op, p, rec, emptied), val |-> NIL]
    BY <1>4 DEF htfindAs
  <2>2. Become(t, emptied, p, NoWords)
    BY <1>1, <1>4, MainEmptied
  <2>3. WordPlace(t, Hash[p], Main(b)) /\ GETGC(t, Main(b)).ptr = p
    BY <1>4 DEF WordPlace, GETGC, Main
  <2> DEFINE s == Main(b)
             u == ModEntry(t, s, op, p, rec, emptied)
  <2>4. r.t = u /\ r.val = NIL /\ u = ModEntry(t, s, op, p, rec, emptied) /\ WordPlace(t, Hash[p], s) /\ GETGC(t, s).ptr = p
    BY <2>1, <2>3
  <2> HIDE DEF s, u, emptied, b, e
  <2>5. Counts(t, u, p, op, rec) /\ Report(t, p, op) = NIL
    BY <2>2, <2>4, ModEntryCounts
  <2>6. QED
    BY <2>4, <2>5 DEF Looked, Counts
<1>5. CASE e.tag = "entry" /\ e.ptr # p
  <2>1. r = NewCollision(t, b, op, p, rec)
    BY <1>5 DEF htfindAs
  <2>2. At(t, p) = {}
    BY <1>5 DEF At, Words
  <2> HIDE DEF b
  <2>3. QED
    BY <1>1, <1>5, <2>1, <2>2, NewCollisionLooked
<1>6. CASE e.tag = "link" /\ at # {}
  <2>1. r = [t |-> ModEntry(t, Coll(ch[i]), op, p, rec, del), val |-> NIL]
    BY <1>6 DEF htfindAs
  <2>2. i \in DOMAIN ch /\ t.coll[ch[i]].word.ptr = p
    <3>1. i \in at
      BY <1>6
    <3>2. QED
      BY <3>1
  <2> DEFINE s == Coll(ch[i])
             u == ModEntry(t, s, op, p, rec, del)
  <2>3. WordPlace(t, b, s) /\ GETGC(t, s).ptr = p
    BY <1>6, <2>2 DEF WordPlace, GETGC, Coll, Ch
  <2>4. s = Coll(ch[i]) /\ u = ModEntry(t, s, op, p, rec, del)
    OBVIOUS
  <2>5. i \in DOMAIN Chain(t, b) /\ t.coll[Chain(t, b)[i]].word.ptr = p
        /\ del = DelLink(t, Chain(t, b)[i], PrevInChain(Chain(t, b), i), b)
    BY <2>2
  <2> HIDE DEF s, u, del, i, b, e, ch
  <2>9. r = [t |-> u, val |-> NIL]
    BY <2>1, <2>4
  <2>6. Become(t, del, p, NoWords)
    BY <1>1, <1>6, <2>5, LinkDeleted
  <2>7. Counts(t, u, p, op, rec) /\ Report(t, p, op) = NIL
    BY <1>1, <2>3, <2>4, <2>6, ModEntryCounts
  <2>8. QED
    BY <2>7, <2>9 DEF Looked, Counts
<1>7. CASE e.tag = "link" /\ at = {}
  <2>1. r = NoLink(t, b, op, p, rec)
    BY <1>7 DEF htfindAs
  <2>2. \A k \in Ch(t, b) : t.coll[k].word.ptr # p
    BY <1>7 DEF Ch
  <2>3. At(t, p) = {}
    BY <1>7, <2>2 DEF At, Words
  <2> HIDE DEF b
  <2>4. QED
    BY <1>1, <1>7, <2>1, <2>2, <2>3, NoLinkLooked
<1>8. QED
  BY <1>2, <1>3, <1>4, <1>5, <1>6, <1>7

-----------------------------------------------------------------------------
(* The sweeps.                                                             *)

Collectable(t, p) == RefCnt(t, p) = 0 /\ ~StkBit(t, p)

LEMMA ZeroWord ==
  ASSUME NEW t, TableOK(t), NEW p \in Ptr
  PROVE  /\ Collectable(t, p) => \E w \in At(t, p) : StkCntIsZero(w)
         /\ \A w \in At(t, p) : StkCntIsZero(w) => Collectable(t, p) /\ p \notin Sat(t)
<1>1. Core(t, NoLinks)
  BY TableTyped
<1>2. ASSUME NEW w \in At(t, p) PROVE /\ Collectable(t, p) => StkCntIsZero(w)
                                      /\ StkCntIsZero(w) => Collectable(t, p) /\ p \notin Sat(t)
  <2>1. /\ (StkBit(t, p) <=> w.stk) /\ At(t, p) = {w} /\ w \in EntryWord
        /\ RefCnt(t, p) = IF w.count < MAX_GCCOUNT THEN w.count ELSE BigCnt(t.big, p)
    BY <1>1, <1>2, OneEntry
  <2>2. w.count \in 0 .. MAX_GCCOUNT /\ w.tag = "entry" /\ (p \in Sat(t) <=> w.count = MAX_GCCOUNT)
    BY <2>1 DEF EntryWord, Sat
  <2>3. p \in Sat(t) => BigCnt(t.big, p) > 0
    <3>1. SUFFICES ASSUME p \in Sat(t) PROVE BigCnt(t.big, p) > 0
      OBVIOUS
    <3>2. PICK i \in DOMAIN t.big : t.big[i].ptr = p
      BY <3>1 DEF TableOK, BigFits
    <3>2a. BigFits(t.big, Sat(t))
      BY DEF TableOK
    <3>3. BigCnt(t.big, p) = t.big[i].cnt /\ t.big[i].cnt \in Nat /\ t.big[i].cnt >= MAX_GCCOUNT
      BY <3>2, <3>2a, BigCntAt
    <3>4. QED
      BY <3>3, TableAssumption
  <2>4. QED
    BY <2>1, <2>2, <2>3, TableAssumption DEF Collectable, StkCntIsZero
<1>3. CASE At(t, p) = {}
  BY <1>1, <1>3, NoEntry DEF Collectable
<1>4. QED
  BY <1>2, <1>3

\* An object is taken: it was collectable, and has no entry any more.
Taken(t, b, u, p) ==
  /\ p \in Ptr /\ Hash[p] = b /\ Collectable(t, p)
  /\ Says(t, u, p, 1, FALSE) /\ Rest(t, u)

NothingToTake(t, b) == \A p \in Ptr : Hash[p] = b => ~Collectable(t, p)

LEMMA TakeWord ==
  ASSUME NEW t, TableOK(t), NEW p \in Ptr, NEW w \in At(t, p), StkCntIsZero(w), NEW u, Become(t, u, p, NoWords)
  PROVE  Taken(t, Hash[p], u, p)
<1>1. Collectable(t, p) /\ p \notin Sat(t)
  BY ZeroWord
<1>2. Core(u, NoLinks) /\ Now(t, u, p, NoWords) /\ Rest(t, u) /\ u.big = t.big
  BY DEF Become, Rest
<1>3. Says(t, u, p, 1, FALSE)
  BY <1>1, <1>2, SaysOne
<1>4. QED
  BY <1>1, <1>2, <1>3 DEF Taken

LEMMA gcmapscanTakes ==
  ASSUME NEW t, TableOK(t), NEW b \in Bucket, NEW v, v = gcmapscanAt(t, b)
  PROVE  \/ v = [t |-> t, ptr |-> NIL, retry |-> FALSE] /\ NothingToTake(t, b)
         \/ Taken(t, b, v.t, v.ptr) /\ (v.retry <=> t.main[b].tag = "link") /\ v.retry \in BOOLEAN
<1> DEFINE ch == Chain(t, b)
           zero == {i \in DOMAIN ch : StkCntIsZero(t.coll[ch[i]].word)}
           i == CHOOSE k \in zero : \A j \in zero : k <= j
           e == t.main[b]
           del == DelLink(t, ch[i], PrevInChain(ch, i), b)
           emptied == SetGC(t, Main(b), Empty)
<1>1. /\ Core(t, NoLinks) /\ t \in Tables /\ BucketOK(t, b) /\ e \in Word
      /\ \A w \in Words(t, b) : w \in EntryWord /\ w.ptr \in Ptr /\ Hash[w.ptr] = b /\ w \in At(t, w.ptr)
  <2>1. Core(t, NoLinks) /\ t \in Tables /\ BucketOK(t, b) /\ e \in Word
    BY TableTyped DEF Core, Tables
  <2>2. \A w \in Words(t, b) : w \in EntryWord /\ w.ptr \in Ptr /\ Hash[w.ptr] = b
    BY <2>1 DEF BucketOK, WordOK, EntryWord
  <2>3. QED
    BY <2>1, <2>2 DEF At
<1>2. ASSUME \A w \in Words(t, b) : ~StkCntIsZero(w) PROVE NothingToTake(t, b)
  BY <1>2, ZeroWord DEF NothingToTake, At
<1>3. CASE e.tag = "link" /\ zero = {}
  <2>1. v = [t |-> t, ptr |-> NIL, retry |-> FALSE]
    BY <1>3 DEF gcmapscanAt
  <2>2. \A w \in Words(t, b) : ~StkCntIsZero(w)
    BY <1>3 DEF Words, Ch
  <2>3. QED
    BY <1>2, <2>1, <2>2
<1>4. CASE e.tag = "link" /\ zero # {}
  <2>1. i \in zero
    <3>1. zero \subseteq Nat
      <4>1. PICK n \in Nat \ {0} : IsPath(t, t.main[b].link, n, ch)
        BY <1>1, <1>4 DEF Core, LinkInv, Paths, ChainPath
      <4>2. DOMAIN ch = 1 .. n
        BY <4>1, PathDomain
      <4>3. QED
        BY <4>2
    <3>2. \E k \in zero : \A j \in zero : k <= j
      <4> HIDE DEF zero
      <4>1. QED
        BY <1>4, <3>1, LeastMember
    <3>3. QED
      BY <3>2
  <2> DEFINE w == t.coll[ch[i]].word
             p == w.ptr
  <2>2. i \in DOMAIN ch /\ StkCntIsZero(w)
    BY <2>1
  <2>3. v = [t |-> del, ptr |-> p, retry |-> TRUE]
    BY <1>4 DEF gcmapscanAt
  <2>4. w \in Words(t, b)
    <3>1. ch[i] \in Ch(t, b)
      BY <2>2 DEF Ch
    <3> HIDE DEF i, ch
    <3>2. QED
      BY <1>4, <3>1 DEF Words
  <2>5. i \in DOMAIN Chain(t, b) /\ t.coll[Chain(t, b)[i]].word.ptr = p
        /\ del = DelLink(t, Chain(t, b)[i], PrevInChain(Chain(t, b), i), b)
    BY <2>2
  <2>6. p = w.ptr /\ e.tag = t.main[b].tag
    OBVIOUS
  <2> HIDE DEF w, p, i, del, ch, e
  <2>7. p \in Ptr /\ Hash[p] = b /\ w \in At(t, p)
    BY <1>1, <2>4, <2>6
  <2>8. Become(t, del, p, NoWords)
    BY <1>1, <1>4, <2>5, <2>6, <2>7, LinkDeleted
  <2>9. Taken(t, b, del, p)
    BY <2>2, <2>7, <2>8, TakeWord
  <2>10. QED
    BY <1>4, <2>3, <2>6, <2>9
<1>5. CASE e.tag # "link" /\ StkCntIsZero(e)
  <2>1. v = [t |-> emptied, ptr |-> e.ptr, retry |-> FALSE]
    BY <1>5 DEF gcmapscanAt
  <2>2. e.tag = "entry" /\ e \in Words(t, b)
    BY <1>5 DEF StkCntIsZero, Words
  <2> DEFINE p == e.ptr
  <2>3. p \in Ptr /\ Hash[p] = b /\ e \in At(t, p) /\ t.main[b].tag = "entry" /\ t.main[b].ptr = p /\ p = e.ptr
        /\ emptied = SetGC(t, Main(b), Empty) /\ e = t.main[b]
    BY <1>1, <2>2
  <2> HIDE DEF p, e, emptied
  <2>4. Become(t, emptied, p, NoWords)
    BY <1>1, <2>3, MainEmptied
  <2>5. Taken(t, b, emptied, p)
    BY <1>5, <2>3, <2>4, TakeWord
  <2>6. QED
    BY <2>1, <2>3, <2>5
<1>6. CASE e.tag # "link" /\ ~StkCntIsZero(e)
  <2>1. v = [t |-> t, ptr |-> NIL, retry |-> FALSE]
    BY <1>6 DEF gcmapscanAt
  <2>2. \A w \in Words(t, b) : ~StkCntIsZero(w)
    BY <1>6 DEF Words
  <2>3. QED
    BY <1>2, <2>1, <2>2
<1>7. QED
  BY <1>3, <1>4, <1>5, <1>6

\* Every entry has kept its count, and no stack mark was set.
Unmarked(t, u) ==
  /\ TableOK(u) /\ Rest(t, u)
  /\ \A q \in Ptr : RefCnt(u, q) = RefCnt(t, q) /\ (StkBit(u, q) => StkBit(t, q))

\* No entry of bucket b carries a mark.
Bare(t, b) == \A q \in Ptr : Hash[q] = b => ~StkBit(t, q)

SameOutside(t, u, b) == \A q \in Ptr : Hash[q] # b => (StkBit(u, q) <=> StkBit(t, q))

\* Each word about q is now one with the same count, and with no mark that it had not.
Faded(t, u, q) ==
  /\ \A w \in At(t, q) : \E x \in At(u, q) : x.count = w.count /\ (x.stk => w.stk)
  /\ \A x \in At(u, q) : \E w \in At(t, q) : x.count = w.count /\ (x.stk => w.stk)

LEMMA FadedAgrees ==
  ASSUME NEW t, TableOK(t), NEW u, Core(u, NoLinks), Rest(t, u), \A q \in Ptr : Faded(t, u, q)
  PROVE  Unmarked(t, u)
<1>1. Core(t, NoLinks) /\ u.big = t.big
  BY TableTyped DEF Rest
<1>2. Sat(u) = Sat(t)
  BY DEF Faded, Sat
<1>3. TableOK(u)
  BY <1>1, <1>2 DEF TableOK
<1>4. ASSUME NEW q \in Ptr PROVE RefCnt(u, q) = RefCnt(t, q) /\ (StkBit(u, q) => StkBit(t, q))
  <2>1. CASE At(t, q) = {}
    <3>1. At(u, q) = {}
      BY <2>1 DEF Faded
    <3>2. QED
      BY <1>1, <2>1, <3>1, NoEntry
  <2>2. CASE At(t, q) # {}
    <3>1. PICK w : w \in At(t, q)
      BY <2>2
    <3>2. PICK x \in At(u, q) : x.count = w.count /\ (x.stk => w.stk)
      BY <3>1 DEF Faded
    <3>3. QED
      BY <1>1, <3>1, <3>2, OneEntry
  <2>3. QED
    BY <2>1, <2>2
<1>5. QED
  BY <1>3, <1>4 DEF Unmarked

\* What is marked in a bucket is a word with its mark.
LEMMA BareWords ==
  ASSUME NEW t, TableOK(t), NEW b \in Bucket, \A w \in Words(t, b) : ~w.stk
  PROVE  Bare(t, b)
<1>1. SUFFICES ASSUME NEW q \in Ptr, Hash[q] = b PROVE ~StkBit(t, q)
  BY DEF Bare
<1>2. Core(t, NoLinks)
  BY TableTyped
<1>3. CASE At(t, q) = {}
  BY <1>2, <1>3, NoEntry
<1>4. CASE At(t, q) # {}
  <2>1. PICK w : w \in At(t, q)
    BY <1>4
  <2>2. ~w.stk
    BY <1>1, <2>1 DEF At
  <2>3. QED
    BY <1>2, <2>1, <2>2, OneEntry
<1>5. QED
  BY <1>3, <1>4

\* Says, of a pointer whose count stays one and that loses its entry.
LEMMA OneUnmarked ==
  ASSUME NEW t, TableOK(t), NEW p \in Ptr, NEW w \in At(t, p), w.count = 1, NEW u, Become(t, u, p, NoWords)
  PROVE  Unmarked(t, u) /\ SameOutside(t, u, Hash[p]) /\ ~StkBit(u, p)
<1>1. Core(t, NoLinks)
  BY TableTyped
<1>2. RefCnt(t, p) = 1 /\ p \notin Sat(t)
  <2>1. At(t, p) = {w} /\ RefCnt(t, p) = IF w.count < MAX_GCCOUNT THEN w.count ELSE BigCnt(t.big, p)
    BY <1>1, OneEntry
  <2>2. QED
    BY <2>1, TableAssumption DEF Sat
<1>3. Core(u, NoLinks) /\ Now(t, u, p, NoWords) /\ Rest(t, u) /\ u.big = t.big
  BY DEF Become, Rest
<1>4. Says(t, u, p, 1, FALSE)
  BY <1>2, <1>3, SaysOne
<1>5. QED
  BY <1>2, <1>3, <1>4 DEF Says, Unmarked, SameOutside

\* t with the marks of the links of C off.
Wiped(t, C) ==
  [t EXCEPT !.coll = [l \in Link |-> IF l \in C THEN [t.coll[l] EXCEPT !.word.stk = FALSE] ELSE t.coll[l]]]

\* What that does to the chain of bucket b.
WipedChain(t, u, b, C) ==
  /\ Chain(u, b) = Chain(t, b) /\ Ch(u, b) = Ch(t, b) /\ u.main = t.main
  /\ \A l \in Ch(t, b) : /\ u.coll[l].word \in EntryWord
                         /\ u.coll[l].word.ptr = t.coll[l].word.ptr /\ u.coll[l].word.count = t.coll[l].word.count
                         /\ u.coll[l].word.stk <=> t.coll[l].word.stk /\ l \notin C

LEMMA WipedLinks ==
  ASSUME NEW t \in Tables, NEW C \in SUBSET Link, \A l \in C : t.coll[l].word \in EntryWord, NEW u, u = Wiped(t, C)
  PROVE  /\ u \in Tables /\ Rest(t, u) /\ u.hwm = t.hwm /\ u.free = t.free /\ u.main = t.main
         /\ \A l \in Link : /\ u.coll[l].next = t.coll[l].next
                            /\ l \notin C => u.coll[l] = t.coll[l]
                            /\ l \in C => /\ u.coll[l].word \in EntryWord /\ u.coll[l].word.ptr = t.coll[l].word.ptr
                                          /\ u.coll[l].word.count = t.coll[l].word.count /\ ~u.coll[l].word.stk
<1> DEFINE new == [l \in Link |-> IF l \in C THEN [t.coll[l] EXCEPT !.word.stk = FALSE] ELSE t.coll[l]]
<1>1. u = [t EXCEPT !.coll = new]
  BY DEF Wiped
<1>2. ASSUME NEW l \in C
      PROVE  LET x == [t.coll[l] EXCEPT !.word.stk = FALSE] w == t.coll[l].word
             IN  /\ x \in Cell /\ x.next = t.coll[l].next /\ x.word \in EntryWord
                 /\ x.word.ptr = w.ptr /\ x.word.count = w.count /\ ~x.word.stk
  <2> DEFINE w == t.coll[l].word
             y == [w EXCEPT !.stk = FALSE]
  <2>1. t.coll[l] \in Cell /\ w \in EntryWord
    BY <1>2 DEF Tables
  <2>2. y \in EntryWord /\ y.ptr = w.ptr /\ y.count = w.count /\ y.stk = FALSE
    BY <2>1, EntryWords
  <2>3. [t.coll[l] EXCEPT !.word.stk = FALSE] = [t.coll[l] EXCEPT !.word = y]
    OBVIOUS
  <2>4. y \in Word
    BY <2>2, TagsApart
  <2> HIDE DEF w, y
  <2>5. QED
    BY <2>1, <2>2, <2>3, <2>4 DEF Cell, w
<1>3. /\ new \in [Link -> Cell]
      /\ \A l \in Link : /\ new[l].next = t.coll[l].next
                         /\ l \notin C => new[l] = t.coll[l]
                         /\ l \in C => /\ new[l].word \in EntryWord /\ new[l].word.ptr = t.coll[l].word.ptr
                                       /\ new[l].word.count = t.coll[l].word.count /\ ~new[l].word.stk
  <2>1. t.coll \in [Link -> Cell]
    BY DEF Tables
  <2>2. QED
    BY <1>2, <2>1
<1> HIDE DEF new
<1>4. QED
  BY <1>1, <1>3 DEF Tables, Rest

LEMMA WipedTable ==
  ASSUME NEW t, TableOK(t), NEW b \in Bucket, t.main[b].tag = "link", NEW C, C \subseteq Ch(t, b),
         \A l \in C : ~(t.coll[l].word.stk /\ t.coll[l].word.count = 1), NEW u, u = Wiped(t, C)
  PROVE  Unmarked(t, u) /\ SameOutside(t, u, b) /\ WipedChain(t, u, b, C)
<1>1. Core(t, NoLinks) /\ LinkInv(t, NoLinks) /\ t \in Tables /\ BucketOK(t, b) /\ Ch(t, b) \subseteq Link
  BY TableTyped, ChainLinks DEF Core
<1>2. \A w : w \in Words(t, b) <=> \E l \in Ch(t, b) : w = t.coll[l].word
  BY DEF Words
<1>3. \A l \in Ch(t, b) : WordOK(t.coll[l].word, b) /\ t.coll[l].word \in EntryWord
  BY <1>1, <1>2 DEF BucketOK, WordOK
<1>4. /\ u \in Tables /\ Rest(t, u) /\ u.hwm = t.hwm /\ u.free = t.free /\ u.main = t.main
      /\ \A l \in Link : /\ u.coll[l].next = t.coll[l].next
                         /\ l \notin C => u.coll[l] = t.coll[l]
                         /\ l \in C => /\ u.coll[l].word \in EntryWord /\ u.coll[l].word.ptr = t.coll[l].word.ptr
                                       /\ u.coll[l].word.count = t.coll[l].word.count /\ ~u.coll[l].word.stk
  <2>1. C \in SUBSET Link /\ \A l \in C : t.coll[l].word \in EntryWord
    BY <1>1, <1>3
  <2>2. QED
    BY <1>1, <2>1, WipedLinks
<1>5. FreePath(u) /\ Spare(u) = Spare(t)
  <2>1. Spare(t) \subseteq Link /\ FreePath(t)
    BY <1>1, TableAssumption DEF LinkInv, Paths, Apart, Tables, Link
  <2>2. \A k \in Spare(t) : u.coll[k].next = t.coll[k].next
    BY <1>4, <2>1
  <2>3. QED
    BY <1>1, <1>4, <2>1, <2>2, FreeKept
<1>6. ASSUME NEW c \in Bucket PROVE Chain(u, c) = Chain(t, c) /\ ChainPath(u, c) /\ Ch(u, c) = Ch(t, c)
  <2>1. Ch(t, c) \subseteq Link /\ ChainPath(t, c)
    BY <1>1, ChainLinks DEF LinkInv, Paths
  <2>2. \A k \in Ch(t, c) : u.coll[k].next = t.coll[k].next
    BY <1>4, <2>1
  <2>3. u.main[c] = t.main[c]
    BY <1>4
  <2>4. QED
    BY <1>1, <1>4, <2>1, <2>2, <2>3, ChainKept
<1>7. LinkInv(u, NoLinks)
  BY <1>1, <1>4, <1>5, <1>6 DEF LinkInv, Paths, Apart, Accounted, Rest
<1>8. Elsewhere(t, u, b)
  <2>1. ASSUME NEW c \in Bucket, c # b PROVE SameBucket(t, u, c)
    <3>1. Ch(t, c) \subseteq Link /\ Ch(t, c) \cap C = {}
      BY <1>1, <2>1, ChainLinks DEF LinkInv, Apart
    <3>2. \A l \in Ch(t, c) : u.coll[l] = t.coll[l]
      BY <1>4, <3>1
    <3>3. QED
      BY <1>4, <1>6, <3>2 DEF SameBucket
  <2>2. QED
    BY <2>1 DEF Elsewhere
<1>9. WipedChain(t, u, b, C)
  <2>1. ASSUME NEW l \in Ch(t, b)
        PROVE  /\ u.coll[l].word \in EntryWord
               /\ u.coll[l].word.ptr = t.coll[l].word.ptr /\ u.coll[l].word.count = t.coll[l].word.count
               /\ u.coll[l].word.stk <=> t.coll[l].word.stk /\ l \notin C
    <3>1. CASE l \in C
      BY <1>1, <1>4, <3>1
    <3>2. CASE l \notin C
      BY <1>1, <1>3, <1>4, <3>2
    <3>3. QED
      BY <3>1, <3>2
  <2>2. QED
    BY <1>4, <1>6, <2>1 DEF WipedChain
<1>10. \A w : w \in Words(u, b) <=> \E l \in Ch(t, b) : w = u.coll[l].word
  BY <1>4, <1>6 DEF Words
<1>11. BucketOK(u, b)
  <2>1. ChainOK(u, b)
    BY <1>1, <1>4, <1>6, <1>9 DEF BucketOK, ChainOK, WipedChain
  <2>2. ASSUME NEW l \in Ch(t, b) PROVE WordOK(u.coll[l].word, b)
    <3> DEFINE w == t.coll[l].word
               x == u.coll[l].word
    <3>1. /\ x \in EntryWord /\ x.ptr = w.ptr /\ x.count = w.count /\ (x.stk <=> w.stk /\ l \notin C)
          /\ WordOK(w, b) /\ (l \in C => ~(w.stk /\ w.count = 1))
      BY <1>3, <1>9 DEF WipedChain
    <3> HIDE DEF w, x
    <3>2. WordOK(x, b)
      BY <3>1 DEF WordOK, NeedsNoEntry
    <3>3. QED
      BY <3>2 DEF x
  <2>3. QED
    BY <1>10, <2>1, <2>2 DEF BucketOK
<1>12. Core(u, NoLinks)
  BY <1>1, <1>7, <1>8, <1>11, SameBucketWords DEF Core, Elsewhere
<1>13. ASSUME NEW q \in Ptr PROVE Faded(t, u, q) /\ (Hash[q] # b => At(u, q) = At(t, q))
  <2>1. Hash[q] \in Bucket
    BY TableAssumption
  <2>2. CASE Hash[q] # b
    <3>1. At(u, q) = At(t, q)
      BY <1>8, <2>1, <2>2, SameBucketWords DEF Elsewhere, At
    <3>2. QED
      BY <2>2, <3>1 DEF Faded
  <2>3. CASE Hash[q] = b
    <3>1. \A w : w \in At(t, q) <=> \E l \in Ch(t, b) : w = t.coll[l].word /\ w.ptr = q
      BY <1>2, <2>3 DEF At
    <3>2. \A w : w \in At(u, q) <=> \E l \in Ch(t, b) : w = u.coll[l].word /\ w.ptr = q
      BY <1>10, <2>3 DEF At
    <3>3. QED
      BY <1>9, <2>3, <3>1, <3>2 DEF WipedChain, Faded
  <2>4. QED
    BY <2>2, <2>3
<1>14. Unmarked(t, u)
  BY <1>4, <1>12, <1>13, FadedAgrees
<1>15. SameOutside(t, u, b)
  BY <1>4, <1>12, <1>13, OthersStay DEF SameOutside, Rest
<1>16. QED
  BY <1>9, <1>14, <1>15

LEMMA UnmarkedTwice ==
  ASSUME NEW t, NEW u, NEW v, NEW b, Unmarked(t, u), SameOutside(t, u, b), Unmarked(u, v), SameOutside(u, v, b)
  PROVE  Unmarked(t, v) /\ SameOutside(t, v, b)
BY DEF Unmarked, SameOutside, Rest

\* The marks of the whole chain, or of the links before the first that is to go.
Cleared(t, ch, m) ==
  [t EXCEPT !.coll = [l \in Link |-> IF \E k \in 1 .. m : ch[k] = l
                                     THEN [t.coll[l] EXCEPT !.word.stk = FALSE] ELSE t.coll[l]]]

LEMMA ClearedIsWiped ==
  ASSUME NEW t, NEW ch, NEW m, NEW C, \A l : l \in C <=> \E k \in 1 .. m : ch[k] = l
  PROVE  Cleared(t, ch, m) = Wiped(t, C)
BY DEF Wiped, Cleared

Single(w) == w.stk /\ w.count = 1

\* An unscan step: no count changes, no mark appears, and unless the bucket is
\* visited again its marks are gone.
Swept(t, b, u, retry) == Unmarked(t, u) /\ SameOutside(t, u, b) /\ (~retry => Bare(u, b)) /\ retry \in BOOLEAN

LEMMA ChainSwept ==
  ASSUME NEW t, TableOK(t), NEW b \in Bucket, t.main[b].tag = "link", NEW v, v = gcmapunscanAt(t, b)
  PROVE  Swept(t, b, v.t, v.retry)
<1> DEFINE ch == Chain(t, b)
           single == {i \in DOMAIN ch : LET w == t.coll[ch[i]].word IN w.stk /\ w.count = 1}
           stop == IF single = {} THEN Len(ch) + 1
                   ELSE CHOOSE k \in single : \A j \in single : k <= j
           cleared == [t EXCEPT !.coll =
                         [l \in Link |-> IF \E k \in 1 .. stop - 1 : ch[k] = l
                                         THEN [t.coll[l] EXCEPT !.word.stk = FALSE] ELSE t.coll[l]]]
           del == DelLink(cleared, ch[stop], PrevInChain(ch, stop), b)
<1>1. v = IF single = {} THEN [t |-> cleared, retry |-> FALSE] ELSE [t |-> del, retry |-> TRUE]
  BY DEF gcmapunscanAt
<1>2. PICK n \in Nat \ {0} : IsPath(t, t.main[b].link, n, ch)
  BY TableTyped DEF Core, LinkInv, Paths, ChainPath
<1>3. DOMAIN ch = 1 .. n /\ Len(ch) = n /\ Ch(t, b) = {ch[k] : k \in 1 .. n}
  <2>1. DOMAIN ch = 1 .. n /\ Ch(t, b) = {ch[k] : k \in 1 .. n}
    BY <1>2, PathDomain DEF Ch
  <2>2. ch \in Seq(Link)
    BY <1>2 DEF IsPath
  <2>3. QED
    BY <2>1, <2>2
<1>4. \A i : i \in single <=> i \in 1 .. n /\ Single(t.coll[ch[i]].word)
  BY <1>3 DEF Single
<1>5. cleared = [t EXCEPT !.coll =
                   [l \in Link |-> IF \E k \in 1 .. stop - 1 : ch[k] = l
                                   THEN [t.coll[l] EXCEPT !.word.stk = FALSE] ELSE t.coll[l]]]
      /\ del = DelLink(cleared, ch[stop], PrevInChain(ch, stop), b) /\ ch = Chain(t, b)
  OBVIOUS
<1>6. /\ single = {} => stop = n + 1
      /\ single # {} => stop \in single /\ \A j \in single : stop <= j
  <2>1. ASSUME single # {} PROVE stop \in single /\ \A j \in single : stop <= j
    <3>1. single \in SUBSET Nat
      BY <1>3
    <3> DEFINE k0 == CHOOSE k \in single : \A j \in single : k <= j
    <3>2. stop = k0
      BY <2>1
    <3> HIDE DEF single, stop
    <3>3. \E k \in single : \A j \in single : k <= j
      BY <2>1, <3>1, LeastMember
    <3>4. k0 \in single /\ \A j \in single : k0 <= j
      BY <3>3
    <3>5. QED
      BY <3>2, <3>4
  <2>2. QED
    BY <1>3, <2>1
<1> HIDE DEF del, cleared, stop, single, ch
<1> DEFINE C == {ch[k] : k \in 1 .. stop - 1}
<1>7. cleared = Wiped(t, C)
  <2>1. \A l : l \in C <=> \E k \in 1 .. stop - 1 : ch[k] = l
    OBVIOUS
  <2> DEFINE m == stop - 1
  <2>2. \A l : l \in C <=> \E k \in 1 .. m : ch[k] = l
    BY <2>1
  <2>3. cleared = Cleared(t, ch, m)
    BY <1>5 DEF Cleared
  <2> HIDE DEF C, m
  <2>4. QED
    BY <2>2, <2>3, ClearedIsWiped
<1>8. stop \in 1 .. n + 1 /\ (single # {} => stop \in 1 .. n /\ Single(t.coll[ch[stop]].word))
  BY <1>4, <1>6
<1>9. C \subseteq Ch(t, b) /\ \A l \in C : ~Single(t.coll[l].word)
  <2>1. ASSUME NEW k \in 1 .. stop - 1 PROVE k \in 1 .. n /\ ~Single(t.coll[ch[k]].word)
    <3>1. k \in 1 .. n /\ ~(stop <= k)
      BY <1>8
    <3>2. k \notin single
      BY <1>6, <3>1
    <3>3. QED
      BY <1>4, <3>1, <3>2
  <2>2. QED
    BY <1>3, <2>1
<1>10. single = {} => C = Ch(t, b)
  BY <1>3, <1>6
<1> HIDE DEF C
<1>11. Unmarked(t, cleared) /\ SameOutside(t, cleared, b) /\ WipedChain(t, cleared, b, C)
  BY <1>7, <1>9, WipedTable DEF Single
<1>12. CASE single = {}
  <2>1. v = [t |-> cleared, retry |-> FALSE]
    BY <1>1, <1>12
  <2>2. \A w \in Words(cleared, b) : ~w.stk
    BY <1>10, <1>11, <1>12 DEF WipedChain, Words
  <2>3. Bare(cleared, b)
    BY <1>11, <2>2, BareWords DEF Unmarked
  <2>4. QED
    BY <1>11, <2>1, <2>3 DEF Swept
<1>13. CASE single # {}
  <2> DEFINE x == cleared.coll[ch[stop]].word
             p == x.ptr
  <2>1. stop \in DOMAIN ch /\ ch[stop] \in Ch(t, b) /\ Single(t.coll[ch[stop]].word)
    BY <1>3, <1>8, <1>13
  <2>2. x.count = 1 /\ ch = Chain(cleared, b) /\ cleared.main[b].tag = "link"
    BY <1>5, <1>11, <2>1 DEF WipedChain, Single
  <2>3. TableOK(cleared)
    BY <1>11 DEF Unmarked
  <2>4. Core(cleared, NoLinks) /\ BucketOK(cleared, b)
    BY <2>3, TableTyped DEF Core
  <2>5. x \in Words(cleared, b)
    <3>1. ch[stop] \in Ch(cleared, b)
      BY <1>11, <2>1 DEF WipedChain
    <3>2. QED
      BY <2>2, <3>1 DEF Words
  <2>6. stop \in DOMAIN Chain(cleared, b) /\ cleared.coll[Chain(cleared, b)[stop]].word.ptr = p
        /\ del = DelLink(cleared, Chain(cleared, b)[stop], PrevInChain(Chain(cleared, b), stop), b)
    BY <1>5, <2>1, <2>2
  <2>7. p = x.ptr
    OBVIOUS
  <2> HIDE DEF x, p
  <2>8. p \in Ptr /\ b = Hash[p] /\ x \in At(cleared, p)
    BY <2>4, <2>5, <2>7 DEF BucketOK, WordOK, EntryWord, At
  <2>9. Become(cleared, del, p, NoWords)
    BY <2>2, <2>4, <2>6, <2>8, LinkDeleted
  <2>10. Unmarked(cleared, del) /\ SameOutside(cleared, del, b)
    BY <2>2, <2>3, <2>8, <2>9, OneUnmarked
  <2>11. Unmarked(t, del) /\ SameOutside(t, del, b)
    BY <1>11, <2>10, UnmarkedTwice
  <2>12. v = [t |-> del, retry |-> TRUE]
    BY <1>1, <1>13
  <2>13. QED
    BY <2>11, <2>12 DEF Swept
<1>14. QED
  BY <1>12, <1>13

LEMMA MainSwept ==
  ASSUME NEW t, TableOK(t), NEW b \in Bucket, t.main[b].tag = "entry", NEW v, v = gcmapunscanAt(t, b)
  PROVE  Swept(t, b, v.t, v.retry)
<1> DEFINE e == t.main[b]
           p == e.ptr
           emptied == SetGC(t, Main(b), Empty)
           x == [e EXCEPT !.stk = FALSE]
           faded == SetGC(t, Main(b), x)
<1>1. Core(t, NoLinks) /\ t \in Tables /\ BucketOK(t, b) /\ e \in Words(t, b) /\ t.main \in [Bucket -> Word]
  BY TableTyped DEF Core, Words, Tables
<1>2. p \in Ptr /\ b = Hash[p] /\ e \in At(t, p) /\ e \in EntryWord /\ e.stk \in BOOLEAN /\ ~NeedsNoEntry(e.count, e.stk)
  BY <1>1 DEF BucketOK, WordOK, EntryWord, At
<1>3. v = IF e.stk /\ e.count = 1 THEN [t |-> emptied, retry |-> FALSE] ELSE [t |-> faded, retry |-> FALSE]
  BY DEF gcmapunscanAt
<1>4. x \in EntryWord /\ x.ptr = p /\ x.count = e.count /\ ~x.stk
  BY <1>2, EntryWords
<1>5. /\ emptied = SetGC(t, Main(b), Empty) /\ faded = SetGC(t, Main(b), x) /\ e = t.main[b] /\ p = e.ptr
      /\ emptied.main[b].tag = "empty" /\ faded.main[b] = x
  BY <1>1, TagsApart DEF SetGC, Main, Tables
<1> HIDE DEF emptied, faded, x, e, p
<1>6. CASE e.stk /\ e.count = 1
  <2>1. v = [t |-> emptied, retry |-> FALSE]
    BY <1>3, <1>6
  <2>2. Become(t, emptied, p, NoWords)
    BY <1>1, <1>2, <1>5, MainEmptied
  <2>3. Unmarked(t, emptied) /\ SameOutside(t, emptied, b)
    BY <1>2, <1>6, <2>2, OneUnmarked
  <2>4. \A w \in Words(emptied, b) : ~w.stk
    BY <1>5 DEF Words
  <2>5. Bare(emptied, b)
    BY <2>3, <2>4, BareWords DEF Unmarked
  <2>6. QED
    BY <2>1, <2>3, <2>5 DEF Swept
<1>7. CASE ~(e.stk /\ e.count = 1)
  <2>1. v = [t |-> faded, retry |-> FALSE]
    BY <1>3, <1>7
  <2>2. WordOK(x, b)
    BY <1>2, <1>4, <1>7 DEF WordOK, NeedsNoEntry
  <2>3. WordPlace(t, b, Main(b)) /\ GETGC(t, Main(b)).ptr = p
    BY <1>5 DEF WordPlace, GETGC, Main
  <2> DEFINE s == Main(b)
  <2>4. WordPlace(t, b, s) /\ GETGC(t, s).ptr = p /\ faded = SetGC(t, s, x)
    BY <1>5, <2>3
  <2> HIDE DEF s
  <2>5. Core(faded, NoLinks) /\ Now(t, faded, p, {x}) /\ Rest(t, faded)
    BY <1>1, <1>2, <1>4, <2>2, <2>4, WordSet
  <2>6. ASSUME NEW q \in Ptr PROVE Faded(t, faded, q)
    <3>1. CASE q # p
      <4>1. At(faded, q) = At(t, q)
        BY <2>5, <3>1 DEF Now
      <4>2. QED
        BY <4>1 DEF Faded
    <3>2. CASE q = p
      <4>1. At(faded, p) = {x} /\ At(t, p) = {e}
        BY <1>1, <1>2, <2>5, OneEntry DEF Now
      <4>2. QED
        BY <1>4, <3>2, <4>1 DEF Faded
    <3>3. QED
      BY <3>1, <3>2
  <2>7. Unmarked(t, faded)
    BY <2>5, <2>6, FadedAgrees
  <2>8. SameOutside(t, faded, b)
    BY <1>2, <2>5, OthersStay DEF SameOutside, Now, Rest
  <2>9. \A w \in Words(faded, b) : ~w.stk
    BY <1>4, <1>5 DEF Words, EntryWord
  <2>10. Bare(faded, b)
    BY <2>7, <2>9, BareWords DEF Unmarked
  <2>11. QED
    BY <2>1, <2>7, <2>8, <2>10 DEF Swept
<1>8. QED
  BY <1>6, <1>7

LEMMA gcmapunscanSweeps ==
  ASSUME NEW t, TableOK(t), NEW b \in Bucket, NEW v, v = gcmapunscanAt(t, b)
  PROVE  Swept(t, b, v.t, v.retry)
<1>1. t.main[b] \in Word
  BY TableTyped DEF Tables
<1>2. t.main[b].tag \in {"empty", "entry", "link"}
  BY <1>1, TagsApart
<1>3. CASE t.main[b].tag = "empty"
  <2>1. v = [t |-> t, retry |-> FALSE]
    BY <1>3 DEF gcmapunscanAt
  <2>2. \A w \in Words(t, b) : ~w.stk
    BY <1>3 DEF Words
  <2>3. Bare(t, b)
    BY <2>2, BareWords
  <2>4. QED
    BY <2>1, <2>3 DEF Swept, Unmarked, SameOutside, Rest
<1>4. QED
  BY <1>2, <1>3, ChainSwept, MainSwept

-----------------------------------------------------------------------------
(* The table at the start.                                                 *)

LEMMA FirstTable == TableOK(InitTable) /\ \A p \in Ptr : At(InitTable, p) = {}
<1> DEFINE t == InitTable
<1>1. /\ t.main = [b \in Bucket |-> Empty] /\ t.free = 0 /\ t.hwm = 1 /\ t.big = <<>> /\ ~t.disabled
      /\ t.coll = [l \in Link |-> [word |-> Empty, next |-> 0]]
      /\ t.cnt = ReclaimMin /\ t.min = ReclaimMin /\ t.disabled = FALSE
  BY DEF InitTable
<1>2. t \in Tables
  <2>1. 0 \in 0 .. HTCOLLMAX /\ 1 \in 1 .. HTCOLLMAX + 1 /\ ReclaimMin \in Int
    BY TableAssumption
  <2>2. [b \in Bucket |-> Empty] \in [Bucket -> Word]
    BY TagsApart
  <2>3. [l \in Link |-> [word |-> Empty, next |-> 0]] \in [Link -> Cell]
    BY <2>1, TagsApart DEF Cell
  <2>4. <<>> \in Seq(Slot)
    OBVIOUS
  <2>5. QED
    BY <2>1, <2>2, <2>3, <2>4 DEF InitTable, Tables
<1> HIDE DEF t
<1>3. FreePath(t) /\ Spare(t) = {}
  <2> DEFINE n == 0
             ch == <<>>
  <2>1. IsPath(t, t.free, n, ch) /\ n \in Nat /\ 1 .. n = {}
    BY <1>1 DEF IsPath, After
  <2> HIDE DEF n, ch
  <2>2. FreePath(t) /\ \A x : x \in Spare(t) <=> \E i \in 1 .. n : x = ch[i]
    BY <1>2, <2>1, FreeFrom
  <2>3. QED
    BY <2>1, <2>2
<1>4. \A b \in Bucket : t.main[b].tag = "empty"
  BY <1>1, TagsApart
<1>5. \A b \in Bucket : ChainPath(t, b) /\ Ch(t, b) = {}
  BY <1>4, NoChain
<1>6. LinkInv(t, NoLinks)
  <2>1. 1 .. t.hwm - 1 = {}
    BY <1>1
  <2>2. QED
    BY <1>2, <1>3, <1>5, <2>1 DEF LinkInv, Paths, Apart, Accounted, NoLinks
<1>7. \A b \in Bucket : Words(t, b) = {}
  BY <1>4 DEF Words
<1>8. Core(t, NoLinks)
  BY <1>4, <1>6, <1>7 DEF Core, BucketOK, ChainOK
<1>9. \A p \in Ptr : At(t, p) = {}
  BY <1>7, TableAssumption DEF At
<1>10. Sat(t) = {}
  BY <1>9 DEF Sat
<1>11. BigFits(t.big, Sat(t))
  BY <1>1, <1>10 DEF BigFits
<1>12. QED
  BY <1>8, <1>9, <1>11 DEF TableOK, t

-----------------------------------------------------------------------------
(* The lookups as the program and the collector call them.                 *)

\* The outcome of GCLOOKUPV or REC_GCLOOKUPV.
Outcome(t, u, val, p, op, rec) ==
  \/ t.disabled /\ u = t /\ val = NIL
  \/ ~t.disabled /\ Looked(t, u, val, p, op, rec)

LEMMA LookupOutcome ==
  ASSUME NEW t, TableOK(t), NEW p \in Ptr, NEW op \in Ops, ~t.disabled /\ op = "DELREF" => RefCnt(t, p) > 0
  PROVE  /\ Outcome(t, REC_GCLOOKUPV(t, p, op).t, REC_GCLOOKUPV(t, p, op).val, p, op, TRUE)
         /\ Outcome(t, GCLOOKUPV(t, p, op).t, GCLOOKUPV(t, p, op).val, p, op, t.cnt = CntNIL)
<1>1. CASE t.disabled
  BY <1>1 DEF GCLOOKUPV, REC_GCLOOKUPV, RefCntP, Outcome
<1>2. CASE ~t.disabled
  <2> DEFINE a == htfindAs(t, p, op, TRUE)
             b == htfindAs(t, p, op, FALSE)
             yes == TRUE
             no == FALSE
  <2>1. /\ REC_GCLOOKUPV(t, p, op) = a
        /\ GCLOOKUPV(t, p, op) = IF t.cnt = CntNIL THEN a ELSE b
    BY <1>2 DEF GCLOOKUPV, REC_GCLOOKUPV, RefCntP, htfind, rec_htfind
  <2>2. a = htfindAs(t, p, op, yes) /\ b = htfindAs(t, p, op, no) /\ yes \in BOOLEAN /\ no \in BOOLEAN
        /\ yes = TRUE /\ no = FALSE
    OBVIOUS
  <2> HIDE DEF a, b, yes, no
  <2>3. Looked(t, a.t, a.val, p, op, yes) /\ Looked(t, b.t, b.val, p, op, no)
    BY <1>2, <2>2, HtfindLooked
  <2>4. Outcome(t, a.t, a.val, p, op, yes) /\ Outcome(t, b.t, b.val, p, op, no)
    BY <1>2, <2>3 DEF Outcome
  <2>5. CASE t.cnt = CntNIL
    BY <2>1, <2>2, <2>4, <2>5
  <2>6. CASE t.cnt # CntNIL
    BY <2>1, <2>2, <2>4, <2>6
  <2>7. QED
    BY <2>5, <2>6
<1>3. QED
  BY <1>1, <1>2

\* A pointer that has an entry needs no link, so its lookup does not overflow the table.
LEMMA KnownFits ==
  ASSUME NEW t, TableOK(t), ~t.disabled, NEW p \in Ptr, NEW op \in Ops, op = "DELREF" => RefCnt(t, p) > 0, HasEntry(t, p)
  PROVE  ~REC_GCLOOKUPV(t, p, op).t.disabled
<1> DEFINE yes == TRUE
           r == htfindAs(t, p, op, yes)
<1>1. REC_GCLOOKUPV(t, p, op) = r /\ yes \in BOOLEAN
  BY DEF REC_GCLOOKUPV, RefCntP, rec_htfind
<1>2. At(t, p) # {}
  BY NoEntry DEF TableOK
<1> HIDE DEF yes
<1>3. ~r.t.disabled
  BY <1>1, <1>2, HtfindLooked
<1>4. QED
  BY <1>1, <1>3

\* What a lookup reports, and which marks there are after it.
LEMMA OutcomeReports ==
  ASSUME NEW t, TableOK(t), NEW p \in Ptr, NEW op \in Ops, NEW rec, NEW u, NEW val, Outcome(t, u, val, p, op, rec)
  PROVE  /\ ~u.disabled => /\ ~t.disabled /\ val = Report(t, p, op)
                           /\ \A q \in Ptr : StkBit(u, q) <=> StkBit(t, q) \/ (q = p /\ op = "STKREF")
         /\ val # NIL => op = "DELREF" /\ val = p /\ ~u.disabled /\ ~t.disabled /\ RefCnt(u, p) = 0 /\ ~StkBit(u, p)
                         /\ RefCnt(t, p) = 1
<1>1. CASE t.disabled
  BY <1>1 DEF Outcome
<1>2. CASE ~t.disabled
  <2>1. CASE SwitchedOff(t, u) /\ val = NIL
    BY <2>1 DEF SwitchedOff
  <2>2. CASE Counts(t, u, p, op, rec) /\ val = Report(t, p, op)
    <3>1. /\ RefCnt(u, p) = CountAfter(t, p, op) /\ (StkBit(u, p) <=> StkAfter(t, p, op)) /\ ~u.disabled
          /\ \A q \in Ptr : q # p => (StkBit(u, q) <=> StkBit(t, q))
      BY <1>2, <2>2 DEF Counts, Says
    <3>2. \A q \in Ptr : StkBit(u, q) <=> StkBit(t, q) \/ (q = p /\ op = "STKREF")
      BY <3>1 DEF StkAfter
    <3>3. val # NIL => op = "DELREF" /\ val = p /\ RefCnt(t, p) = 1 /\ ~StkBit(t, p)
      BY <2>2 DEF Report
    <3>4. val # NIL => RefCnt(u, p) = 0 /\ ~StkBit(u, p)
      BY <3>1, <3>3 DEF CountAfter, StkAfter
    <3>5. QED
      BY <1>2, <2>2, <3>1, <3>2, <3>3, <3>4
  <2>3. QED
    BY <1>2, <2>1, <2>2 DEF Outcome, Looked
<1>3. QED
  BY <1>1, <1>2
=============================================================================
