------------------------ MODULE VirtualMemory_proofs ------------------------
(***************************************************************************)
(* The image is sound for every size of memory, file and table page.       *)
(***************************************************************************)
EXTENDS VirtualMemory, FiniteSetTheorems, WellFoundedInduction, TLAPS

(***************************************************************************)
(* The inductive invariant.                                                *)
(***************************************************************************)
Table(n) == n \div EntriesPerPage
States == {"NIL", "NOTSWITCHABLE", "SWITCHABLE", "ARRAYSWITCHED", "FULLYSWITCHED"}
Worlds ==
  [nactive : Nat, fptovp : Seq(Nat \cup {Hole}), fptovpstart : Nat, made : SUBSET Nat, twice : BOOLEAN,
   size : Sizes, storagefullstate : States, lastvmempage : Nat, STORAGEFULLSTATE : States, cachevar : BOOLEAN,
   STORAGEFULL : {"NIL", "0", "T"}, VMEM_FULL : {"NIL", "0", "T"},
   nextArray : Int, nextMDS : Int, leastMDS : Int, secondMDS : Int, pending : BOOLEAN, stuck : BOOLEAN]

\* Every page of m is in one place of the file f, and those of the table lie
\* together.
Places(f, m) ==
  /\ f \in Seq(Nat \cup {Hole}) /\ m \in SUBSET Nat
  /\ \A j, k \in 1 .. Len(f) : f[j] = f[k] => j = k \/ f[j] = Hole
  /\ \A x \in m : \E k \in 1 .. Len(f) : f[k] = x
  /\ \A k \in 1 .. Len(f) : f[k] # Hole => f[k] \in m
Together(f, start, last, m) ==
  /\ IFPAGE_AT < start /\ start + last < Len(f)
  /\ \A page \in 0 .. last : f[start + page] = FPTOVP_PAGE + page
  /\ \A x \in m : x \in TablePages => x <= FPTOVP_PAGE + last
  /\ f[IFPAGE_AT] = IFPAGE_PAGE

Placed(s) ==
  /\ Len(s.fptovp) = s.nactive /\ s.nactive \in 1 .. MaxActive
  /\ Places(s.fptovp, s.made)
  /\ Together(s.fptovp, s.fptovpstart, Table(s.nactive), s.made)
  /\ s.fptovp[s.nactive] # Hole

\* Nothing between a and b was made.
Unmade(s, a, b) == \A x \in a .. b : x \notin s.made

Regions(s) ==
  /\ s.secondMDS = LastPage[s.size] - PAGESPER_MDSUNIT - 1
  /\ s.STORAGEFULLSTATE \in {"NIL", "NOTSWITCHABLE", "SWITCHABLE"} =>
       /\ FirstArray <= s.nextArray /\ s.nextMDS <= FirstMDS
       /\ Unmade(s, s.nextArray, s.nextMDS + 1) /\ Unmade(s, SecondArrayPage, LastPage["large"])
  /\ s.STORAGEFULLSTATE = "SWITCHABLE" => s.size = "large"
  /\ s.STORAGEFULLSTATE = "ARRAYSWITCHED" =>
       /\ s.size = "large"
       /\ FirstArray <= s.leastMDS /\ s.nextMDS <= FirstMDS /\ Unmade(s, s.leastMDS, s.nextMDS + 1)
       /\ SecondArrayPage <= s.nextArray /\ s.nextArray <= s.secondMDS
       /\ Unmade(s, s.nextArray, s.secondMDS + 1)
  /\ s.STORAGEFULLSTATE = "FULLYSWITCHED" =>
       /\ s.size = "large"
       /\ SecondArrayPage <= s.nextArray /\ s.nextMDS <= s.secondMDS
       /\ Unmade(s, s.nextArray, s.nextMDS + 1)

\* A restart forgets the state only while the first region serves.
Remembered(s) ==
  /\ s.STORAGEFULLSTATE = "SWITCHABLE" => s.cachevar
  /\ s.STORAGEFULLSTATE \in {"ARRAYSWITCHED", "FULLYSWITCHED"} => ~s.cachevar

WorldOK(s) == s \in Worlds /\ Placed(s) /\ Regions(s) /\ Remembered(s) /\ ~s.twice

\* What is left to make of an array request fits.
Promised ==
  owed \in Nat /\ (owed > 0 => up /\ save.at = "idle" /\ ~w.stuck /\ ArrayPagesFit(w, owed))

\* Every page that is in a file is the right one, but for those known to be lost.
Right(v, f) ==
  \A k \in 1 .. Len(f.pages) : v.fptovp[k] # Hole => f.pages[k] = v.fptovp[k] \/ v.fptovp[k] \in f.lost
Whole(f) == Len(f.pages) = f.world.nactive
FileOK(f) ==
  f.there => /\ WorldOK(f.world) /\ f.world.storagefullstate = f.world.STORAGEFULLSTATE
             /\ f.pages \in Seq(Nat \cup {Hole})
             /\ Whole(f) => Right(f.world, f)
FileShape(f) ==
  f = [pages |-> f.pages, there |-> f.there, world |-> f.world, lost |-> f.lost] /\ f.there \in BOOLEAN

Saving == {"pages", "close", "unlink", "rename"}
Steps == {"idle", "open", "truncate"} \cup Saving

\* What the save under way has written so far.
Progress(s, v, f) ==
  LET n == Len(f.pages) IN
  s.at = "pages" =>
    /\ 1 <= s.i /\ s.i <= v.nactive + 1 /\ n < s.i
    /\ Right(v, f)
    /\ \A k \in 1 .. s.i - 1 : v.fptovp[k] # Hole => k <= n \/ v.fptovp[k] \in f.lost

SaveOK ==
  /\ save \in [at : Steps, i : Nat]
  /\ save.at # "idle" => up /\ owed = 0 /\ Sane
  /\ save.at \in Saving => disk.tmp.there /\ disk.tmp.world = w
  /\ Progress(save, w, disk.tmp)
  /\ save.at \in {"close", "unlink", "rename"} => Right(w, disk.tmp) /\ (disk.tmp.lost = {} => Whole(disk.tmp))
  /\ save.at = "rename" => ~disk.img.there

DiskOK ==
  /\ disk = [img |-> disk.img, tmp |-> disk.tmp] /\ FileShape(disk.img) /\ FileShape(disk.tmp)
  /\ FileOK(disk.img) /\ FileOK(disk.tmp)

IInv == WorldOK(w) /\ Promised /\ DiskOK /\ SaveOK

(***************************************************************************)
(* newpage.                                                                *)
(***************************************************************************)
\* The pages of the table grow by one when their number of entries is reached.
LEMMA TableGrows ==
  ASSUME NEW n \in Nat
  PROVE  /\ Table(n) \in Nat
         /\ (n + 1) % EntriesPerPage # 0 => Table(n + 1) = Table(n)
         /\ (n + 1) % EntriesPerPage = 0 => Table(n + 1) = Table(n) + 1 /\ Table(n + 2) = Table(n) + 1
<1>1. EntriesPerPage \in Nat \ {0, 1}
  BY MemoryAssumption
<1>2. n \div EntriesPerPage \in Nat
  BY <1>1
<1>3. (n + 1) % EntriesPerPage # 0 => (n + 1) \div EntriesPerPage = n \div EntriesPerPage
  BY <1>1
<1>4. (n + 1) % EntriesPerPage = 0 => (n + 1) \div EntriesPerPage = (n \div EntriesPerPage) + 1
  BY <1>1
<1>5. (n + 1) % EntriesPerPage = 0 => (n + 2) \div EntriesPerPage = (n + 1) \div EntriesPerPage
  BY <1>1
<1>6. QED
  BY <1>2, <1>3, <1>4, <1>5 DEF Table

LEMMA TableMonotone ==
  ASSUME NEW n \in Nat, NEW m \in Nat, n <= m
  PROVE  Table(n) <= Table(m)
BY MemoryAssumption DEF Table

Entry == Nat \cup {Hole}

LEMMA AppendedEntry ==
  ASSUME NEW f \in Seq(Entry), NEW x \in Entry, NEW g, g = Append(f, x)
  PROVE  /\ g \in Seq(Entry) /\ Len(g) = Len(f) + 1 /\ Len(f) \in Nat /\ g[Len(f) + 1] = x
         /\ \A k \in 1 .. Len(f) : g[k] = f[k]
OBVIOUS

\* A new page vp is in the place fp of g, and all else that was in f is there.
Appended(f, vp) == Append(f, vp)
NewLast(f, vp, g, q) ==
  /\ Places(g, q) /\ Len(g) = Len(f) + 1 /\ g[Len(g)] = vp /\ Len(f) \in Nat
  /\ \A k \in 1 .. Len(f) : g[k] = f[k]
NewInto(f, fp, vp, g, q) ==
  /\ Places(g, q) /\ Len(g) = Len(f) + 1 /\ g[fp] = vp /\ Len(f) \in Nat
  /\ \A k \in 1 .. Len(f) : k # fp => g[k] = f[k]
With(m, x) == m \cup {x}
Moved(f, fp, vp) == Append([f EXCEPT ![fp] = vp], f[fp])

\* A page that is new is added at the end.
LEMMA PageAppended ==
  ASSUME NEW f, NEW m, Places(f, m), NEW vp \in Nat, vp \notin m, NEW g, g = Appended(f, vp),
         NEW q, q = With(m, vp)
  PROVE  NewLast(f, vp, g, q)
<1> USE DEF With
<1>1. f \in Seq(Nat \cup {Hole}) /\ m \in SUBSET Nat /\ vp # Hole
  BY DEF Places, Hole
<1>2. /\ g \in Seq(Nat \cup {Hole}) /\ Len(g) = Len(f) + 1 /\ Len(f) \in Nat /\ g[Len(f) + 1] = vp
      /\ \A k \in 1 .. Len(f) : g[k] = f[k]
  BY <1>1 DEF Appended
<1>3. ASSUME NEW j \in 1 .. Len(g), NEW k \in 1 .. Len(g), g[j] = g[k] PROVE j = k \/ g[j] = Hole
  <2>1. (j \in 1 .. Len(f) \/ j = Len(f) + 1) /\ (k \in 1 .. Len(f) \/ k = Len(f) + 1)
    BY <1>2
  <2>2. ASSUME NEW i \in 1 .. Len(f) PROVE g[i] # vp
    <3>1. f[i] # vp
      BY <1>1 DEF Places
    <3>2. QED
      BY <1>2, <3>1
  <2>3. QED
    BY <1>2, <1>3, <2>1, <2>2 DEF Places
<1>4. ASSUME NEW x \in q PROVE \E k \in 1 .. Len(g) : g[k] = x
  <2>1. CASE x = vp
    BY <1>2, <2>1
  <2>2. CASE x \in m
    <3>1. PICK k \in 1 .. Len(f) : f[k] = x
      BY <2>2 DEF Places
    <3>2. k \in 1 .. Len(g) /\ g[k] = x
      BY <1>2, <3>1
    <3>3. QED
      BY <3>2
  <2>3. QED
    BY <2>1, <2>2
<1>5. ASSUME NEW k \in 1 .. Len(g), g[k] # Hole PROVE g[k] \in q
  <2>1. CASE k = Len(f) + 1
    BY <1>2, <2>1
  <2>2. CASE k \in 1 .. Len(f)
    BY <1>2, <1>5, <2>2 DEF Places
  <2>3. QED
    BY <1>2, <2>1, <2>2
<1>6. Places(g, q)
  BY <1>1, <1>2, <1>3, <1>4, <1>5 DEF Places
<1>7. QED
  BY <1>2, <1>6 DEF NewLast

\* A page that is new takes the place at fp, and what was there moves to the end.
LEMMA PageMoved ==
  ASSUME NEW f, NEW m, Places(f, m), NEW vp \in Nat, vp \notin m, NEW fp \in 1 .. Len(f),
         NEW g, g = Moved(f, fp, vp), NEW q, q = With(m, vp)
  PROVE  NewInto(f, fp, vp, g, q)
<1> USE DEF With
<1>1. f \in Seq(Nat \cup {Hole}) /\ m \in SUBSET Nat /\ vp # Hole /\ f[fp] \in Nat \cup {Hole}
  BY DEF Places, Hole
<1> DEFINE h == [f EXCEPT ![fp] = vp]
<1>2. h \in Seq(Nat \cup {Hole}) /\ Len(h) = Len(f) /\ h[fp] = vp /\ \A k \in 1 .. Len(f) : k # fp => h[k] = f[k]
  BY <1>1
<1> HIDE DEF h
<1>3. g = Append(h, f[fp])
  BY DEF h, Moved
<1>3a. /\ g \in Seq(Entry) /\ Len(g) = Len(h) + 1 /\ Len(h) \in Nat /\ g[Len(h) + 1] = f[fp]
       /\ \A k \in 1 .. Len(h) : g[k] = h[k]
  <2> DEFINE x == f[fp]
  <2>1. x \in Entry /\ h \in Seq(Entry) /\ g = Append(h, x)
    BY <1>1, <1>2, <1>3 DEF Entry
  <2> HIDE DEF x
  <2>2. /\ g \in Seq(Entry) /\ Len(g) = Len(h) + 1 /\ Len(h) \in Nat /\ g[Len(h) + 1] = x
        /\ \A k \in 1 .. Len(h) : g[k] = h[k]
    BY <2>1, AppendedEntry
  <2>3. QED
    BY <2>2 DEF x
<1>4. /\ g \in Seq(Nat \cup {Hole}) /\ Len(g) = Len(f) + 1 /\ Len(f) \in Nat /\ g[Len(f) + 1] = f[fp]
      /\ g[fp] = vp /\ \A k \in 1 .. Len(f) : k # fp => g[k] = f[k]
  BY <1>2, <1>3a DEF Entry
<1>5. ASSUME NEW j \in 1 .. Len(g), NEW k \in 1 .. Len(g), g[j] = g[k] PROVE j = k \/ g[j] = Hole
  <2> DEFINE old(i) == IF i = Len(f) + 1 THEN fp ELSE i
  <2>1. ASSUME NEW i \in 1 .. Len(g) PROVE old(i) \in 1 .. Len(f) /\ (i # fp => g[i] = f[old(i)])
    BY <1>4
  <2>2. ASSUME NEW i \in 1 .. Len(g), i # fp PROVE g[i] # vp
    BY <1>1, <2>1, <2>2 DEF Places
  <2>3. CASE j = fp \/ k = fp
    BY <1>4, <1>5, <2>2, <2>3
  <2>4. CASE j # fp /\ k # fp
    <3>1. f[old(j)] = f[old(k)] /\ old(j) \in 1 .. Len(f) /\ old(k) \in 1 .. Len(f)
      BY <1>5, <2>1, <2>4
    <3>2. old(j) = old(k) \/ f[old(j)] = Hole
      BY <3>1 DEF Places
    <3>3. QED
      BY <1>4, <2>1, <2>4, <3>2
  <2>5. QED
    BY <2>3, <2>4
<1>6. ASSUME NEW x \in q PROVE \E k \in 1 .. Len(g) : g[k] = x
  <2>1. CASE x = vp
    BY <1>4, <2>1
  <2>2. CASE x \in m
    <3>1. PICK k \in 1 .. Len(f) : f[k] = x
      BY <2>2 DEF Places
    <3>2. CASE k = fp
      BY <1>4, <3>1, <3>2
    <3>3. CASE k # fp
      BY <1>4, <3>1, <3>3
    <3>4. QED
      BY <3>2, <3>3
  <2>3. QED
    BY <2>1, <2>2
<1>7. ASSUME NEW k \in 1 .. Len(g), g[k] # Hole PROVE g[k] \in q
  <2>1. CASE k = Len(f) + 1
    BY <1>4, <1>7, <2>1 DEF Places
  <2>2. CASE k = fp
    BY <1>4, <2>2
  <2>3. CASE k \in 1 .. Len(f) /\ k # fp
    BY <1>4, <1>7, <2>3 DEF Places
  <2>4. QED
    BY <1>4, <2>1, <2>2, <2>3
<1>8. Places(g, q)
  BY <1>1, <1>4, <1>5, <1>6, <1>7 DEF Places
<1>9. QED
  BY <1>4, <1>8 DEF NewInto

\* What a new page leaves alone, and what it does; P are the pages asked for.
Untouched(s, u) ==
  /\ u.size = s.size /\ u.storagefullstate = s.storagefullstate /\ u.STORAGEFULLSTATE = s.STORAGEFULLSTATE
  /\ u.cachevar = s.cachevar /\ u.nextArray = s.nextArray /\ u.nextMDS = s.nextMDS
  /\ u.leastMDS = s.leastMDS /\ u.secondMDS = s.secondMDS /\ u.stuck = s.stuck
SameTable(s, u) ==
  /\ u.nactive = s.nactive /\ u.fptovp = s.fptovp /\ u.fptovpstart = s.fptovpstart
  /\ u.made = s.made /\ u.twice = s.twice
Grown(s, u, n, P) ==
  /\ u \in Worlds /\ Placed(u) /\ u.twice = s.twice
  /\ s.nactive < u.nactive /\ u.nactive <= s.nactive + n
  /\ \A x \in u.made : x \in s.made \/ x \in P \/ x \in TablePages
  /\ Untouched(s, u)

LEMMA FullNoted ==
  ASSUME NEW s \in Worlds, NEW u, u = VmemFull(s)
  PROVE  u \in Worlds /\ Untouched(s, u) /\ SameTable(s, u)
<1>1. CASE s.nactive <= s.lastvmempage - GUARDVMEMFULL
  BY <1>1 DEF VmemFull, Untouched, SameTable
<1>2. CASE ~(s.nactive <= s.lastvmempage - GUARDVMEMFULL)
  <2> DEFINE v == IF s.nactive < s.lastvmempage THEN "0" ELSE "T"
             b == s.pending \/ s.VMEM_FULL = "NIL"
  <2>1. u = [s EXCEPT !.pending = b, !.VMEM_FULL = v]
    BY <1>2 DEF VmemFull
  <2>2. v \in {"NIL", "0", "T"} /\ b \in BOOLEAN
    BY DEF Worlds
  <2> HIDE DEF v, b
  <2>3. QED
    BY <2>1, <2>2 DEF Worlds, Untouched, SameTable
<1>3. QED
  BY <1>1, <1>2

LEMMA ActiveSet ==
  ASSUME NEW s \in Worlds, NEW n \in Nat, NEW u, u = [s EXCEPT !.nactive = n]
  PROVE  /\ u \in Worlds /\ Untouched(s, u)
         /\ u.nactive = n /\ u.fptovp = s.fptovp /\ u.fptovpstart = s.fptovpstart /\ u.made = s.made /\ u.twice = s.twice
BY DEF Worlds, Untouched

WithTable(s, f, n, m, b) == [s EXCEPT !.fptovp = f, !.nactive = n, !.made = m, !.twice = b]
TableIs(s, u, f, n, m, b) ==
  /\ u \in Worlds /\ Untouched(s, u)
  /\ u.nactive = n /\ u.fptovp = f /\ u.fptovpstart = s.fptovpstart /\ u.made = m /\ u.twice = b

LEMMA TableSet ==
  ASSUME NEW s \in Worlds, NEW f \in Seq(Nat \cup {Hole}), NEW n \in Nat, NEW m \in SUBSET Nat, NEW b \in BOOLEAN,
         NEW u, u = WithTable(s, f, n, m, b)
  PROVE  TableIs(s, u, f, n, m, b)
BY DEF Worlds, Untouched, WithTable, TableIs

\* newpage adds its page, and one of the table when that is full; none of them
\* was there before.
LEMMA PageAdded ==
  ASSUME NEW s \in Worlds, Placed(s), s.nactive + 2 <= MaxActive,
         NEW vp \in Nat, vp \notin s.made, vp \notin TablePages, NEW u, u = newpage(s, vp)
  PROVE  Grown(s, u, 2, {vp})
<1> DEFINE n == s.nactive
           f == s.fptovp
           m == s.made
           start == s.fptovpstart
<1>1. /\ n \in Nat /\ Len(f) = n /\ n >= 1 /\ Places(f, m) /\ Together(f, start, Table(n), m)
      /\ start \in Nat /\ MaxActive \in Nat /\ FPTOVP_PAGE \in Nat /\ m \in SUBSET Nat
      /\ n + 2 <= MaxActive /\ IFPAGE_AT = 2 /\ s.twice \in BOOLEAN /\ vp \notin m
  BY MemoryAssumption DEF Placed, Worlds, IFPAGE_AT
<1>2. /\ Table(n) \in Nat
      /\ (n + 1) % EntriesPerPage # 0 => Table(n + 1) = Table(n)
      /\ (n + 1) % EntriesPerPage = 0 => Table(n + 1) = Table(n) + 1 /\ Table(n + 2) = Table(n) + 1
  BY <1>1, TableGrows
<1> DEFINE one == [s EXCEPT !.nactive = n + 1]
           t == IF one.nactive % EntriesPerPage = 0 THEN GrowTable(one) ELSE one
           v == [t EXCEPT !.fptovp = Append(@, vp), !.twice = @ \/ vp \in t.made, !.made = @ \cup {vp}]
<1>3. u = VmemFull(v)
  BY DEF newpage
<1>4. one \in Worlds /\ one.nactive = n + 1 /\ one.fptovp = f /\ one.made = m /\ one.fptovpstart = start
      /\ one.twice = s.twice /\ Untouched(s, one)
  <2>1. n + 1 \in Nat /\ f = s.fptovp /\ m = s.made /\ start = s.fptovpstart
    BY <1>1
  <2> DEFINE n1 == n + 1
  <2>2. one = [s EXCEPT !.nactive = n1] /\ n1 \in Nat /\ n1 = n + 1
    BY <2>1
  <2> HIDE DEF n1, n, one, f, m, start
  <2>3. QED
    BY <2>1, <2>2, ActiveSet
<1>4a. t = IF one.nactive % EntriesPerPage = 0 THEN GrowTable(one) ELSE one
  OBVIOUS
<1> HIDE DEF one, t, n, f, m, start
<1>5. /\ t \in Worlds /\ t.twice = s.twice /\ Untouched(s, t) /\ t.fptovpstart = start
      /\ n < t.nactive /\ t.nactive <= n + 2 /\ Len(t.fptovp) + 1 = t.nactive /\ Len(t.fptovp) >= n
      /\ Places(t.fptovp, t.made) /\ Together(t.fptovp, start, Table(t.nactive), t.made)
      /\ \A x \in t.made : x \in m \/ x \in TablePages
  <2>1. CASE (n + 1) % EntriesPerPage # 0
    <3>1. t = one
      BY <1>4, <1>4a, <2>1
    <3>2. QED
      BY <1>1, <1>2, <1>4, <2>1, <3>1
  <2>2. CASE (n + 1) % EntriesPerPage = 0
    <3> DEFINE k == Table(n) + 1
               fp == start + k
               np == FPTOVP_PAGE + k
               g == Append([f EXCEPT ![fp] = np], f[fp])
    <3>1. (n + 1) \div EntriesPerPage = k
      BY <1>2, <2>2 DEF Table
    <3>2. t = [one EXCEPT !.fptovp = g, !.nactive = n + 2, !.made = m \cup {np}]
      <4>1. one.nactive \div EntriesPerPage = k
        BY <1>4, <3>1
      <4>2. t = GrowTable(one)
        BY <1>4, <1>4a, <2>2
      <4>3. one.nactive + 1 = n + 2 /\ one.fptovpstart + k = fp
        BY <1>1, <1>4
      <4>4. t = [one EXCEPT !.fptovp = Append([one.fptovp EXCEPT ![fp] = np], one.fptovp[fp]),
                            !.nactive = one.nactive + 1, !.made = one.made \cup {np}]
        <5> HIDE DEF k
        <5>1. GrowTable(one) = [one EXCEPT
                 !.fptovp = Append([@ EXCEPT ![one.fptovpstart + k] = FPTOVP_PAGE + k], @[one.fptovpstart + k]),
                 !.nactive = @ + 1, !.made = @ \cup {FPTOVP_PAGE + k}]
          BY <4>1 DEF GrowTable
        <5>2. QED
          BY <4>2, <4>3, <5>1
      <4>5. QED
        BY <1>4, <4>3, <4>4
    <3>3. fp \in 1 .. Len(f) /\ np \in Nat /\ k \in Nat
      BY <1>1, <1>2 DEF Together
    <3>4. np \in TablePages /\ np \notin m
      <4>1. Table(n + 2) <= Table(MaxActive)
        BY <1>1, TableMonotone
      <4>2. Table(MaxActive) \in Nat
        BY <1>1, TableGrows
      <4>3. np \in TablePages
        BY <1>1, <1>2, <2>2, <4>1, <4>2 DEF TablePages, Table
      <4>4. QED
        BY <1>1, <1>2, <4>3 DEF Together
    <3> HIDE DEF g, np, fp
    <3>5. /\ Places(g, m \cup {np}) /\ Len(g) = n + 1 /\ g[fp] = np
          /\ \A i \in 1 .. Len(f) : i # fp => g[i] = f[i]
      <4> DEFINE q == m \cup {np}
      <4>1. q = With(m, np)
        BY DEF With
      <4>2. g = Moved(f, fp, np)
        BY DEF g, Moved
      <4> HIDE DEF q, k
      <4>3. NewInto(f, fp, np, g, q)
        BY <1>1, <3>3, <3>4, <4>1, <4>2, PageMoved
      <4>4. QED
        BY <1>1, <4>1, <4>3 DEF NewInto, With
    <3>6. Together(g, start, k, m \cup {np})
      <4>1. fp = start + k /\ np = FPTOVP_PAGE + k
        BY DEF fp, np
      <4>2. IFPAGE_AT < start /\ start + k < Len(g)
        BY <1>1, <1>2, <3>5 DEF Together
      <4>3. ASSUME NEW page \in 0 .. k PROVE g[start + page] = FPTOVP_PAGE + page
        <5>1. CASE page = k
          BY <3>5, <4>1, <5>1
        <5>2. CASE page # k
          <6>1. page \in 0 .. Table(n) /\ start + page \in 1 .. Len(f) /\ start + page # fp
            BY <1>1, <1>2, <4>1, <5>2 DEF Together
          <6>2. QED
            BY <1>1, <3>5, <6>1 DEF Together
        <5>3. QED
          BY <5>1, <5>2
      <4>4. ASSUME NEW x \in m \cup {np}, x \in TablePages PROVE x <= FPTOVP_PAGE + k
        <5>1. CASE x \in m
          <6>1. x <= FPTOVP_PAGE + Table(n) /\ x \in Nat
            BY <1>1, <4>4, <5>1 DEF Together
          <6>2. QED
            BY <1>1, <1>2, <4>1, <6>1
        <5>2. CASE x = np
          BY <1>1, <1>2, <4>1, <5>2
        <5>3. QED
          BY <4>4, <5>1, <5>2
      <4>5. g[IFPAGE_AT] = IFPAGE_PAGE
        <5>1. IFPAGE_AT \in 1 .. Len(f) /\ IFPAGE_AT # fp
          BY <1>1, <1>2, <4>1 DEF Together, IFPAGE_AT
        <5>2. QED
          BY <1>1, <3>5, <5>1 DEF Together
      <4>6. QED
        BY <4>2, <4>3, <4>4, <4>5 DEF Together
    <3>7. g \in Seq(Nat \cup {Hole}) /\ m \cup {np} \in SUBSET Nat
      BY <3>5 DEF Places
    <3>8. /\ t \in Worlds /\ t.twice = s.twice /\ Untouched(s, t) /\ t.fptovpstart = start
          /\ t.nactive = n + 2 /\ t.fptovp = g /\ t.made = m \cup {np}
      <4> DEFINE q == m \cup {np}
                 n2 == n + 2
      <4>1. t = WithTable(one, g, n2, q, one.twice)
        BY <1>4, <3>2 DEF Worlds, WithTable
      <4>2. q \in SUBSET Nat /\ n2 \in Nat /\ one.twice \in BOOLEAN /\ q = m \cup {np} /\ n2 = n + 2
        BY <1>1, <1>4, <3>7
      <4> HIDE DEF q, n2
      <4> DEFINE b == one.twice
      <4>3. t = WithTable(one, g, n2, q, b) /\ b \in BOOLEAN /\ one \in Worlds /\ g \in Seq(Nat \cup {Hole})
            /\ q \in SUBSET Nat /\ n2 \in Nat
        BY <1>4, <3>7, <4>1, <4>2
      <4> HIDE DEF b
      <4>4. TableIs(one, t, g, n2, q, b)
        BY <4>3, TableSet
      <4>5. QED
        BY <1>4, <4>2, <4>4 DEF Untouched, TableIs, b
    <3>9. QED
      BY <1>1, <1>2, <2>2, <3>4, <3>5, <3>6, <3>8
  <2>3. QED
    BY <2>1, <2>2
<1> HIDE DEF t
<1> DEFINE g == Append(t.fptovp, vp)
           q == t.made \cup {vp}
<1>5a. t.nactive \in Nat /\ t.nactive \in 1 .. MaxActive /\ vp # Hole
  <2>1. t.nactive \in Nat
    BY <1>5 DEF Worlds
  <2>2. QED
    BY <1>1, <1>5, <2>1 DEF Hole
<1>6. vp \notin t.made
  BY <1>1, <1>5
<1>7. v = [t EXCEPT !.fptovp = g, !.twice = @ \/ vp \in t.made, !.made = q]
  OBVIOUS
<1>8. /\ Places(g, q) /\ Len(g) = t.nactive /\ g[Len(g)] = vp /\ \A k \in 1 .. Len(t.fptovp) : g[k] = t.fptovp[k]
  <2> DEFINE tf == t.fptovp
             tm == t.made
  <2>1. g = Appended(tf, vp) /\ q = With(tm, vp)
    BY DEF Appended, With
  <2>2. Places(tf, tm) /\ vp \notin tm
    BY <1>5, <1>6
  <2> HIDE DEF g, q, tf, tm
  <2>3. NewLast(tf, vp, g, q)
    BY <2>1, <2>2, PageAppended
  <2>4. NewLast(t.fptovp, vp, g, q)
    BY <2>3 DEF tf
  <2>5. QED
    BY <1>5, <2>4 DEF NewLast
<1>9. g \in Seq(Nat \cup {Hole}) /\ q \in SUBSET Nat /\ \A x \in q : x \in t.made \/ x = vp
  BY <1>8 DEF Places
<1> HIDE DEF g, q
<1>10. /\ v \in Worlds /\ v.twice = s.twice /\ Untouched(s, v) /\ v.fptovpstart = start
       /\ v.nactive = t.nactive /\ v.fptovp = g /\ v.made = q
  <2> DEFINE b == t.twice \/ vp \in t.made
  <2>1. v = WithTable(t, g, t.nactive, q, b)
    BY <1>5, <1>7 DEF Worlds, WithTable
  <2>2. b \in BOOLEAN /\ b = s.twice /\ t.nactive \in Nat
    BY <1>1, <1>5, <1>6 DEF Worlds
  <2> HIDE DEF b, v
  <2> DEFINE n2 == t.nactive
  <2>3. v = WithTable(t, g, n2, q, b) /\ n2 \in Nat /\ t \in Worlds
    BY <1>5, <2>1, <2>2
  <2> HIDE DEF n2
  <2>4. TableIs(t, v, g, n2, q, b)
    BY <1>9, <2>2, <2>3, TableSet
  <2>5. QED
    BY <1>5, <2>2, <2>4 DEF Untouched, TableIs, n2
<1> HIDE DEF v
<1>11. u \in Worlds /\ Untouched(v, u) /\ SameTable(v, u)
  BY <1>3, <1>10, FullNoted
<1>12. Together(g, start, Table(t.nactive), q)
  <2>1. IFPAGE_AT < start /\ start + Table(t.nactive) < Len(t.fptovp) /\ Len(t.fptovp) \in Nat
        /\ Table(t.nactive) \in Nat /\ t.nactive \in Nat
    <3>1. t.nactive \in Nat
      BY <1>5 DEF Worlds
    <3>2. Table(t.nactive) \in Nat
      BY <3>1, TableGrows
    <3>3. QED
      BY <1>5, <3>1, <3>2 DEF Together, Places
  <2>2. ASSUME NEW page \in 0 .. Table(t.nactive) PROVE g[start + page] = FPTOVP_PAGE + page
    <3>1. start + page \in 1 .. Len(t.fptovp)
      BY <1>1, <2>1
    <3>2. QED
      BY <1>5, <1>8, <3>1 DEF Together
  <2>3. g[IFPAGE_AT] = IFPAGE_PAGE
    <3>1. IFPAGE_AT \in 1 .. Len(t.fptovp)
      BY <1>1, <2>1 DEF IFPAGE_AT
    <3>2. QED
      BY <1>5, <1>8, <3>1 DEF Together
  <2>4. ASSUME NEW x \in q, x \in TablePages PROVE x <= FPTOVP_PAGE + Table(t.nactive)
    BY <1>5, <1>9, <2>4 DEF Together
  <2>5. start + Table(t.nactive) < Len(g)
    BY <1>1, <1>5, <1>8, <2>1
  <2>6. QED
    BY <2>1, <2>2, <2>3, <2>4, <2>5 DEF Together
<1>13. Placed(u)
  <2>1. u.nactive = t.nactive /\ u.fptovp = g /\ u.made = q /\ u.fptovpstart = start
    BY <1>10, <1>11 DEF SameTable
  <2>2. QED
    BY <1>5a, <1>8, <1>12, <2>1 DEF Placed
<1>14. QED
  <2>1. u.twice = s.twice /\ u.nactive = t.nactive /\ u.made = q /\ s.nactive = n
    BY <1>10, <1>11 DEF SameTable, n
  <2>2. Untouched(s, u)
    BY <1>10, <1>11 DEF Untouched
  <2>3. \A x \in u.made : x \in s.made \/ x \in {vp} \/ x \in TablePages
    BY <1>5, <1>9, <2>1 DEF m
  <2>4. QED
    BY <1>5, <1>11, <1>13, <2>1, <2>2, <2>3 DEF Grown

(***************************************************************************)
(* The regions.                                                            *)
(***************************************************************************)
LEMMA Geometry ==
  /\ FirstArray \in Nat /\ FirstMDS \in Nat /\ SecondArrayPage \in Nat /\ LastPage["large"] \in Nat
  /\ PAGESPER_MDSUNIT = 2 /\ FirstArray + 2 < FirstMDS /\ FirstMDS + 2 <= SecondArrayPage
  /\ SecondArrayPage <= LastPage["large"] - 3 /\ LastPage["small"] \in Nat
  /\ Sizes = {"small", "large"} /\ GUARDSTORAGEFULL \in Nat /\ GUARD1STORAGEFULL \in Nat /\ MaxActive \in Nat
BY MemoryAssumption DEF PAGESPER_MDSUNIT, Sizes

LEMMA WorldTyped ==
  ASSUME NEW s \in Worlds
  PROVE  /\ s.nextArray \in Int /\ s.nextMDS \in Int /\ s.leastMDS \in Int /\ s.secondMDS \in Int
         /\ s.STORAGEFULLSTATE \in States /\ s.size \in Sizes /\ s.made \in SUBSET Nat /\ s.nactive \in Nat
         /\ s.cachevar \in BOOLEAN /\ s.stuck \in BOOLEAN /\ s.twice \in BOOLEAN /\ s.STORAGEFULL \in {"NIL", "0", "T"}
         /\ s.pending \in BOOLEAN
BY DEF Worlds

\* The pages that were made since are in P or of the table.
NewPages(s, u, P) == \A x \in u.made : x \in s.made \/ x \in P \/ x \in TablePages
SameState(s, u) ==
  /\ u.size = s.size /\ u.storagefullstate = s.storagefullstate /\ u.STORAGEFULLSTATE = s.STORAGEFULLSTATE
  /\ u.cachevar = s.cachevar /\ u.leastMDS = s.leastMDS /\ u.secondMDS = s.secondMDS /\ u.stuck = s.stuck

LEMMA StillUnmade ==
  ASSUME NEW s, NEW u, NEW P, NewPages(s, u, P), NEW a \in Int, NEW b \in Int, Unmade(s, a, b),
         NEW c \in Int, NEW d \in Int, FirstArray <= c, d <= LastPage["large"], a <= c, d <= b,
         \A x \in c .. d : x \notin P
  PROVE  Unmade(u, c, d)
<1>1. SUFFICES ASSUME NEW x \in c .. d, x \in u.made PROVE FALSE
  BY DEF Unmade
<1>2. x \in a .. b /\ x \in RegionPages
  BY Geometry DEF RegionPages
<1>3. x \notin s.made /\ x \notin TablePages /\ x \notin P
  BY <1>1, <1>2, LayoutAssumption DEF Unmade
<1>4. QED
  BY <1>1, <1>3 DEF NewPages

\* The lowest page that MDS may take where it is now.
Lowest(s) == IF s.STORAGEFULLSTATE = "ARRAYSWITCHED" THEN s.leastMDS ELSE s.nextArray
MayTake(s) == Lowest(s) <= s.nextMDS

\* The pair that is taken next lies in the regions and was not made.
LEMMA PairUnmade ==
  ASSUME NEW s \in Worlds, Regions(s), MayTake(s), NEW x, x = s.nextMDS \/ x = s.nextMDS + 1
  PROVE  x \in Nat /\ x \notin s.made /\ x \in RegionPages /\ x \notin TablePages
<1>1. /\ Unmade(s, Lowest(s), s.nextMDS + 1) /\ FirstArray <= Lowest(s) /\ s.nextMDS + 1 <= LastPage["large"]
      /\ Lowest(s) \in Int /\ s.nextMDS \in Int
  <2>1. CASE s.STORAGEFULLSTATE \in {"NIL", "NOTSWITCHABLE", "SWITCHABLE"}
    BY <2>1, Geometry, WorldTyped DEF Regions, Lowest
  <2>2. CASE s.STORAGEFULLSTATE = "ARRAYSWITCHED"
    BY <2>2, Geometry, WorldTyped DEF Regions, Lowest
  <2>3. CASE s.STORAGEFULLSTATE = "FULLYSWITCHED"
    BY <2>3, Geometry, WorldTyped DEF Regions, Lowest
  <2>4. QED
    BY <2>1, <2>2, <2>3, WorldTyped DEF States
<1>2. x \in Lowest(s) .. s.nextMDS + 1
  BY <1>1 DEF MayTake
<1>3. x \in RegionPages /\ x \in Nat
  BY <1>1, <1>2, Geometry DEF RegionPages
<1>4. QED
  BY <1>1, <1>2, <1>3, LayoutAssumption DEF Unmade

LEMMA RegionsTaken ==
  ASSUME NEW s \in Worlds, NEW u \in Worlds, Regions(s), MayTake(s), SameState(s, u),
         u.nextArray = s.nextArray, u.nextMDS = s.nextMDS - 2,
         NEW P, P = {s.nextMDS, s.nextMDS + 1}, NewPages(s, u, P)
  PROVE  Regions(u)
<1>1. /\ s.nextArray \in Int /\ s.nextMDS \in Int /\ s.leastMDS \in Int /\ s.secondMDS \in Int
      /\ SecondArrayPage \in Int /\ LastPage["large"] \in Int
  BY Geometry, WorldTyped
<1>2. CASE s.STORAGEFULLSTATE \in {"NIL", "NOTSWITCHABLE", "SWITCHABLE"}
  <2>1. FirstArray <= s.nextArray /\ s.nextMDS <= FirstMDS
    BY <1>2 DEF Regions
  <2>2. Unmade(s, s.nextArray, s.nextMDS + 1) /\ Unmade(s, SecondArrayPage, LastPage["large"])
    BY <1>2 DEF Regions
  <2>3. Unmade(u, s.nextArray, s.nextMDS - 1)
    BY <1>1, <2>1, <2>2, Geometry, StillUnmade
  <2>4. Unmade(u, SecondArrayPage, LastPage["large"])
    BY <1>1, <2>1, <2>2, Geometry, StillUnmade
  <2>5. QED
    BY <1>1, <1>2, <2>1, <2>3, <2>4, Geometry DEF Regions, SameState
<1>3. CASE s.STORAGEFULLSTATE = "ARRAYSWITCHED"
  <2>1. /\ FirstArray <= s.leastMDS /\ s.nextMDS <= FirstMDS /\ SecondArrayPage <= s.nextArray
        /\ s.secondMDS = LastPage["large"] - 3
    BY <1>3, Geometry DEF Regions
  <2>2. Unmade(s, s.leastMDS, s.nextMDS + 1) /\ Unmade(s, s.nextArray, s.secondMDS + 1)
    BY <1>3 DEF Regions
  <2>3. Unmade(u, s.leastMDS, s.nextMDS - 1)
    BY <1>1, <2>1, <2>2, Geometry, StillUnmade
  <2>4. Unmade(u, s.nextArray, s.secondMDS + 1)
    BY <1>1, <2>1, <2>2, Geometry, StillUnmade
  <2>5. QED
    BY <1>1, <1>3, <2>1, <2>3, <2>4, Geometry DEF Regions, SameState
<1>4. CASE s.STORAGEFULLSTATE = "FULLYSWITCHED"
  <2>1. SecondArrayPage <= s.nextArray /\ s.nextMDS <= s.secondMDS /\ s.secondMDS = LastPage["large"] - 3
    BY <1>4, Geometry DEF Regions
  <2>2. Unmade(s, s.nextArray, s.nextMDS + 1)
    BY <1>4 DEF Regions
  <2>3. Unmade(u, s.nextArray, s.nextMDS - 1)
    BY <1>1, <2>1, <2>2, Geometry, StillUnmade
  <2>4. QED
    BY <1>1, <1>4, <2>1, <2>3, Geometry DEF Regions, SameState
<1>5. QED
  BY <1>2, <1>3, <1>4, WorldTyped DEF States

\* The next array page was not made either, if it fits.
LEMMA ArrayUnmade ==
  ASSUME NEW s \in Worlds, Regions(s), ArrayPagesFit(s, 1)
  PROVE  s.nextArray \in Nat /\ s.nextArray \notin s.made /\ s.nextArray \in RegionPages /\ s.nextArray \notin TablePages
<1>1. \E b \in Int : /\ Unmade(s, s.nextArray, b) /\ FirstArray <= s.nextArray /\ b <= LastPage["large"]
                     /\ s.nextArray <= b /\ s.nextArray \in Int
  <2>1. CASE s.STORAGEFULLSTATE \in {"NIL", "NOTSWITCHABLE", "SWITCHABLE"}
    BY <2>1, Geometry, WorldTyped DEF Regions, ArrayPagesFit, PAGESPER_MDSUNIT
  <2>2. CASE s.STORAGEFULLSTATE = "ARRAYSWITCHED"
    BY <2>2, Geometry, WorldTyped DEF Regions, ArrayPagesFit
  <2>3. CASE s.STORAGEFULLSTATE = "FULLYSWITCHED"
    BY <2>3, Geometry, WorldTyped DEF Regions, ArrayPagesFit, PAGESPER_MDSUNIT
  <2>4. QED
    BY <2>1, <2>2, <2>3, WorldTyped DEF States
<1>2. PICK b \in Int : /\ Unmade(s, s.nextArray, b) /\ FirstArray <= s.nextArray /\ b <= LastPage["large"]
                       /\ s.nextArray <= b /\ s.nextArray \in Int
  BY <1>1
<1>3. s.nextArray \in RegionPages /\ s.nextArray \in Nat /\ s.nextArray \in s.nextArray .. b
  BY <1>2, Geometry DEF RegionPages
<1>4. QED
  BY <1>2, <1>3, LayoutAssumption DEF Unmade

LEMMA RegionsArray ==
  ASSUME NEW s \in Worlds, NEW u \in Worlds, Regions(s), ArrayPagesFit(s, 1), SameState(s, u),
         u.nextArray = s.nextArray + 1, u.nextMDS = s.nextMDS,
         NEW P, P = {s.nextArray}, NewPages(s, u, P)
  PROVE  Regions(u)
<1>1. /\ s.nextArray \in Int /\ s.nextMDS \in Int /\ s.leastMDS \in Int /\ s.secondMDS \in Int
      /\ SecondArrayPage \in Int /\ LastPage["large"] \in Int
  BY Geometry, WorldTyped
<1>2. CASE s.STORAGEFULLSTATE \in {"NIL", "NOTSWITCHABLE", "SWITCHABLE"}
  <2>1. FirstArray <= s.nextArray /\ s.nextMDS <= FirstMDS /\ s.nextArray <= s.nextMDS + 1
    BY <1>1, <1>2, Geometry DEF Regions, ArrayPagesFit, PAGESPER_MDSUNIT
  <2>2. Unmade(s, s.nextArray, s.nextMDS + 1) /\ Unmade(s, SecondArrayPage, LastPage["large"])
    BY <1>2 DEF Regions
  <2>3. Unmade(u, s.nextArray + 1, s.nextMDS + 1)
    BY <1>1, <2>1, <2>2, Geometry, StillUnmade
  <2>4. Unmade(u, SecondArrayPage, LastPage["large"])
    BY <1>1, <2>1, <2>2, Geometry, StillUnmade
  <2>5. QED
    BY <1>1, <1>2, <2>1, <2>3, <2>4, Geometry DEF Regions, SameState
<1>3. CASE s.STORAGEFULLSTATE = "ARRAYSWITCHED"
  <2>1. /\ FirstArray <= s.leastMDS /\ s.nextMDS <= FirstMDS /\ SecondArrayPage <= s.nextArray
        /\ s.secondMDS = LastPage["large"] - 3 /\ s.nextArray < s.secondMDS
    BY <1>1, <1>3, Geometry DEF Regions, ArrayPagesFit
  <2>2. Unmade(s, s.leastMDS, s.nextMDS + 1) /\ Unmade(s, s.nextArray, s.secondMDS + 1)
    BY <1>3 DEF Regions
  <2>3. Unmade(u, s.leastMDS, s.nextMDS + 1)
    BY <1>1, <2>1, <2>2, Geometry, StillUnmade
  <2>4. Unmade(u, s.nextArray + 1, s.secondMDS + 1)
    BY <1>1, <2>1, <2>2, Geometry, StillUnmade
  <2>5. QED
    BY <1>1, <1>3, <2>1, <2>3, <2>4, Geometry DEF Regions, SameState
<1>4. CASE s.STORAGEFULLSTATE = "FULLYSWITCHED"
  <2>1. SecondArrayPage <= s.nextArray /\ s.nextMDS <= s.secondMDS /\ s.secondMDS = LastPage["large"] - 3
    BY <1>4, Geometry DEF Regions
  <2>2. Unmade(s, s.nextArray, s.nextMDS + 1)
    BY <1>4 DEF Regions
  <2>3. Unmade(u, s.nextArray + 1, s.nextMDS + 1)
    BY <1>1, <2>1, <2>2, Geometry, StillUnmade
  <2>4. QED
    BY <1>1, <1>4, <2>1, <2>3, Geometry DEF Regions, SameState
<1>5. QED
  BY <1>2, <1>3, <1>4, WorldTyped DEF States

\* A page outside the regions does not matter to them.
LEMMA RegionsApart ==
  ASSUME NEW s \in Worlds, NEW u \in Worlds, Regions(s), SameState(s, u),
         u.nextArray = s.nextArray, u.nextMDS = s.nextMDS,
         NEW P, P \cap RegionPages = {}, NewPages(s, u, P)
  PROVE  Regions(u)
<1>1. /\ s.nextArray \in Int /\ s.nextMDS \in Int /\ s.leastMDS \in Int /\ s.secondMDS \in Int
      /\ SecondArrayPage \in Int /\ LastPage["large"] \in Int
  BY Geometry, WorldTyped
<1>2. ASSUME NEW a \in Int, NEW b \in Int, Unmade(s, a, b), FirstArray <= a, b <= LastPage["large"]
      PROVE  Unmade(u, a, b)
  <2>1. ASSUME NEW x \in a .. b PROVE x \notin P
    BY <1>2, Geometry DEF RegionPages
  <2>2. QED
    BY <1>2, <2>1, StillUnmade
<1>3. CASE s.STORAGEFULLSTATE \in {"NIL", "NOTSWITCHABLE", "SWITCHABLE"}
  <2>1. FirstArray <= s.nextArray /\ s.nextMDS <= FirstMDS
    BY <1>3 DEF Regions
  <2>2. Unmade(u, s.nextArray, s.nextMDS + 1) /\ Unmade(u, SecondArrayPage, LastPage["large"])
    BY <1>1, <1>2, <1>3, <2>1, Geometry DEF Regions
  <2>3. QED
    BY <1>3, <2>1, <2>2 DEF Regions, SameState
<1>4. CASE s.STORAGEFULLSTATE = "ARRAYSWITCHED"
  <2>1. /\ FirstArray <= s.leastMDS /\ s.nextMDS <= FirstMDS /\ SecondArrayPage <= s.nextArray
        /\ s.secondMDS = LastPage["large"] - 3
    BY <1>4, Geometry DEF Regions
  <2>2. Unmade(u, s.leastMDS, s.nextMDS + 1) /\ Unmade(u, s.nextArray, s.secondMDS + 1)
    BY <1>1, <1>2, <1>4, <2>1, Geometry DEF Regions
  <2>3. QED
    BY <1>4, <2>1, <2>2, Geometry DEF Regions, SameState
<1>5. CASE s.STORAGEFULLSTATE = "FULLYSWITCHED"
  <2>1. SecondArrayPage <= s.nextArray /\ s.nextMDS <= s.secondMDS /\ s.secondMDS = LastPage["large"] - 3
    BY <1>5, Geometry DEF Regions
  <2>2. Unmade(u, s.nextArray, s.nextMDS + 1)
    BY <1>1, <1>2, <1>5, <2>1, Geometry DEF Regions
  <2>3. QED
    BY <1>5, <2>1, <2>2, Geometry DEF Regions, SameState
<1>6. QED
  BY <1>3, <1>4, <1>5, WorldTyped DEF States

(***************************************************************************)
(* The steps that take pages.                                              *)
(***************************************************************************)
LEMMA PlacedSame ==
  ASSUME NEW s, NEW u, Placed(s), SameTable(s, u)
  PROVE  Placed(u)
BY DEF Placed, SameTable

LEMMA RegionsSame ==
  ASSUME NEW s, NEW u, Regions(s), SameTable(s, u), SameState(s, u), u.nextArray = s.nextArray, u.nextMDS = s.nextMDS
  PROVE  Regions(u)
BY DEF Regions, SameTable, SameState, Unmade

LEMMA NextMDSSet ==
  ASSUME NEW s \in Worlds, NEW n \in Int, NEW u, u = [s EXCEPT !.nextMDS = n]
  PROVE  u \in Worlds /\ SameTable(s, u) /\ SameState(s, u) /\ u.nextArray = s.nextArray /\ u.nextMDS = n
BY DEF Worlds, SameTable, SameState

LEMMA NextArraySet ==
  ASSUME NEW s \in Worlds, NEW n \in Int, NEW u, u = [s EXCEPT !.nextArray = n]
  PROVE  u \in Worlds /\ SameTable(s, u) /\ SameState(s, u) /\ u.nextMDS = s.nextMDS /\ u.nextArray = n
BY DEF Worlds, SameTable, SameState

\* What a step that takes n file pages leaves of the world.
Took(s, u, n) ==
  /\ u \in Worlds /\ Placed(u) /\ Regions(u) /\ u.twice = s.twice
  /\ s.nactive <= u.nactive /\ u.nactive <= s.nactive + n
  /\ SameState(s, u)

LEMMA MDSTaken ==
  ASSUME NEW s \in Worlds, Placed(s), Regions(s), MayTake(s), s.nactive + 4 <= MaxActive, NEW u, u = TakeMDS(s)
  PROVE  Took(s, u, 4) /\ u.nextArray = s.nextArray /\ u.nextMDS = s.nextMDS - 2
<1> DEFINE p == s.nextMDS
           p1 == s.nextMDS + 1
           n == s.nextMDS - 2
           a == [s EXCEPT !.nextMDS = n]
           b == newpage(a, p)
<1>1. u = newpage(b, p1)
  BY DEF TakeMDS, PAGESPER_MDSUNIT
<1>2. /\ s.nextMDS \in Int /\ s.nactive \in Nat /\ MaxActive \in Nat
      /\ p \in Nat /\ p \notin s.made /\ p \in RegionPages /\ p \notin TablePages
      /\ p1 \in Nat /\ p1 \notin s.made /\ p1 \in RegionPages /\ p1 \notin TablePages /\ p1 # p
  BY Geometry, WorldTyped, PairUnmade
<1>3. n \in Int /\ n = s.nextMDS - 2
  BY <1>2
<1>3a. a = [s EXCEPT !.nextMDS = n]
  OBVIOUS
<1>3b. b = newpage(a, p)
  OBVIOUS
<1>3c. p = s.nextMDS /\ p1 = s.nextMDS + 1
  OBVIOUS
<1> HIDE DEF a, b, n, p, p1
<1>4. a \in Worlds /\ SameTable(s, a) /\ SameState(s, a) /\ a.nextArray = s.nextArray /\ a.nextMDS = n
  BY <1>3, <1>3a, NextMDSSet
<1>5. Placed(a)
  BY <1>4, PlacedSame
<1>6. a.nactive = s.nactive /\ a.made = s.made /\ a.twice = s.twice
  BY <1>4 DEF SameTable
<1>7. a.nactive + 2 <= MaxActive /\ p \notin a.made
  BY <1>2, <1>6
<1>8. Grown(a, b, 2, {p})
  BY <1>2, <1>3b, <1>4, <1>5, <1>7, PageAdded
<1>9. b \in Worlds /\ Placed(b) /\ b.nactive + 2 <= MaxActive /\ p1 \notin b.made
  <2>1. b \in Worlds /\ Placed(b) /\ b.nactive <= a.nactive + 2
        /\ \A x \in b.made : x \in a.made \/ x \in {p} \/ x \in TablePages
    BY <1>8 DEF Grown
  <2>2. b.nactive \in Nat
    BY <2>1, WorldTyped
  <2>3. QED
    BY <1>2, <1>6, <2>1, <2>2
<1>10. Grown(b, u, 2, {p1})
  BY <1>1, <1>2, <1>9, PageAdded
<1>11. /\ u \in Worlds /\ Placed(u) /\ u.twice = s.twice /\ u.nextArray = s.nextArray /\ u.nextMDS = n
       /\ SameState(s, u)
  BY <1>4, <1>6, <1>8, <1>10 DEF Grown, Untouched, SameState
<1>12. s.nactive <= u.nactive /\ u.nactive <= s.nactive + 4
  <2>1. b.nactive \in Nat /\ u.nactive \in Nat
    BY <1>9, <1>11, WorldTyped
  <2>2. s.nactive < b.nactive /\ b.nactive <= s.nactive + 2 /\ b.nactive < u.nactive /\ u.nactive <= b.nactive + 2
    BY <1>6, <1>8, <1>10 DEF Grown
  <2>3. QED
    BY <1>2, <2>1, <2>2
<1>13. Regions(u)
  <2> DEFINE P == {p, p1}
  <2>1. NewPages(s, u, P)
    BY <1>6, <1>8, <1>10 DEF Grown, NewPages
  <2>2. P = {s.nextMDS, s.nextMDS + 1}
    BY <1>3c
  <2> HIDE DEF P
  <2>3. QED
    BY <1>3, <1>11, <2>1, <2>2, RegionsTaken
<1>14. QED
  BY <1>3, <1>11, <1>12, <1>13 DEF Took

LEMMA ArrayTaken ==
  ASSUME NEW s \in Worlds, Placed(s), Regions(s), ArrayPagesFit(s, 1), s.nactive + 2 <= MaxActive,
         NEW u, u = newpage([s EXCEPT !.nextArray = @ + 1], s.nextArray)
  PROVE  Took(s, u, 2) /\ u.nextArray = s.nextArray + 1 /\ u.nextMDS = s.nextMDS
<1> DEFINE p == s.nextArray
           n == s.nextArray + 1
           a == [s EXCEPT !.nextArray = n]
<1>1. u = newpage(a, p)
  OBVIOUS
<1>2. /\ s.nextArray \in Int /\ s.nactive \in Nat /\ MaxActive \in Nat
      /\ p \in Nat /\ p \notin s.made /\ p \in RegionPages /\ p \notin TablePages
  BY Geometry, WorldTyped, ArrayUnmade
<1>3. n \in Int /\ n = s.nextArray + 1 /\ a = [s EXCEPT !.nextArray = n] /\ p = s.nextArray
  BY <1>2
<1> HIDE DEF a, n, p
<1>4. a \in Worlds /\ SameTable(s, a) /\ SameState(s, a) /\ a.nextMDS = s.nextMDS /\ a.nextArray = n
  BY <1>3, NextArraySet
<1>5. Placed(a)
  BY <1>4, PlacedSame
<1>6. a.nactive = s.nactive /\ a.made = s.made /\ a.twice = s.twice
  BY <1>4 DEF SameTable
<1>7. a.nactive + 2 <= MaxActive /\ p \notin a.made
  BY <1>2, <1>6
<1>8. Grown(a, u, 2, {p})
  BY <1>1, <1>2, <1>4, <1>5, <1>7, PageAdded
<1>9. /\ u \in Worlds /\ Placed(u) /\ u.twice = s.twice /\ u.nextArray = n /\ u.nextMDS = s.nextMDS
      /\ SameState(s, u)
  BY <1>4, <1>6, <1>8 DEF Grown, Untouched, SameState
<1>10. s.nactive <= u.nactive /\ u.nactive <= s.nactive + 2
  <2>1. u.nactive \in Nat
    BY <1>9, WorldTyped
  <2>2. s.nactive < u.nactive /\ u.nactive <= s.nactive + 2
    BY <1>6, <1>8 DEF Grown
  <2>3. QED
    BY <1>2, <2>1, <2>2
<1>11. Regions(u)
  <2> DEFINE P == {p}
  <2>1. NewPages(s, u, P)
    BY <1>6, <1>8 DEF Grown, NewPages
  <2>2. P = {s.nextArray}
    BY <1>3
  <2> HIDE DEF P
  <2>3. QED
    BY <1>3, <1>9, <2>1, <2>2, RegionsArray
<1>12. QED
  BY <1>3, <1>9, <1>10, <1>11 DEF Took

LEMMA SystemTaken ==
  ASSUME NEW s \in Worlds, Placed(s), Regions(s), s.nactive + 2 <= MaxActive,
         NEW vp \in SystemPages, vp \notin s.made, NEW u, u = newpage(s, vp)
  PROVE  Took(s, u, 2)
<1>1. vp \in Nat /\ vp \notin TablePages /\ vp \notin RegionPages
  BY LayoutAssumption
<1>2. Grown(s, u, 2, {vp})
  BY <1>1, PageAdded
<1>3. /\ u \in Worlds /\ Placed(u) /\ u.twice = s.twice /\ u.nextArray = s.nextArray /\ u.nextMDS = s.nextMDS
      /\ SameState(s, u)
  BY <1>2 DEF Grown, Untouched, SameState
<1>4. Regions(u)
  <2> DEFINE P == {vp}
  <2>1. NewPages(s, u, P) /\ P \cap RegionPages = {}
    BY <1>1, <1>2 DEF Grown, NewPages
  <2> HIDE DEF P
  <2>2. QED
    BY <1>3, <2>1, RegionsApart
<1>5. s.nactive <= u.nactive /\ u.nactive <= s.nactive + 2
  <2>1. u.nactive \in Nat /\ s.nactive \in Nat
    BY <1>3, WorldTyped
  <2>2. QED
    BY <1>2, <2>1 DEF Grown
<1>6. QED
  BY <1>3, <1>4, <1>5 DEF Took

(***************************************************************************)
(* checkfor_storagefull.                                                   *)
(***************************************************************************)
Advanced(s, l, m, a, t) ==
  [s EXCEPT !.leastMDS = l, !.nextMDS = m, !.nextArray = a, !.STORAGEFULLSTATE = t, !.cachevar = FALSE]
AdvancedTo(s, u, l, m, a, t) ==
  /\ u \in Worlds /\ SameTable(s, u) /\ u.size = s.size /\ u.storagefullstate = s.storagefullstate
  /\ u.secondMDS = s.secondMDS /\ u.stuck = s.stuck
  /\ u.leastMDS = l /\ u.nextMDS = m /\ u.nextArray = a /\ u.STORAGEFULLSTATE = t /\ ~u.cachevar

LEMMA StateAdvanced ==
  ASSUME NEW s \in Worlds, NEW l \in Int, NEW m \in Int, NEW a \in Int, NEW t \in States,
         NEW u, u = Advanced(s, l, m, a, t)
  PROVE  AdvancedTo(s, u, l, m, a, t)
BY DEF Worlds, Advanced, AdvancedTo, SameTable

\* Only the flags that Lisp sees were set.
Flagged(s, u) ==
  u \in Worlds /\ SameTable(s, u) /\ u.size = s.size /\ u.storagefullstate = s.storagefullstate
  /\ u.STORAGEFULLSTATE = s.STORAGEFULLSTATE /\ u.cachevar = s.cachevar /\ u.leastMDS = s.leastMDS
  /\ u.secondMDS = s.secondMDS /\ u.nextArray = s.nextArray /\ u.nextMDS = s.nextMDS

Flag(s, x, b, c) == [s EXCEPT !.STORAGEFULL = x, !.pending = b, !.stuck = c]
LEMMA FlagSet ==
  ASSUME NEW s \in Worlds, NEW x \in {"NIL", "0", "T"}, NEW b \in BOOLEAN, NEW c \in BOOLEAN, NEW u, u = Flag(s, x, b, c)
  PROVE  Flagged(s, u) /\ u.stuck = c
BY DEF Worlds, Flagged, SameTable, Flag

First == {"NIL", "NOTSWITCHABLE", "SWITCHABLE"}
Second == {"ARRAYSWITCHED", "FULLYSWITCHED"}

\* A switch keeps the pages; a restart will not forget it.
Switched(s, u) ==
  /\ u \in Worlds /\ SameTable(s, u) /\ Regions(u) /\ u.size = s.size /\ u.storagefullstate = s.storagefullstate
  /\ \/ u.STORAGEFULLSTATE = s.STORAGEFULLSTATE /\ u.cachevar = s.cachevar
     \/ u.STORAGEFULLSTATE \in Second /\ ~u.cachevar

LEMMA RegionsFlagged ==
  ASSUME NEW s, NEW u, Regions(s), Flagged(s, u)
  PROVE  Regions(u)
BY DEF Regions, Flagged, SameTable, Unmade

LEMMA FullSwitched ==
  ASSUME NEW s \in Worlds, Regions(s), ~s.stuck, NEW left \in Int, left <= PagesLeft(s) + 2, NEW npages \in Nat,
         s.STORAGEFULLSTATE \in {"NOTSWITCHABLE", "FULLYSWITCHED"}, NEW u, u = StorageSwitch(s, left, npages)
  PROVE  /\ Switched(s, u) /\ (~u.stuck => MayTake(u)) /\ Flagged(s, u)
         /\ left >= 0 => ~u.stuck
<1>1. u = IF left < 0 THEN [s EXCEPT !.stuck = TRUE]
          ELSE IF left <= GUARD1STORAGEFULL /\ s.STORAGEFULL # "NIL" THEN [s EXCEPT !.STORAGEFULL = "0"]
          ELSE IF s.STORAGEFULL = "NIL" THEN [s EXCEPT !.STORAGEFULL = "T", !.pending = TRUE]
          ELSE s
  BY DEF StorageSwitch
<1>2. s.stuck = FALSE /\ s.STORAGEFULL \in {"NIL", "0", "T"} /\ s.pending \in BOOLEAN /\ "0" \in {"NIL", "0", "T"}
      /\ "T" \in {"NIL", "0", "T"}
  BY WorldTyped
<1> DEFINE x0 == s.STORAGEFULL
           b0 == s.pending
<1>3. ASSUME left < 0 PROVE Flagged(s, u) /\ u.stuck = TRUE
  <2>1. u = Flag(s, x0, b0, TRUE)
    BY <1>1, <1>3 DEF Worlds, Flag
  <2>2. x0 \in {"NIL", "0", "T"} /\ b0 \in BOOLEAN
    BY <1>2
  <2> HIDE DEF x0, b0
  <2>3. QED
    BY <2>1, <2>2, FlagSet
<1>4. ASSUME left >= 0 PROVE Flagged(s, u) /\ u.stuck = FALSE
  <2> DEFINE yes == TRUE
             no == FALSE
             zero == "0"
             t == "T"
  <2>1. CASE left <= GUARD1STORAGEFULL /\ s.STORAGEFULL # "NIL"
    <3>0. u = [s EXCEPT !.STORAGEFULL = "0"]
      BY <1>1, <1>4, <2>1
    <3>1. u = Flag(s, zero, b0, no)
      BY <1>2, <3>0 DEF Worlds, Flag
    <3>2. zero \in {"NIL", "0", "T"} /\ b0 \in BOOLEAN /\ no \in BOOLEAN
      BY <1>2
    <3> HIDE DEF zero, b0, no
    <3>3. Flagged(s, u) /\ u.stuck = no
      BY <3>1, <3>2, FlagSet
    <3>4. QED
      BY <3>3 DEF no
  <2>2. CASE ~(left <= GUARD1STORAGEFULL /\ s.STORAGEFULL # "NIL") /\ s.STORAGEFULL = "NIL"
    <3>1. u = [s EXCEPT !.STORAGEFULL = "T", !.pending = TRUE]
      BY <1>1, <1>4, <2>2
    <3>2. u = Flag(s, t, yes, no)
      BY <1>2, <3>1 DEF Worlds, Flag
    <3>3. t \in {"NIL", "0", "T"} /\ yes \in BOOLEAN /\ no \in BOOLEAN
      OBVIOUS
    <3> HIDE DEF t, yes, no
    <3>4. Flagged(s, u) /\ u.stuck = no
      BY <3>2, <3>3, FlagSet
    <3>5. QED
      BY <3>4 DEF no
  <2>3. CASE ~(left <= GUARD1STORAGEFULL /\ s.STORAGEFULL # "NIL") /\ s.STORAGEFULL # "NIL"
    <3>1. u = s
      BY <1>1, <1>4, <2>3
    <3>2. QED
      BY <1>2, <3>1 DEF Flagged, SameTable
  <2>4. QED
    BY <2>1, <2>2, <2>3
<1>4a. Flagged(s, u) /\ (left >= 0 => u.stuck = FALSE) /\ (left < 0 => u.stuck = TRUE)
  <2>1. left < 0 \/ left >= 0
    OBVIOUS
  <2>2. QED
    BY <1>3, <1>4, <2>1, Zenon
<1>5. Regions(u)
  BY <1>4a, RegionsFlagged
<1>6. ASSUME left >= 0 PROVE MayTake(u)
  <2>1. s.nextMDS \in Int /\ s.nextArray \in Int /\ s.nextMDS - s.nextArray - 2 + 2 >= left
    BY WorldTyped DEF PagesLeft, PAGESPER_MDSUNIT
  <2>2. QED
    BY <1>4a, <1>6, <2>1 DEF MayTake, Lowest, Flagged
<1>7. ~(left >= 0) => u.stuck = TRUE
  BY <1>4a
<1>8. (left >= 0 => ~u.stuck) /\ (~u.stuck => MayTake(u))
  BY <1>4a, <1>6, <1>7, Zenon
<1>9. QED
  BY <1>4a, <1>5, <1>8 DEF Switched, Flagged

LEMMA FirstSwitched ==
  ASSUME NEW s \in Worlds, Regions(s), ~s.stuck, NEW left \in Int, left <= PagesLeft(s) + 2, NEW npages \in Nat,
         s.STORAGEFULLSTATE = "SWITCHABLE", NEW u, u = StorageSwitch(s, left, npages)
  PROVE  Switched(s, u) /\ ~u.stuck /\ (npages = 0 => MayTake(u)) /\ (npages = 0 /\ left > 0 => u = s)
<1>1. /\ s.nextArray \in Int /\ s.nextMDS \in Int /\ s.leastMDS \in Int /\ s.secondMDS \in Int
      /\ SecondArrayPage \in Int /\ s.size = "large" /\ s.secondMDS = LastPage["large"] - 3
      /\ FirstArray <= s.nextArray /\ s.nextMDS <= FirstMDS /\ LastPage["large"] \in Int
      /\ Unmade(s, s.nextArray, s.nextMDS + 1) /\ Unmade(s, SecondArrayPage, LastPage["large"])
  BY Geometry, WorldTyped DEF Regions
<1>2. CASE npages = 0
  <2>1. CASE left > 0
    <3>1. u = s
      BY <1>2, <2>1 DEF StorageSwitch
    <3>2. MayTake(u)
      BY <1>1, <2>1, <3>1 DEF MayTake, Lowest, PagesLeft, PAGESPER_MDSUNIT
    <3>3. QED
      BY <3>1, <3>2 DEF Switched, SameTable
  <2>2. CASE ~(left > 0)
    <3> DEFINE l == s.nextArray
               m == s.secondMDS
               a == SecondArrayPage
               t == "FULLYSWITCHED"
    <3>1. u = Advanced(s, l, m, a, t)
      <4>1. u = advance_storagestate([s EXCEPT !.leastMDS = s.nextArray, !.nextMDS = s.secondMDS,
                                               !.nextArray = SecondArrayPage], "FULLYSWITCHED")
        BY <1>2, <2>2 DEF StorageSwitch
      <4>2. QED
        BY <4>1 DEF advance_storagestate, Advanced, Worlds
    <3>2. t \in States /\ t = "FULLYSWITCHED" /\ l \in Int /\ m \in Int /\ a \in Int
          /\ l = s.nextArray /\ m = s.secondMDS /\ a = SecondArrayPage
      BY <1>1 DEF States
    <3> HIDE DEF l, m, a, t
    <3>3. AdvancedTo(s, u, l, m, a, t)
      BY <3>1, <3>2, StateAdvanced
    <3>4. Unmade(u, SecondArrayPage, s.secondMDS + 1)
      BY <1>1, <3>3 DEF Unmade, AdvancedTo, SameTable
    <3>5. Regions(u)
      BY <1>1, <3>2, <3>3, <3>4, Geometry DEF AdvancedTo, Regions
    <3>6. MayTake(u)
      BY <1>1, <3>2, <3>3, Geometry DEF AdvancedTo, MayTake, Lowest
    <3>7. QED
      BY <1>2, <2>2, <3>2, <3>3, <3>5, <3>6 DEF AdvancedTo, Switched, Second
  <2>3. QED
    BY <2>1, <2>2
<1>3. CASE npages # 0
  <2>1. CASE left < 0 \/ npages <= left
    <3>1. u = s
      BY <1>3, <2>1 DEF StorageSwitch
    <3>2. QED
      BY <1>3, <3>1 DEF Switched, SameTable
  <2>2. CASE ~(left < 0 \/ npages <= left)
    <3> DEFINE l == s.nextArray
               m == s.nextMDS
               a == SecondArrayPage
               t == "ARRAYSWITCHED"
    <3>1. u = Advanced(s, l, m, a, t)
      <4>1. u = advance_storagestate([s EXCEPT !.leastMDS = s.nextArray, !.nextArray = SecondArrayPage],
                                     "ARRAYSWITCHED")
        BY <1>3, <2>2 DEF StorageSwitch
      <4>2. QED
        BY <4>1 DEF advance_storagestate, Advanced, Worlds
    <3>2. t \in States /\ t = "ARRAYSWITCHED" /\ l \in Int /\ m \in Int /\ a \in Int
          /\ l = s.nextArray /\ m = s.nextMDS /\ a = SecondArrayPage
      BY <1>1 DEF States
    <3> HIDE DEF l, m, a, t
    <3>3. AdvancedTo(s, u, l, m, a, t)
      BY <3>1, <3>2, StateAdvanced
    <3>4. Unmade(u, SecondArrayPage, s.secondMDS + 1) /\ Unmade(u, s.nextArray, s.nextMDS + 1)
      BY <1>1, <3>3 DEF Unmade, AdvancedTo, SameTable
    <3>5. Regions(u)
      BY <1>1, <3>2, <3>3, <3>4, Geometry DEF AdvancedTo, Regions
    <3>6. QED
      BY <1>3, <3>2, <3>3, <3>5 DEF AdvancedTo, Switched, Second
  <2>3. QED
    BY <2>1, <2>2
<1>4. QED
  BY <1>2, <1>3

LEMMA ArraySwitched ==
  ASSUME NEW s \in Worlds, Regions(s), ~s.stuck, NEW left \in Int, NEW npages \in Nat,
         s.STORAGEFULLSTATE = "ARRAYSWITCHED", NEW u, u = StorageSwitch(s, left, npages)
  PROVE  Switched(s, u) /\ ~u.stuck /\ MayTake(u)
<1>1. /\ s.nextArray \in Int /\ s.nextMDS \in Int /\ s.leastMDS \in Int /\ s.secondMDS \in Int
      /\ s.size = "large" /\ s.secondMDS = LastPage["large"] - 3 /\ LastPage["large"] \in Int
      /\ SecondArrayPage <= s.nextArray /\ s.nextArray <= s.secondMDS /\ Unmade(s, s.nextArray, s.secondMDS + 1)
  BY Geometry, WorldTyped DEF Regions
<1>2. CASE s.nextMDS >= s.leastMDS
  <2>1. u = s
    BY <1>2 DEF StorageSwitch
  <2>2. MayTake(u)
    BY <1>1, <1>2, <2>1 DEF MayTake, Lowest
  <2>3. QED
    BY <2>1, <2>2 DEF Switched, SameTable
<1>3. CASE ~(s.nextMDS >= s.leastMDS)
  <2> DEFINE l == s.leastMDS
             m == s.secondMDS
             a == s.nextArray
             t == "FULLYSWITCHED"
  <2>1. u = Advanced(s, l, m, a, t)
    <3>1. u = advance_storagestate([s EXCEPT !.nextMDS = s.secondMDS], "FULLYSWITCHED")
      BY <1>3 DEF StorageSwitch
    <3>2. QED
      BY <3>1 DEF advance_storagestate, Advanced, Worlds
  <2>2. t \in States /\ t = "FULLYSWITCHED" /\ l \in Int /\ m \in Int /\ a \in Int
        /\ l = s.leastMDS /\ m = s.secondMDS /\ a = s.nextArray
    BY <1>1 DEF States
  <2> HIDE DEF l, m, a, t
  <2>3. AdvancedTo(s, u, l, m, a, t)
    BY <2>1, <2>2, StateAdvanced
  <2>4. Unmade(u, s.nextArray, s.secondMDS + 1)
    BY <1>1, <2>3 DEF Unmade, AdvancedTo, SameTable
  <2>5. Regions(u)
    BY <1>1, <2>2, <2>3, <2>4, Geometry DEF AdvancedTo, Regions
  <2>6. MayTake(u)
    BY <1>1, <2>2, <2>3, Geometry DEF AdvancedTo, MayTake, Lowest
  <2>7. QED
    BY <2>2, <2>3, <2>5, <2>6 DEF AdvancedTo, Switched, Second
<1>4. QED
  BY <1>2, <1>3

LEMMA StateSet ==
  ASSUME NEW s \in Worlds, NEW t \in States, NEW u, u = [s EXCEPT !.STORAGEFULLSTATE = t]
  PROVE  /\ u \in Worlds /\ SameTable(s, u) /\ u.size = s.size /\ u.STORAGEFULLSTATE = t /\ u.cachevar = s.cachevar
         /\ u.storagefullstate = s.storagefullstate /\ u.leastMDS = s.leastMDS /\ u.secondMDS = s.secondMDS
         /\ u.nextArray = s.nextArray /\ u.nextMDS = s.nextMDS /\ u.stuck = s.stuck
BY DEF Worlds, SameTable

Cached(s, b) == [s EXCEPT !.cachevar = b]
LEMMA CacheSet ==
  ASSUME NEW s \in Worlds, NEW b \in BOOLEAN, NEW u, u = Cached(s, b)
  PROVE  /\ u \in Worlds /\ SameTable(s, u) /\ u.size = s.size /\ u.STORAGEFULLSTATE = s.STORAGEFULLSTATE
         /\ u.cachevar = b /\ u.storagefullstate = s.storagefullstate /\ u.leastMDS = s.leastMDS
         /\ u.secondMDS = s.secondMDS /\ u.nextArray = s.nextArray /\ u.nextMDS = s.nextMDS /\ u.stuck = s.stuck
BY DEF Worlds, SameTable, Cached

\* A state that is set for the first time leaves the pages where they are, but
\* for a pair that the cons cell may take.
StateKnown(s, u) ==
  /\ u \in Worlds /\ Placed(u) /\ Regions(u) /\ Remembered(u) /\ u.twice = s.twice
  /\ s.nactive <= u.nactive /\ u.nactive <= s.nactive + 4
  /\ u.STORAGEFULLSTATE \in First \ {"NIL"} /\ u.stuck = FALSE /\ PagesLeft(s) <= PagesLeft(u) + 2

LEMMA StateFirstSet ==
  ASSUME NEW s \in Worlds, Placed(s), Regions(s), s.STORAGEFULLSTATE = "NIL", s.stuck = FALSE,
         s.nactive + 8 <= MaxActive, NEW nocell \in BOOLEAN, nocell => PagesLeft(s) > 0,
         NEW u, u = set_storage_state(s, nocell)
  PROVE  StateKnown(s, u)
<1> DEFINE t == IF s.size = "small" THEN "NOTSWITCHABLE" ELSE "SWITCHABLE"
           set == [s EXCEPT !.STORAGEFULLSTATE = t]
           in == IF PagesLeft(set) < GUARDSTORAGEFULL THEN StorageSwitch(set, PagesLeft(set), 0) ELSE set
           got == IF nocell /\ ~in.stuck THEN TakeMDS(in) ELSE IF nocell THEN in ELSE set
           b == ~got.stuck
<1>1. u = [got EXCEPT !.cachevar = b]
  BY DEF set_storage_state
<1>2. t \in States /\ t \in First \ {"NIL"} /\ (t = "SWITCHABLE" => s.size = "large")
  BY Geometry, WorldTyped DEF States, First
<1>2a. set = [s EXCEPT !.STORAGEFULLSTATE = t]
  OBVIOUS
<1> HIDE DEF t, set
<1>3. /\ set \in Worlds /\ SameTable(s, set) /\ set.size = s.size /\ set.STORAGEFULLSTATE = t
      /\ set.leastMDS = s.leastMDS /\ set.secondMDS = s.secondMDS
      /\ set.nextArray = s.nextArray /\ set.nextMDS = s.nextMDS /\ set.stuck = FALSE
  BY <1>2, <1>2a, StateSet
<1>4. Placed(set)
  BY <1>3, PlacedSame
<1>5. Regions(set)
  BY <1>2, <1>3 DEF Regions, Unmade, SameTable, First
<1>6. PagesLeft(set) = PagesLeft(s) /\ PagesLeft(s) \in Int
  BY <1>3, WorldTyped DEF PagesLeft, PAGESPER_MDSUNIT
<1>7. /\ got \in Worlds /\ Placed(got) /\ Regions(got) /\ got.twice = s.twice /\ got.stuck = FALSE
      /\ s.nactive <= got.nactive /\ got.nactive <= s.nactive + 4
      /\ got.STORAGEFULLSTATE = t /\ PagesLeft(s) <= PagesLeft(got) + 2
  <2>1. CASE nocell = FALSE
    <3>1. got = set
      BY <2>1
    <3>2. s.nactive \in Nat
      BY WorldTyped
    <3>3. QED
      BY <1>3, <1>4, <1>5, <1>6, <3>1, <3>2 DEF SameTable
  <2>2. CASE nocell = TRUE
    <3> DEFINE left == PagesLeft(set)
               npages == 0
    <3>1. left \in Int /\ left > 0 /\ left <= PagesLeft(set) + 2 /\ npages \in Nat /\ npages = 0
          /\ in = (IF left < GUARDSTORAGEFULL THEN StorageSwitch(set, left, npages) ELSE set) /\ left = PagesLeft(s)
      BY <1>6, <2>2
    <3> HIDE DEF left, npages, in
    <3>2. Flagged(set, in) /\ Regions(in) /\ in.stuck = FALSE /\ MayTake(in)
      <4>0. CASE ~(left < GUARDSTORAGEFULL)
        <5>1. in = set
          BY <3>1, <4>0
        <5>2. set.nextArray \in Int /\ set.nextMDS \in Int /\ set.STORAGEFULLSTATE # "ARRAYSWITCHED"
              /\ set.nextMDS - set.nextArray - 2 = left
          BY <1>2, <1>3, <3>1, WorldTyped DEF First, PagesLeft, PAGESPER_MDSUNIT, left
        <5>3. MayTake(set)
          BY <3>1, <5>2 DEF MayTake, Lowest
        <5>4. QED
          BY <1>3, <1>5, <5>1, <5>3 DEF Flagged, SameTable
      <4>1. CASE left < GUARDSTORAGEFULL /\ t = "NOTSWITCHABLE"
        <5>1. set.STORAGEFULLSTATE \in {"NOTSWITCHABLE", "FULLYSWITCHED"} /\ ~set.stuck /\ left >= 0
              /\ in = StorageSwitch(set, left, npages)
          BY <1>3, <3>1, <4>1
        <5>2. Switched(set, in) /\ (~in.stuck => MayTake(in)) /\ Flagged(set, in) /\ ~in.stuck
          BY <1>3, <1>5, <3>1, <5>1, FullSwitched
        <5>3. in.stuck \in BOOLEAN
          BY <5>2, WorldTyped DEF Switched
        <5>4. QED
          BY <5>2, <5>3 DEF Switched
      <4>2. CASE left < GUARDSTORAGEFULL /\ t = "SWITCHABLE"
        <5>1. set.STORAGEFULLSTATE = "SWITCHABLE" /\ ~set.stuck /\ in = StorageSwitch(set, left, npages)
          BY <1>3, <3>1, <4>2
        <5>2. in = set /\ MayTake(in)
          BY <1>3, <1>5, <3>1, <5>1, FirstSwitched
        <5>3. QED
          BY <1>3, <1>5, <5>2 DEF Flagged, SameTable
      <4>3. QED
        BY <1>2, <4>0, <4>1, <4>2 DEF First
    <3>3. got = TakeMDS(in)
      BY <2>2, <3>2
    <3>4. in \in Worlds /\ SameTable(set, in) /\ SameTable(s, in)
      BY <1>3, <3>2 DEF Flagged, SameTable
    <3>5. Placed(in)
      BY <1>4, <3>4, PlacedSame
    <3>6. in.nactive = s.nactive /\ in.twice = s.twice /\ in.nactive + 4 <= MaxActive
      <4>1. s.nactive \in Nat /\ MaxActive \in Nat
        BY WorldTyped, Geometry
      <4>2. QED
        BY <3>4, <4>1 DEF SameTable
    <3>7. Took(in, got, 4) /\ got.nextArray = in.nextArray /\ got.nextMDS = in.nextMDS - 2
      BY <3>2, <3>3, <3>4, <3>5, <3>6, MDSTaken
    <3>8. in.nextArray = s.nextArray /\ in.nextMDS = s.nextMDS /\ s.nextArray \in Int /\ s.nextMDS \in Int
      BY <1>3, <3>2, WorldTyped DEF Flagged
    <3>9. PagesLeft(s) <= PagesLeft(got) + 2
      BY <3>7, <3>8 DEF PagesLeft, PAGESPER_MDSUNIT
    <3>10. QED
      BY <1>3, <3>2, <3>6, <3>7, <3>9 DEF Took, Flagged, SameState
  <2>3. QED
    BY <2>1, <2>2
<1> HIDE DEF got
<1> DEFINE yes == TRUE
<1>8. u = Cached(got, yes)
  <2>1. ~got.stuck = yes
    BY <1>7
  <2>2. QED
    BY <1>1, <2>1 DEF Cached
<1>8a. yes \in BOOLEAN /\ yes = TRUE
  OBVIOUS
<1> HIDE DEF yes
<1>9. /\ u \in Worlds /\ SameTable(got, u) /\ u.size = got.size /\ u.STORAGEFULLSTATE = got.STORAGEFULLSTATE
      /\ u.cachevar = yes /\ u.leastMDS = got.leastMDS /\ u.secondMDS = got.secondMDS
      /\ u.nextArray = got.nextArray /\ u.nextMDS = got.nextMDS /\ u.stuck = got.stuck
  <2>1. got \in Worlds
    BY <1>7
  <2>2. yes \in BOOLEAN
    BY <1>8a
  <2>3. QED
    BY <1>8, <2>1, <2>2, CacheSet
<1>10. Placed(u)
  BY <1>7, <1>9, PlacedSame
<1>11. Regions(u)
  BY <1>7, <1>9 DEF Regions, SameTable, Unmade
<1>12. Remembered(u)
  BY <1>2, <1>7, <1>8a, <1>9 DEF Remembered, First
<1>13. PagesLeft(u) = PagesLeft(got) /\ u.twice = s.twice /\ u.nactive = got.nactive
  BY <1>7, <1>9 DEF PagesLeft, SameTable
<1>14. QED
  BY <1>2, <1>7, <1>9, <1>10, <1>11, <1>12, <1>13 DEF StateKnown

\* What is checked may go on, in a region with room for a pair if one is wanted.
Checked(s, u, npages) ==
  /\ u \in Worlds /\ Placed(u) /\ Regions(u) /\ Remembered(u) /\ u.twice = s.twice
  /\ s.nactive <= u.nactive /\ u.nactive <= s.nactive + 4
  /\ ~u.stuck /\ npages = 0 => MayTake(u)

LEMMA SwitchChecked ==
  ASSUME NEW s \in Worlds, Placed(s), Regions(s), Remembered(s), s.STORAGEFULLSTATE # "NIL", s.stuck = FALSE,
         NEW left \in Int, left <= PagesLeft(s) + 2, NEW npages \in Nat, NEW u, u = StorageSwitch(s, left, npages)
  PROVE  u \in Worlds /\ Placed(u) /\ Regions(u) /\ Remembered(u) /\ SameTable(s, u) /\ (~u.stuck /\ npages = 0 => MayTake(u))
<1>1. Switched(s, u) /\ (~u.stuck /\ npages = 0 => MayTake(u))
  <2>0. ~s.stuck
    OBVIOUS
  <2>1. CASE s.STORAGEFULLSTATE \in {"NOTSWITCHABLE", "FULLYSWITCHED"}
    BY <2>0, <2>1, FullSwitched
  <2>2. CASE s.STORAGEFULLSTATE = "SWITCHABLE"
    BY <2>0, <2>2, FirstSwitched
  <2>3. CASE s.STORAGEFULLSTATE = "ARRAYSWITCHED"
    BY <2>0, <2>3, ArraySwitched
  <2>4. QED
    BY <2>1, <2>2, <2>3, WorldTyped DEF States
<1>2. Placed(u)
  BY <1>1, PlacedSame DEF Switched
<1>3. Remembered(u)
  BY <1>1 DEF Switched, Remembered, Second
<1>4. QED
  BY <1>1, <1>2, <1>3 DEF Switched

LEMMA StorageChecked ==
  ASSUME NEW s \in Worlds, Placed(s), Regions(s), Remembered(s), s.stuck = FALSE, s.nactive + 8 <= MaxActive,
         NEW npages \in Nat, NEW nocell \in BOOLEAN, nocell => s.STORAGEFULLSTATE = "NIL" /\ PagesLeft(s) > 0,
         NEW u, u = checkfor_storagefull(s, npages, nocell)
  PROVE  Checked(s, u, npages)
<1> DEFINE left == PagesLeft(s)
           set == IF s.STORAGEFULLSTATE = "NIL" THEN set_storage_state(s, nocell) ELSE s
<1>1. /\ s.nextArray \in Int /\ s.nextMDS \in Int /\ s.leastMDS \in Int /\ s.secondMDS \in Int
      /\ left = s.nextMDS - s.nextArray - 2 /\ left \in Int /\ s.nactive \in Nat
  BY WorldTyped DEF PagesLeft, PAGESPER_MDSUNIT
<1>2. u = IF left >= GUARDSTORAGEFULL /\ npages = 0 THEN s
          ELSE IF set.stuck THEN set ELSE StorageSwitch(set, left, npages)
  BY DEF checkfor_storagefull
<1>3. CASE left >= GUARDSTORAGEFULL /\ npages = 0
  <2>1. u = s
    BY <1>2, <1>3
  <2>2. s.STORAGEFULLSTATE # "ARRAYSWITCHED"
    BY <1>1, <1>3, Geometry DEF Regions
  <2>3. MayTake(s)
    BY <1>1, <1>3, <2>2, Geometry DEF MayTake, Lowest
  <2>4. QED
    BY <1>1, <2>1, <2>3 DEF Checked
<1>4. CASE ~(left >= GUARDSTORAGEFULL /\ npages = 0)
  <2>1. /\ set \in Worlds /\ Placed(set) /\ Regions(set) /\ Remembered(set) /\ set.twice = s.twice
        /\ s.nactive <= set.nactive /\ set.nactive <= s.nactive + 4
        /\ set.STORAGEFULLSTATE # "NIL" /\ set.stuck = FALSE /\ left <= PagesLeft(set) + 2
    <3>1. CASE s.STORAGEFULLSTATE = "NIL"
      <4>1. set = set_storage_state(s, nocell)
        BY <3>1
      <4> HIDE DEF set, left
      <4>2. StateKnown(s, set)
        BY <3>1, <4>1, StateFirstSet
      <4>3. QED
        BY <4>2 DEF StateKnown, left
    <3>2. CASE s.STORAGEFULLSTATE # "NIL"
      <4>1. set = s
        BY <3>2
      <4> HIDE DEF set
      <4>2. QED
        BY <1>1, <3>2, <4>1
    <3>3. QED
      BY <3>1, <3>2
  <2>2. u = StorageSwitch(set, left, npages)
    BY <1>2, <1>4, <2>1
  <2> HIDE DEF set, left
  <2>3. u \in Worlds /\ Placed(u) /\ Regions(u) /\ Remembered(u) /\ SameTable(set, u) /\ (~u.stuck /\ npages = 0 => MayTake(u))
    BY <1>1, <2>1, <2>2, SwitchChecked
  <2>4. QED
    BY <2>1, <2>3 DEF Checked, SameTable
<1>5. QED
  BY <1>3, <1>4

(***************************************************************************)
(* The operations on the world.                                            *)
(***************************************************************************)
LEMMA TookOK ==
  ASSUME NEW s, NEW c, NEW u, NEW npages, NEW n \in Nat, WorldOK(s), Checked(s, c, npages), Took(c, u, n)
  PROVE  WorldOK(u)
<1>1. u \in Worlds /\ Placed(u) /\ Regions(u) /\ u.twice = c.twice /\ SameState(c, u)
  BY DEF Took
<1>2. c.twice = s.twice /\ Remembered(c) /\ ~s.twice
  BY DEF Checked, WorldOK
<1>3. Remembered(u)
  BY <1>1, <1>2 DEF SameState, Remembered
<1>4. QED
  BY <1>1, <1>2, <1>3 DEF WorldOK

LEMMA CheckedOK ==
  ASSUME NEW s, NEW c, NEW npages, WorldOK(s), Checked(s, c, npages)
  PROVE  WorldOK(c)
BY DEF WorldOK, Checked

LEMMA AllocOK ==
  ASSUME NEW s, WorldOK(s), ~s.stuck, s.nactive + 8 <= MaxActive, NEW nocell \in BOOLEAN,
         nocell => s.STORAGEFULLSTATE = "NIL" /\ PagesLeft(s) > 0,
         NEW c, c = checkfor_storagefull(s, 0, nocell), NEW u, u = IF c.stuck THEN c ELSE TakeMDS(c)
  PROVE  WorldOK(u)
<1>1. s \in Worlds /\ Placed(s) /\ Regions(s) /\ Remembered(s) /\ s.stuck = FALSE /\ s.nactive \in Nat
  BY WorldTyped DEF WorldOK
<1> DEFINE npages == 0
<1>2. npages \in Nat /\ npages = 0 /\ c = checkfor_storagefull(s, npages, nocell)
  OBVIOUS
<1> HIDE DEF npages
<1>3. Checked(s, c, npages)
  BY <1>1, <1>2, StorageChecked
<1>4. CASE c.stuck
  BY <1>3, <1>4, CheckedOK
<1>5. CASE ~c.stuck
  <2>1. c \in Worlds /\ Placed(c) /\ Regions(c) /\ MayTake(c) /\ c.nactive <= s.nactive + 4
    BY <1>2, <1>3, <1>5 DEF Checked
  <2>2. c.nactive + 4 <= MaxActive /\ u = TakeMDS(c)
    BY <1>1, <1>5, <2>1, WorldTyped, Geometry
  <2> DEFINE n == 4
  <2>3. Took(c, u, n) /\ n \in Nat
    BY <2>1, <2>2, MDSTaken
  <2> HIDE DEF n
  <2>4. QED
    BY <1>3, <2>3, TookOK
<1>6. QED
  BY <1>4, <1>5

LEMMA GrowOK ==
  ASSUME NEW s, WorldOK(s), ~s.stuck, s.nactive + 8 <= MaxActive, NEW npages \in Nat, NEW nocell \in BOOLEAN,
         nocell => s.STORAGEFULLSTATE = "NIL" /\ PagesLeft(s) > 0, NEW u, u = checkfor_storagefull(s, npages, nocell)
  PROVE  WorldOK(u)
<1>1. s \in Worlds /\ Placed(s) /\ Regions(s) /\ Remembered(s) /\ s.stuck = FALSE
  BY WorldTyped DEF WorldOK
<1>2. Checked(s, u, npages)
  BY <1>1, StorageChecked
<1>3. QED
  BY <1>2, CheckedOK

\* One page of a request is made; the others fit still.
LEMMA ArrayOK ==
  ASSUME NEW s, WorldOK(s), ~s.stuck, s.nactive + 8 <= MaxActive, NEW n \in Nat, n > 0, ArrayPagesFit(s, n),
         NEW u, u = newpage([s EXCEPT !.nextArray = @ + 1], s.nextArray)
  PROVE  WorldOK(u) /\ ArrayPagesFit(u, n - 1) /\ u.stuck = s.stuck
<1>1. /\ s \in Worlds /\ Placed(s) /\ Regions(s) /\ Remembered(s) /\ s.nactive \in Nat /\ ~s.twice
      /\ s.nextArray \in Int /\ s.nextMDS \in Int /\ s.secondMDS \in Int
  BY WorldTyped DEF WorldOK
<1>2. s.nactive + 2 <= MaxActive
  BY <1>1, Geometry
<1>3. ArrayPagesFit(s, 1)
  BY <1>1 DEF ArrayPagesFit, PAGESPER_MDSUNIT
<1> DEFINE k == 2
<1>4. Took(s, u, k) /\ u.nextArray = s.nextArray + 1 /\ u.nextMDS = s.nextMDS
  BY <1>1, <1>2, <1>3, ArrayTaken
<1> HIDE DEF k
<1>5. u \in Worlds /\ Placed(u) /\ Regions(u) /\ ~u.twice /\ SameState(s, u)
  BY <1>1, <1>4 DEF Took
<1>6. u.nextArray = s.nextArray + 1 /\ u.nextMDS = s.nextMDS /\ u.stuck = s.stuck
  BY <1>4, <1>5 DEF SameState
<1>7. ArrayPagesFit(u, n - 1)
  BY <1>1, <1>5, <1>6 DEF ArrayPagesFit, SameState, PAGESPER_MDSUNIT
<1>8. QED
  BY <1>1, <1>5, <1>6, <1>7 DEF WorldOK, SameState, Remembered

LEMMA SystemOK ==
  ASSUME NEW s, WorldOK(s), s.nactive + 8 <= MaxActive, NEW vp \in SystemPages, vp \notin s.made,
         NEW u, u = newpage(s, vp)
  PROVE  WorldOK(u)
<1>1. s \in Worlds /\ Placed(s) /\ Regions(s) /\ Remembered(s) /\ s.nactive \in Nat /\ ~s.twice
  BY WorldTyped DEF WorldOK
<1>2. s.nactive + 2 <= MaxActive
  BY <1>1, Geometry
<1>3. Took(s, u, 2)
  BY <1>1, <1>2, SystemTaken
<1>4. u \in Worlds /\ Placed(u) /\ Regions(u) /\ ~u.twice /\ SameState(s, u)
  BY <1>1, <1>3 DEF Took
<1>5. QED
  BY <1>1, <1>4 DEF WorldOK, SameState, Remembered

(***************************************************************************)
(* Saving and loading.                                                     *)
(***************************************************************************)
StatesSet(s, t, v) == [s EXCEPT !.STORAGEFULLSTATE = t, !.storagefullstate = v]
Readied(s, u) ==
  /\ WorldOK(u) /\ u.storagefullstate = u.STORAGEFULLSTATE /\ SameTable(s, u)

LEMMA StatesAre ==
  ASSUME NEW s \in Worlds, NEW t \in States, NEW v \in States, NEW u, u = StatesSet(s, t, v)
  PROVE  /\ u \in Worlds /\ SameTable(s, u) /\ u.size = s.size /\ u.cachevar = s.cachevar
         /\ u.STORAGEFULLSTATE = t /\ u.storagefullstate = v /\ u.leastMDS = s.leastMDS /\ u.secondMDS = s.secondMDS
         /\ u.nextArray = s.nextArray /\ u.nextMDS = s.nextMDS /\ u.stuck = s.stuck
BY DEF Worlds, SameTable, StatesSet

LEMMA ReadiedOK ==
  ASSUME NEW s, WorldOK(s), NEW u, u = ReadyToSave(s)
  PROVE  Readied(s, u)
<1>1. s \in Worlds /\ Placed(s) /\ Regions(s) /\ Remembered(s) /\ ~s.twice /\ s.STORAGEFULLSTATE \in States
  BY WorldTyped DEF WorldOK
<1>2. PICK t \in States : /\ u = StatesSet(s, t, t)
                          /\ t = s.STORAGEFULLSTATE \/ (s.STORAGEFULLSTATE = "NOTSWITCHABLE" /\ t = "NIL")
  <2>1. CASE s.STORAGEFULLSTATE = "NOTSWITCHABLE"
    <3>1. u = StatesSet(s, "NIL", "NIL")
      BY <2>1 DEF ReadyToSave, StatesSet
    <3>2. QED
      BY <2>1, <3>1 DEF States
  <2>2. CASE s.STORAGEFULLSTATE # "NOTSWITCHABLE"
    <3> DEFINE t == s.STORAGEFULLSTATE
    <3>1. u = StatesSet(s, t, t)
      BY <1>1, <2>2 DEF ReadyToSave, StatesSet, Worlds
    <3>2. QED
      BY <1>1, <3>1
  <2>3. QED
    BY <2>1, <2>2
<1>3. /\ u \in Worlds /\ SameTable(s, u) /\ u.size = s.size /\ u.cachevar = s.cachevar
      /\ u.STORAGEFULLSTATE = t /\ u.storagefullstate = t /\ u.leastMDS = s.leastMDS /\ u.secondMDS = s.secondMDS
      /\ u.nextArray = s.nextArray /\ u.nextMDS = s.nextMDS
  BY <1>1, <1>2, StatesAre
<1>4. Placed(u)
  BY <1>1, <1>3, PlacedSame
<1>5. Regions(u)
  BY <1>1, <1>2, <1>3 DEF Regions, Unmade, SameTable
<1>6. Remembered(u) /\ ~u.twice
  BY <1>1, <1>2, <1>3 DEF Remembered, SameTable
<1>7. QED
  BY <1>3, <1>4, <1>5, <1>6 DEF Readied, WorldOK

Sized(s, z) ==
  [s EXCEPT !.size = z, !.lastvmempage = LastPage[z], !.STORAGEFULL = "NIL",
            !.secondMDS = LastPage[z] - PAGESPER_MDSUNIT - 1,
            !.STORAGEFULLSTATE = IF s.cachevar THEN "NIL" ELSE @, !.cachevar = FALSE]

SizedTo(s, z, l, m, t, n) ==
  [s EXCEPT !.size = z, !.lastvmempage = l, !.STORAGEFULL = n, !.secondMDS = m, !.STORAGEFULLSTATE = t, !.cachevar = FALSE]
LEMMA FieldsSized ==
  ASSUME NEW s \in Worlds, NEW z \in Sizes, NEW l \in Nat, NEW m \in Int, NEW t \in States,
         NEW n \in {"NIL", "0", "T"}, NEW u, u = SizedTo(s, z, l, m, t, n)
  PROVE  /\ u \in Worlds /\ SameTable(s, u) /\ u.size = z /\ ~u.cachevar /\ u.secondMDS = m /\ u.STORAGEFULLSTATE = t
         /\ u.leastMDS = s.leastMDS /\ u.nextArray = s.nextArray /\ u.nextMDS = s.nextMDS
BY DEF Worlds, SameTable, SizedTo

LEMMA SizeSet ==
  ASSUME NEW s \in Worlds, NEW z \in Sizes, NEW u, u = LispStarts(init_storage(init_ifpage(s, z)))
  PROVE  /\ u \in Worlds /\ SameTable(s, u) /\ u.size = z /\ ~u.cachevar
         /\ u.secondMDS = LastPage[z] - PAGESPER_MDSUNIT - 1
         /\ u.STORAGEFULLSTATE = IF s.cachevar THEN "NIL" ELSE s.STORAGEFULLSTATE
         /\ u.leastMDS = s.leastMDS /\ u.nextArray = s.nextArray /\ u.nextMDS = s.nextMDS
<1>1. z \in {"small", "large"} /\ LastPage[z] \in Nat /\ LastPage[z] - PAGESPER_MDSUNIT - 1 \in Int
  BY MemoryAssumption, Geometry
<1>2. u = Sized(s, z)
  BY DEF Worlds, Sized, LispStarts, init_storage, init_ifpage
<1> DEFINE l == LastPage[z]
           m == LastPage[z] - PAGESPER_MDSUNIT - 1
           t == IF s.cachevar THEN "NIL" ELSE s.STORAGEFULLSTATE
<1>3. l \in Nat /\ m \in Int /\ t \in States /\ t = (IF s.cachevar THEN "NIL" ELSE s.STORAGEFULLSTATE)
  BY <1>1, WorldTyped DEF States
<1> DEFINE n == "NIL"
<1>4. u = SizedTo(s, z, l, m, t, n) /\ n \in {"NIL", "0", "T"}
  BY <1>2 DEF Sized, SizedTo
<1>5. m = LastPage[z] - PAGESPER_MDSUNIT - 1
  OBVIOUS
<1> HIDE DEF l, m, t, n
<1>6. /\ u \in Worlds /\ SameTable(s, u) /\ u.size = z /\ ~u.cachevar /\ u.secondMDS = m /\ u.STORAGEFULLSTATE = t
      /\ u.leastMDS = s.leastMDS /\ u.nextArray = s.nextArray /\ u.nextMDS = s.nextMDS
  BY <1>3, <1>4, FieldsSized
<1>7. QED
  BY <1>3, <1>5, <1>6

\* An image that is loaded goes on where it was saved: the regions were
\* switched in this process size, or they were not switched at all.
LEMMA LoadedOK ==
  ASSUME NEW s, WorldOK(s), s.storagefullstate = s.STORAGEFULLSTATE, NEW z \in Sizes, MayHaveSize(s, z),
         NEW u, u = LispStarts(init_storage(init_ifpage(s, z)))
  PROVE  WorldOK(u)
<1>1. s \in Worlds /\ Placed(s) /\ Regions(s) /\ Remembered(s) /\ ~s.twice /\ s.STORAGEFULLSTATE \in States
  BY WorldTyped DEF WorldOK
<1>2. /\ u \in Worlds /\ SameTable(s, u) /\ u.size = z /\ ~u.cachevar
      /\ u.secondMDS = LastPage[z] - PAGESPER_MDSUNIT - 1
      /\ u.STORAGEFULLSTATE = IF s.cachevar THEN "NIL" ELSE s.STORAGEFULLSTATE
      /\ u.leastMDS = s.leastMDS /\ u.nextArray = s.nextArray /\ u.nextMDS = s.nextMDS
  BY <1>1, SizeSet
<1>3. Placed(u) /\ ~u.twice /\ \A a, b : Unmade(s, a, b) <=> Unmade(u, a, b)
  BY <1>1, <1>2, PlacedSame DEF SameTable, Unmade
<1>4. CASE s.STORAGEFULLSTATE \in {"NIL", "NOTSWITCHABLE", "SWITCHABLE"}
  <2>1. u.STORAGEFULLSTATE \in {"NIL", "NOTSWITCHABLE"}
    BY <1>1, <1>2, <1>4 DEF Remembered
  <2>2. FirstArray <= s.nextArray /\ s.nextMDS <= FirstMDS
        /\ Unmade(s, s.nextArray, s.nextMDS + 1) /\ Unmade(s, SecondArrayPage, LastPage["large"])
    BY <1>1, <1>4 DEF Regions
  <2>3. Regions(u)
    BY <1>2, <1>3, <2>1, <2>2 DEF Regions
  <2>4. QED
    BY <1>2, <1>3, <2>1, <2>3 DEF WorldOK, Remembered
<1>5. CASE s.STORAGEFULLSTATE \in {"ARRAYSWITCHED", "FULLYSWITCHED"}
  <2>1. z = s.size /\ ~s.cachevar
    BY <1>1, <1>5 DEF MayHaveSize, Remembered
  <2>2. u.STORAGEFULLSTATE = s.STORAGEFULLSTATE /\ u.secondMDS = s.secondMDS /\ u.size = s.size
    BY <1>1, <1>2, <2>1 DEF Regions
  <2>3. Regions(u)
    BY <1>1, <1>2, <1>3, <1>5, <2>2 DEF Regions
  <2>4. QED
    BY <1>2, <1>3, <1>5, <2>2, <2>3 DEF WorldOK, Remembered
<1>6. QED
  BY <1>1, <1>4, <1>5 DEF States

(***************************************************************************)
(* What a save writes.                                                     *)
(***************************************************************************)
LEMMA LeastMember ==
  ASSUME NEW S \in SUBSET Nat, S # {}
  PROVE  \E n \in S : \A m \in S : n <= m
<1>1. IsWellFoundedOn(OpToRel(<, Nat), Nat)
  BY NatLessThanWellFounded
<1>2. PICK n \in S : \A y \in S : ~(<<y, n>> \in OpToRel(<, Nat))
  BY <1>1, WFMin
<1>3. ASSUME NEW m \in S PROVE n <= m
  <2>1. ~(m < n)
    BY <1>2 DEF OpToRel
  <2>2. QED
    BY <2>1
<1>4. QED
  BY <1>3

\* A run ends at the first page that is not followed by its neighbour.
LEMMA RunEnds ==
  ASSUME w.nactive \in Nat, NEW i \in 1 .. w.nactive, w.fptovp \in Seq(Nat \cup {Hole}), Len(w.fptovp) = w.nactive
  PROVE  RunEnd(i) \in i .. w.nactive
<1> DEFINE n == w.nactive
           f == w.fptovp
           Apart(e) == e = n \/ f[e + 1] # f[i] + (e + 1 - i)
           S == {e \in i .. n : Apart(e)}
<1>1. n \in Nat /\ i \in Nat /\ 1 <= i /\ i <= n /\ f[i] \in Int
  BY DEF Hole
<1>2. S \in SUBSET Nat /\ n \in S
  BY <1>1
<1>3. PICK e \in S : \A m \in S : e <= m
  BY <1>2, LeastMember
<1>4. e \in i .. n /\ Apart(e)
  BY <1>3
<1>5. ASSUME NEW k \in i .. e PROVE f[k] = f[i] + (k - i)
  <2>1. CASE k = i
    BY <1>1, <2>1
  <2>2. CASE k # i
    <3>1. k - 1 \in i .. n /\ k - 1 < e /\ (k - 1) + 1 = k
      BY <1>1, <1>4, <2>2
    <3>2. ~Apart(k - 1)
      BY <1>1, <1>3, <1>4, <3>1
    <3>3. QED
      BY <3>1, <3>2
  <2>3. QED
    BY <2>1, <2>2
<1>6. \E d \in i .. w.nactive :
        /\ \A k \in i .. d : w.fptovp[k] = w.fptovp[i] + (k - i)
        /\ d = w.nactive \/ w.fptovp[d + 1] # w.fptovp[i] + (d + 1 - i)
  BY <1>4, <1>5
<1>7. QED
  BY <1>6 DEF RunEnd

\* A file g after pages from i on were written to f, up to p in their places and
\* then up to q.
Longer(f, g, i, p, q) ==
  /\ g = [pages |-> g.pages, there |-> f.there, world |-> f.world, lost |-> f.lost] /\ f.there \in BOOLEAN
  /\ g.pages \in Seq(Nat \cup {Hole})
  /\ Len(g.pages) = IF q < i THEN Len(f.pages) ELSE IF Len(f.pages) > q THEN Len(f.pages) ELSE q
  /\ \A k \in 1 .. Len(g.pages) :
       /\ k \in i .. p => g.pages[k] = IF w.fptovp[k] \in swapped THEN Hole ELSE w.fptovp[k]
       /\ k \notin i .. q => g.pages[k] = IF k <= Len(f.pages) THEN f.pages[k] ELSE Hole

LEMMA PagesWritten ==
  ASSUME WorldOK(w), NEW f, FileShape(f), f.pages \in Seq(Nat \cup {Hole}), NEW i \in 1 .. w.nactive,
         NEW p \in Int, NEW q \in Int, i - 1 <= p, p <= q, q <= w.nactive, NEW g, g = Written(f, i, p, q)
  PROVE  Longer(f, g, i, p, q)
<1> DEFINE l == Len(f.pages)
           last == IF l > q THEN l ELSE q
           P(k) == IF k \in i .. p /\ w.fptovp[k] \notin swapped THEN w.fptovp[k]
                   ELSE IF k \in 1 .. l \ (i .. q) THEN f.pages[k] ELSE Hole
           r == [k \in 1 .. last |-> P(k)]
<1>1. /\ w.nactive \in Nat /\ w.fptovp \in Seq(Nat \cup {Hole}) /\ Len(w.fptovp) = w.nactive
      /\ l \in Nat /\ i \in Nat /\ 1 <= i /\ i <= w.nactive
  BY DEF WorldOK, Placed, Places
<1>2. f = [pages |-> f.pages, there |-> f.there, world |-> f.world, lost |-> f.lost] /\ f.there \in BOOLEAN
  BY DEF FileShape
<1>3. CASE q < i
  <2>1. g = f
    BY <1>3 DEF Written
  <2>2. QED
    BY <1>1, <1>2, <1>3, <2>1 DEF Longer
<1>4. CASE ~(q < i)
  <2>1. last \in Nat /\ last >= l /\ last >= q /\ i <= q
    BY <1>1, <1>4
  <2>2. g = [f EXCEPT !.pages = r]
    BY <1>4 DEF Written
  <2>3. ASSUME NEW k \in 1 .. last PROVE P(k) \in Nat \cup {Hole}
    <3>1. k \in i .. p => k \in 1 .. w.nactive
      BY <1>1, <2>1
    <3>2. k \in i .. p => w.fptovp[k] \in Nat \cup {Hole}
      BY <1>1, <3>1
    <3>3. k \in 1 .. l => f.pages[k] \in Nat \cup {Hole}
      BY <1>1
    <3>4. QED
      BY <3>2, <3>3
  <2>4. ASSUME NEW k \in 1 .. last
        PROVE  /\ k \in i .. p => P(k) = IF w.fptovp[k] \in swapped THEN Hole ELSE w.fptovp[k]
               /\ k \notin i .. q => P(k) = IF k <= l THEN f.pages[k] ELSE Hole
    BY <1>1, <2>1
  <2> HIDE DEF P, last
  <2>5. r \in Seq(Nat \cup {Hole}) /\ Len(r) = last /\ \A k \in 1 .. last : r[k] = P(k)
    <3>1. r \in [1 .. last -> Nat \cup {Hole}]
      BY <2>3
    <3>2. QED
      BY <2>1, <3>1
  <2> HIDE DEF r
  <2>6. g = [pages |-> r, there |-> f.there, world |-> f.world, lost |-> f.lost] /\ g.pages = r
    BY <1>2, <2>2
  <2>7. QED
    BY <1>2, <1>4, <2>4, <2>5, <2>6 DEF Longer, last
<1>5. QED
  BY <1>3, <1>4

LEMMA DiskSet ==
  ASSUME NEW d, NEW g, d = [img |-> d.img, tmp |-> d.tmp], NEW e, e = [d EXCEPT !.tmp = g]
  PROVE  e = [img |-> e.img, tmp |-> e.tmp] /\ e.img = d.img /\ e.tmp = g
<1>1. e = [img |-> d.img, tmp |-> g]
  OBVIOUS
<1>2. QED
  BY <1>1

LEMMA NoFileOK == FileOK(NoFile) /\ FileShape(NoFile) /\ NoFile.there = FALSE
BY DEF FileOK, FileShape, NoFile

LEMMA InitialOK == WorldOK(InitialWorld) /\ InitialWorld.storagefullstate = InitialWorld.STORAGEFULLSTATE
                   /\ InitialWorld.fptovp = InitialFile /\ InitialWorld.nactive = Len(InitialFile)
<1> DEFINE s == InitialWorld
           n == Len(InitialFile)
           m == {InitialFile[k] : k \in DOMAIN InitialFile} \ {Hole}
           start == TableStart(InitialFile)
<1>1. /\ InitialFile \in Seq(Nat \cup {Hole}) /\ n \in 1 .. MaxActive /\ start \in Nat /\ IFPAGE_AT < start
      /\ \A j, k \in 1 .. n : InitialFile[j] = InitialFile[k] => j = k \/ InitialFile[j] = Hole
      /\ start + Table(n) < n /\ InitialFile[IFPAGE_AT] = IFPAGE_PAGE /\ InitialFile[n] # Hole
      /\ \A page \in 0 .. Table(n) : InitialFile[start + page] = FPTOVP_PAGE + page
      /\ \A k \in 1 .. n : /\ InitialFile[k] \notin RegionPages
                           /\ InitialFile[k] \in TablePages => InitialFile[k] <= FPTOVP_PAGE + Table(n)
  BY InitialAssumption DEF Table
<1>2. DOMAIN InitialFile = 1 .. n /\ n \in Nat /\ m \in SUBSET Nat /\ m \cap RegionPages = {}
  BY <1>1, Geometry
<1>3. /\ s.nactive = n /\ s.fptovp = InitialFile /\ s.fptovpstart = start /\ s.made = m /\ s.twice = FALSE
      /\ s.size = "small" /\ s.storagefullstate = "NIL" /\ s.STORAGEFULLSTATE = "NIL"
      /\ s.cachevar = FALSE /\ s.nextArray = FirstArray /\ s.nextMDS = FirstMDS
      /\ s.secondMDS = LastPage["small"] - PAGESPER_MDSUNIT - 1
  BY DEF InitialWorld
<1>4. s \in Worlds
  <2>1. LastPage["small"] - PAGESPER_MDSUNIT - 1 \in Int /\ "small" \in Sizes /\ "NIL" \in States
        /\ LastPage["small"] \in Nat /\ FirstArray \in Int /\ FirstMDS \in Int
    BY Geometry DEF States
  <2> DEFINE c == LastPage["small"] - PAGESPER_MDSUNIT - 1
             l == LastPage["small"]
  <2>2. s = [nactive |-> n, fptovp |-> InitialFile, fptovpstart |-> start, made |-> m, twice |-> FALSE,
             size |-> "small", storagefullstate |-> "NIL", lastvmempage |-> l,
             STORAGEFULLSTATE |-> "NIL", cachevar |-> FALSE, STORAGEFULL |-> "NIL", VMEM_FULL |-> "NIL",
             nextArray |-> FirstArray, nextMDS |-> FirstMDS, leastMDS |-> FirstArray, secondMDS |-> c,
             pending |-> FALSE, stuck |-> FALSE]
    BY DEF InitialWorld
  <2>3. l \in Nat /\ c \in Int
    BY <2>1
  <2> HIDE DEF c, l, n, m, start, s
  <2>4. QED
    BY <1>1, <1>2, <2>1, <2>2, <2>3 DEF Worlds
<1> HIDE DEF s, m, n, start
<1>5. Places(InitialFile, m)
  <2>1. ASSUME NEW x \in m PROVE \E k \in 1 .. n : InitialFile[k] = x
    BY <1>2 DEF m
  <2>2. ASSUME NEW k \in 1 .. n, InitialFile[k] # Hole PROVE InitialFile[k] \in m
    BY <1>2, <2>2 DEF m
  <2>3. QED
    BY <1>1, <1>2, <2>1, <2>2 DEF Places, n
<1>6. Together(InitialFile, start, Table(n), m)
  <2>1. ASSUME NEW x \in m, x \in TablePages PROVE x <= FPTOVP_PAGE + Table(n)
    <3>1. PICK k \in 1 .. n : InitialFile[k] = x
      BY <1>2 DEF m
    <3>2. QED
      BY <1>1, <2>1, <3>1
  <2>2. QED
    BY <1>1, <2>1 DEF Together, n
<1>7. Placed(s)
  BY <1>1, <1>3, <1>5, <1>6 DEF Placed, n
<1>8. Regions(s)
  <2>1. Unmade(s, FirstArray, FirstMDS + 1) /\ Unmade(s, SecondArrayPage, LastPage["large"])
    BY <1>2, <1>3, Geometry DEF Unmade, RegionPages
  <2>2. QED
    BY <1>3, <2>1, Geometry DEF Regions
<1>9. QED
  BY <1>3, <1>4, <1>7, <1>8 DEF WorldOK, Remembered, n, s

(***************************************************************************)
(* The invariant holds.                                                    *)
(***************************************************************************)
LEMMA InitIInv == Init => IInv
<1> SUFFICES ASSUME Init PROVE IInv
  OBVIOUS
<1>1. WorldOK(w) /\ Promised
  BY InitialOK DEF Init, Promised
<1>2. disk.img = [pages |-> InitialFile, there |-> TRUE, world |-> InitialWorld, lost |-> {}] /\ disk.tmp = NoFile
      /\ disk = [img |-> disk.img, tmp |-> disk.tmp]
  BY DEF Init
<1>3. FileOK(disk.img) /\ FileShape(disk.img)
  <2>1. InitialFile \in Seq(Nat \cup {Hole})
    BY InitialAssumption
  <2>2. QED
    BY <1>2, <2>1, InitialOK DEF FileOK, FileShape, Right
<1>4. DiskOK
  BY <1>2, <1>3, NoFileOK DEF DiskOK
<1>5. SaveOK
  BY DEF Init, Idle, SaveOK, Steps, Saving, Progress
<1>6. QED
  BY <1>1, <1>4, <1>5 DEF IInv

\* A step of Lisp leaves the files alone.
LEMMA WorldStep ==
  ASSUME IInv, save.at = "idle", OnlyFiles, WorldOK(w'), Promised'
  PROVE  IInv'
<1>1. DiskOK'
  BY DEF IInv, OnlyFiles, DiskOK
<1>2. SaveOK'
  BY DEF IInv, OnlyFiles, SaveOK, Saving, Progress
<1>3. QED
  BY <1>1, <1>2 DEF IInv

LEMMA AllocStep ==
  ASSUME IInv, "nocell" \notin Faults, NEW nocell \in BOOLEAN, alloc_mdspage(nocell)
  PROVE  IInv'
<1>1. WorldOK(w) /\ w.nactive + 8 <= MaxActive /\ ~w.stuck /\ save.at = "idle" /\ OnlyFiles
      /\ (nocell => w.STORAGEFULLSTATE = "NIL" /\ PagesLeft(w) > 0) /\ Promised'
  BY DEF alloc_mdspage, IInv, Running, Room, NoCell, Promised
<1> DEFINE c == checkfor_storagefull(w, 0, nocell)
<1>2. w' = IF c.stuck THEN c ELSE TakeMDS(c)
  BY DEF alloc_mdspage
<1>3. c = checkfor_storagefull(w, 0, nocell)
  OBVIOUS
<1> HIDE DEF c
<1>4. WorldOK(w')
  BY <1>1, <1>2, <1>3, AllocOK
<1>5. QED
  BY <1>1, <1>4, WorldStep

LEMMA GrowStep ==
  ASSUME IInv, "nocell" \notin Faults, NEW npages \in ArrayRequests, NEW nocell \in BOOLEAN, GrowArray(npages, nocell)
  PROVE  IInv'
<1>1. /\ WorldOK(w) /\ w.nactive + 8 <= MaxActive /\ ~w.stuck /\ save.at = "idle" /\ OnlyFiles /\ up
      /\ (nocell => w.STORAGEFULLSTATE = "NIL" /\ PagesLeft(w) > 0) /\ npages \in Nat
      /\ w' = checkfor_storagefull(w, npages, nocell)
      /\ owed' = IF ~w'.stuck /\ ArrayPagesFit(w', npages) THEN npages ELSE 0
  BY MemoryAssumption DEF GrowArray, IInv, Running, Room, NoCell
<1>2. WorldOK(w')
  BY <1>1, GrowOK
<1>3. Promised'
  BY <1>1 DEF Promised, OnlyFiles
<1>4. QED
  BY <1>1, <1>2, <1>3, WorldStep

LEMMA ArrayStep ==
  ASSUME IInv, NewArrayPage
  PROVE  IInv'
<1>1. /\ WorldOK(w) /\ w.nactive + 8 <= MaxActive /\ ~w.stuck /\ save.at = "idle" /\ OnlyFiles /\ up
      /\ owed \in Nat /\ owed > 0 /\ ArrayPagesFit(w, owed) /\ owed' = owed - 1
      /\ w' = newpage([w EXCEPT !.nextArray = @ + 1], w.nextArray)
  BY DEF NewArrayPage, IInv, Running, Room, Promised
<1>2. WorldOK(w') /\ ArrayPagesFit(w', owed - 1) /\ w'.stuck = w.stuck
  BY <1>1, ArrayOK
<1>3. Promised'
  BY <1>1, <1>2 DEF Promised, OnlyFiles
<1>4. QED
  BY <1>1, <1>2, <1>3, WorldStep

LEMMA SystemStep ==
  ASSUME IInv, NewSystemPage
  PROVE  IInv'
<1>1. WorldOK(w) /\ w.nactive + 8 <= MaxActive /\ save.at = "idle" /\ OnlyFiles /\ Promised'
  BY DEF NewSystemPage, IInv, Running, Room, Promised
<1>2. PICK vp \in SystemPages : vp \notin w.made /\ w' = newpage(w, vp)
  BY DEF NewSystemPage
<1>3. WorldOK(w')
  BY <1>1, <1>2, SystemOK
<1>4. QED
  BY <1>1, <1>3, WorldStep

\* A save that ends with nothing else changed than the temporary file.
LEMMA SaveEnds ==
  ASSUME IInv, UNCHANGED <<w, owed, up>>, save.at # "idle" \/ owed = 0, DiskOK', save' = Idle
  PROVE  IInv'
<1>1. WorldOK(w') /\ Promised'
  BY DEF IInv, Promised, SaveOK
<1>2. SaveOK'
  BY DEF Idle, SaveOK, Steps, Saving, Progress
<1>3. QED
  BY <1>1, <1>2 DEF IInv

\* A save that goes on with nothing else changed.
LEMMA SaveGoes ==
  ASSUME IInv, UNCHANGED <<w, owed, up, disk, swapped>>, up, owed = 0, Sane, SaveOK'
  PROVE  IInv'
BY DEF IInv, Promised, DiskOK

LEMMA vmem_save0Step ==
  ASSUME IInv, vmem_save0
  PROVE  IInv'
<1>1. UNCHANGED <<w, owed, up, disk, swapped>> /\ up /\ owed = 0 /\ Sane /\ DiskOK'
  BY DEF vmem_save0, IInv, DiskOK
<1>2. CASE save' = [at |-> "open", i |-> 0]
  <2>1. SaveOK'
    BY <1>1, <1>2 DEF IInv, SaveOK, Steps, Saving, Progress, Sane
  <2>2. QED
    BY <1>1, <2>1, SaveGoes
<1>3. CASE save' = Idle
  BY <1>1, <1>3, SaveEnds
<1>4. QED
  BY <1>2, <1>3 DEF vmem_save0, Goto, Step, Return

LEMMA SaveOpenStep ==
  ASSUME IInv, SaveOpen
  PROVE  IInv'
<1>1. UNCHANGED <<w, owed, up, disk, swapped>> /\ up /\ owed = 0 /\ Sane /\ DiskOK' /\ save.at = "open"
  BY DEF SaveOpen, At, IInv, DiskOK, SaveOK
<1>2. CASE save' = [at |-> "truncate", i |-> 0]
  <2>1. SaveOK'
    BY <1>1, <1>2 DEF IInv, SaveOK, Steps, Saving, Progress, Sane
  <2>2. QED
    BY <1>1, <2>1, SaveGoes
<1>3. CASE save' = Idle
  BY <1>1, <1>3, SaveEnds
<1>4. QED
  BY <1>2, <1>3 DEF SaveOpen, Goto, Step, Fails, Return

LEMMA SaveTruncateStep ==
  ASSUME IInv, SaveTruncate
  PROVE  IInv'
<1>0. UNCHANGED <<owed, up, swapped>> /\ up /\ owed = 0 /\ Sane /\ save.at = "truncate"
  BY DEF SaveTruncate, At, IInv, SaveOK
<1>1. CASE w' = w /\ disk' = disk /\ save' = Idle
  <2>1. DiskOK'
    BY <1>1 DEF IInv, DiskOK
  <2>2. QED
    BY <1>0, <1>1, <2>1, SaveEnds
<1>2. CASE ~(w' = w /\ disk' = disk /\ save' = Idle)
  <2> DEFINE g == [pages |-> << >>, there |-> TRUE, world |-> w', lost |-> {}]
  <2>1. w' = ReadyToSave(w) /\ disk' = [disk EXCEPT !.tmp = g] /\ save' = [at |-> "pages", i |-> 1]
    BY <1>2 DEF SaveTruncate, Goto, Step, Fails, Return
  <2>2. Readied(w, w')
    BY <2>1, ReadiedOK DEF IInv
  <2>3. WorldOK(w') /\ w'.storagefullstate = w'.STORAGEFULLSTATE /\ w'.nactive \in 1 .. MaxActive
    BY <2>2 DEF Readied, WorldOK, Placed
  <2>4. g.there = TRUE /\ g.world = w' /\ g.pages = << >> /\ FileShape(g)
    BY DEF FileShape
  <2> HIDE DEF g
  <2>5. disk' = [img |-> disk'.img, tmp |-> disk'.tmp] /\ disk'.img = disk.img /\ disk'.tmp = g
    BY <2>1, DiskSet DEF IInv, DiskOK
  <2>6. FileOK(g)
    BY <2>3, <2>4 DEF FileOK, Right
  <2>7. DiskOK'
    BY <2>4, <2>5, <2>6 DEF IInv, DiskOK
  <2>8. SaveOK'
    <3>1. save' \in [at : Steps, i : Nat] /\ save'.at = "pages" /\ save'.i = 1
      BY <2>1 DEF Steps, Saving
    <3>2. Progress(save', w', disk'.tmp)
      BY <2>3, <2>4, <2>5, <3>1 DEF Progress, Right
    <3>3. Sane'
      BY <1>0 DEF Sane
    <3>4. QED
      BY <1>0, <2>4, <2>5, <3>1, <3>2, <3>3 DEF SaveOK
  <2>9. Promised'
    BY <1>0 DEF Promised
  <2>10. QED
    BY <2>3, <2>7, <2>8, <2>9 DEF IInv
<1>3. QED
  BY <1>1, <1>2

\* A save that has its temporary file, in the world as it is.
Underway ==
  /\ w \in Worlds /\ WorldOK(w) /\ w.storagefullstate = w.STORAGEFULLSTATE
  /\ disk.tmp.there /\ disk.tmp.world = w /\ disk.tmp.pages \in Seq(Nat \cup {Hole}) /\ FileShape(disk.tmp)
  /\ w.nactive \in Nat /\ Len(disk.tmp.pages) \in Nat
  /\ w.fptovp \in Seq(Nat \cup {Hole}) /\ Len(w.fptovp) = w.nactive
  /\ up /\ owed = 0 /\ Sane

LEMMA UnderwayHolds ==
  ASSUME IInv, save.at \in Saving
  PROVE  Underway
<1>1. disk.tmp.there /\ disk.tmp.world = w /\ up /\ owed = 0 /\ Sane
  BY DEF IInv, SaveOK, Saving
<1>2. FileOK(disk.tmp) /\ FileShape(disk.tmp) /\ WorldOK(w)
  BY DEF IInv, DiskOK
<1>3. w.fptovp \in Seq(Nat \cup {Hole}) /\ Len(w.fptovp) = w.nactive
  BY <1>2 DEF WorldOK, Placed, Places
<1>4. QED
  BY <1>1, <1>2, <1>3, WorldTyped DEF Underway, FileOK, WorldOK

\* The pages from i to q that went wrong, and those before them that are missing,
\* are known to be lost.
LossKnown(f, i, p, q, l) ==
  /\ f.lost \subseteq l
  /\ \A k \in i .. p : w.fptovp[k] \in swapped => w.fptovp[k] \in l
  /\ \A k \in p + 1 .. q : w.fptovp[k] \in l
  /\ \A k \in 1 .. i - 1 : w.fptovp[k] # Hole => k <= Len(f.pages) \/ w.fptovp[k] \in l
InFile(i, p, q) ==
  i \in 1 .. w.nactive /\ p \in Int /\ q \in Int /\ i - 1 <= p /\ p <= q /\ q <= w.nactive
Wrote(f, g, i, q, l) ==
  /\ FileShape(g) /\ FileOK(g) /\ g.there /\ g.world = w /\ Right(w, g) /\ g.lost = l
  /\ Len(g.pages) = IF q < i THEN Len(f.pages) ELSE IF Len(f.pages) > q THEN Len(f.pages) ELSE q

\* A file g with pages written to f.
LEMMA RightAfter ==
  ASSUME Underway, NEW f, f = disk.tmp, Right(w, f), NEW i, NEW p, NEW q, InFile(i, p, q),
         NEW h, h = Written(f, i, p, q), NEW l, NEW g, g = [h EXCEPT !.lost = l], LossKnown(f, i, p, q, l)
  PROVE  Wrote(f, g, i, q, l)
<1>0. i \in 1 .. w.nactive /\ p \in Int /\ q \in Int /\ i - 1 <= p /\ p <= q /\ q <= w.nactive
  BY DEF InFile
<1>1. /\ WorldOK(w) /\ w.storagefullstate = w.STORAGEFULLSTATE
      /\ f.there /\ f.world = w /\ f.pages \in Seq(Nat \cup {Hole}) /\ FileShape(f)
      /\ w.nactive \in Nat /\ Len(f.pages) \in Nat
      /\ w.fptovp \in Seq(Nat \cup {Hole}) /\ Len(w.fptovp) = w.nactive
  BY DEF Underway
<1>2. Longer(f, h, i, p, q)
  BY <1>0, <1>1, PagesWritten
<1>3. /\ h = [pages |-> h.pages, there |-> f.there, world |-> f.world, lost |-> f.lost] /\ f.there \in BOOLEAN
      /\ h.pages \in Seq(Nat \cup {Hole})
  BY <1>2 DEF Longer
<1>4. g = [pages |-> h.pages, there |-> f.there, world |-> f.world, lost |-> l]
  BY <1>3
<1>5. g.pages = h.pages /\ g.there = f.there /\ g.world = w /\ g.lost = l
  <2>1. g.pages = h.pages /\ g.there = f.there /\ g.world = f.world /\ g.lost = l
    BY <1>4
  <2>2. QED
    BY <1>1, <2>1
<1>6. FileShape(g)
  BY <1>3, <1>4, <1>5 DEF FileShape
<1>7. Len(h.pages) = IF q < i THEN Len(f.pages) ELSE IF Len(f.pages) > q THEN Len(f.pages) ELSE q
  BY <1>2 DEF Longer
<1>8. ASSUME NEW k \in 1 .. Len(h.pages), w.fptovp[k] # Hole
      PROVE  h.pages[k] = w.fptovp[k] \/ w.fptovp[k] \in l
  <2>1. /\ k \in i .. p => h.pages[k] = IF w.fptovp[k] \in swapped THEN Hole ELSE w.fptovp[k]
        /\ k \notin i .. q => h.pages[k] = IF k <= Len(f.pages) THEN f.pages[k] ELSE Hole
    BY <1>2 DEF Longer
  <2>2. CASE k \in i .. p
    BY <2>1, <2>2 DEF LossKnown
  <2>3. CASE k \in p + 1 .. q
    BY <2>3 DEF LossKnown
  <2>4. CASE k \notin i .. q
    <3>1. CASE k <= Len(f.pages)
      <4>1. f.pages[k] = w.fptovp[k] \/ w.fptovp[k] \in f.lost
        BY <1>1, <1>8, <3>1 DEF Right
      <4>2. QED
        BY <2>1, <2>4, <3>1, <4>1 DEF LossKnown
    <3>2. CASE ~(k <= Len(f.pages))
      <4>1. k \in 1 .. i - 1
        BY <1>0, <1>1, <1>7, <2>4, <3>2
      <4>2. QED
        BY <1>8, <3>2, <4>1 DEF LossKnown
    <3>3. QED
      BY <3>1, <3>2
  <2>5. QED
    BY <1>0, <1>1, <2>2, <2>3, <2>4
<1>9. Right(w, g)
  BY <1>5, <1>8 DEF Right
<1>10. FileOK(g)
  BY <1>1, <1>3, <1>5, <1>9 DEF FileOK
<1>11. QED
  BY <1>1, <1>5, <1>6, <1>7, <1>9, <1>10 DEF Wrote

\* What the writes of a run from i leave behind, up to q.
AfterPut(i, q, l) ==
  /\ DiskOK' /\ disk'.tmp.there /\ disk'.tmp.world = w
  /\ Right(w, disk'.tmp) /\ disk'.tmp.lost = l
  /\ Len(disk'.tmp.pages) = IF q < i THEN Len(disk.tmp.pages) ELSE q

LEMMA PutOK ==
  ASSUME IInv, save.at = "pages", NEW i, i = save.i, i <= w.nactive, NEW e \in i .. w.nactive,
         NEW p \in Int, NEW q \in Int, i - 1 <= p, p <= q, q <= e,
         NEW gone, \A k \in p + 1 .. q : w.fptovp[k] \in gone, Put(i, e, p, q, gone)
  PROVE  AfterPut(i, q, disk.tmp.lost \cup (gone \cup (Run(i, e) \cap swapped)))
<1> DEFINE f == disk.tmp
           l == f.lost \cup (gone \cup (Run(i, e) \cap swapped))
           h == Written(f, i, p, q)
           g == [h EXCEPT !.lost = l]
<1>1. Underway /\ w.nactive \in Nat
  BY UnderwayHolds DEF Saving, Underway
<1>2. /\ i \in Nat /\ 1 <= i /\ Len(f.pages) < i /\ Right(w, f)
      /\ \A k \in 1 .. i - 1 : w.fptovp[k] # Hole => k <= Len(f.pages) \/ w.fptovp[k] \in f.lost
  BY DEF IInv, SaveOK, Progress
<1>3. i \in 1 .. w.nactive /\ e \in Int /\ q <= w.nactive
  BY <1>1, <1>2
<1>4. disk' = [disk EXCEPT !.tmp = g]
  <2>1. disk.tmp = [pages |-> f.pages, there |-> f.there, world |-> f.world, lost |-> f.lost]
    BY <1>1 DEF Underway, FileShape
  <2>2. h = [pages |-> h.pages, there |-> f.there, world |-> f.world, lost |-> f.lost]
    <3>1. WorldOK(w) /\ FileShape(f) /\ f.pages \in Seq(Nat \cup {Hole})
      BY <1>1 DEF Underway
    <3> HIDE DEF h, f
    <3>2. h = Written(f, i, p, q)
      BY DEF h
    <3>3. Longer(f, h, i, p, q)
      BY <1>3, <3>1, <3>2, PagesWritten
    <3>4. QED
      BY <3>3 DEF Longer
  <2>3. h.lost = f.lost
    <3> HIDE DEF h, f
    <3>1. QED
      BY <2>2
  <2>4. disk' = [disk EXCEPT !.tmp = [h EXCEPT !.lost = h.lost \cup gone \cup (Run(i, e) \cap swapped)]]
    BY DEF Put
  <2>5. h.lost \cup gone \cup (Run(i, e) \cap swapped) = l
    BY <2>3
  <2> HIDE DEF h, l, f
  <2>6. QED
    BY <2>4, <2>5
<1>5. \A k \in i .. p : w.fptovp[k] \in swapped => w.fptovp[k] \in l
  <2>1. ASSUME NEW k \in i .. p, w.fptovp[k] \in swapped PROVE w.fptovp[k] \in l
    <3>1. k \in i .. e
      BY <1>1, <1>2, <1>3
    <3>2. w.fptovp[k] \in Run(i, e)
      BY <3>1 DEF Run
    <3>3. QED
      BY <2>1, <3>2
  <2>2. QED
    BY <2>1
<1>6. LossKnown(f, i, p, q, l) /\ InFile(i, p, q)
  <2>1. /\ \A k \in p + 1 .. q : w.fptovp[k] \in l
        /\ f.lost \subseteq l
        /\ \A k \in 1 .. i - 1 : w.fptovp[k] # Hole => k <= Len(f.pages) \/ w.fptovp[k] \in l
    BY <1>2
  <2> HIDE DEF f, l
  <2>2. QED
    BY <1>3, <1>5, <2>1 DEF LossKnown, InFile
<1>7. f = disk.tmp /\ h = Written(f, i, p, q) /\ g = [h EXCEPT !.lost = l] /\ Len(f.pages) \in Nat
  BY <1>1 DEF Underway
<1> HIDE DEF f, h, g, l
<1>8. /\ FileShape(g) /\ FileOK(g) /\ g.there /\ g.world = w /\ Right(w, g) /\ g.lost = l
      /\ Len(g.pages) = IF q < i THEN Len(f.pages) ELSE IF Len(f.pages) > q THEN Len(f.pages) ELSE q
  <2>1. Wrote(f, g, i, q, l)
    BY <1>1, <1>2, <1>6, <1>7, RightAfter
  <2>2. QED
    BY <2>1 DEF Wrote
<1>9. disk' = [img |-> disk'.img, tmp |-> disk'.tmp] /\ disk'.img = disk.img /\ disk'.tmp = g
  BY <1>4, DiskSet DEF IInv, DiskOK
<1>10. DiskOK'
  BY <1>8, <1>9 DEF IInv, DiskOK
<1>11. Len(g.pages) = IF q < i THEN Len(f.pages) ELSE q
  BY <1>2, <1>7, <1>8
<1>12. AfterPut(i, q, l)
  BY <1>7, <1>8, <1>9, <1>10, <1>11 DEF AfterPut
<1>13. QED
  BY <1>12 DEF l, f

\* The rest of a run after a page that was not written ends before the run does.
LEMMA RestEnds ==
  ASSUME NEW i \in Nat, NEW e \in Nat, NEW p \in Int, i - 1 <= p, p < e
  PROVE  Rest(i, e, p) \in Nat /\ p + Rest(i, e, p) <= e
<1> DEFINE a == p - i + 1
           end == i - 1 + (a \div MaxPages + 1) * MaxPages
<1>1. MaxPages \in Nat /\ MaxPages > 0 /\ a \in Nat
  BY MemoryAssumption
<1>2. (a \div MaxPages) \in Int /\ (a \div MaxPages + 1) * MaxPages > a
  BY <1>1
<1>3. (a \div MaxPages + 1) * MaxPages \in Int
  BY <1>1, <1>2
<1> DEFINE x == (a \div MaxPages + 1) * MaxPages
<1>3a. x \in Int /\ x > a /\ a \in Nat /\ end = i - 1 + x
  BY <1>1, <1>2, <1>3
<1> HIDE DEF a, x, end
<1>4. end \in Int /\ end > i - 1 + a
  BY <1>3a
<1> USE DEF end
<1>5. a = p - i + 1
  BY DEF a
<1>6. Rest(i, e, p) = IF end < e THEN e - end ELSE 0
  BY DEF Rest, a, x
<1> HIDE DEF end
<1>7. QED
  BY <1>4, <1>5, <1>6

\* The save goes on behind a run that ended at e.
LEMMA SaveGoesOn ==
  ASSUME IInv, Underway, save.at = "pages", NEW i, i = save.i, NEW e \in Nat, i <= e, e <= w.nactive,
         NEW q \in Int, q <= e, NEW gone, NEW ill, AfterPut(i, q, disk.tmp.lost \cup (gone \cup ill)),
         \A k \in i .. e : k <= q \/ w.fptovp[k] \in gone,
         UNCHANGED <<w, owed, up, swapped>>, save' = [at |-> "pages", i |-> e + 1]
  PROVE  IInv'
<1> DEFINE f == disk.tmp
<1>1. /\ i \in Nat /\ 1 <= i /\ Len(f.pages) < i /\ Len(f.pages) \in Nat
      /\ \A k \in 1 .. i - 1 : w.fptovp[k] # Hole => k <= Len(f.pages) \/ w.fptovp[k] \in f.lost
  BY DEF IInv, SaveOK, Progress, Underway
<1>2. up /\ owed = 0 /\ Sane /\ w.nactive \in Nat
  BY DEF Underway
<1>3. /\ DiskOK' /\ disk'.tmp.there /\ disk'.tmp.world = w /\ Right(w, disk'.tmp)
      /\ disk'.tmp.lost = f.lost \cup (gone \cup ill)
      /\ Len(disk'.tmp.pages) = IF q < i THEN Len(f.pages) ELSE q
  BY DEF AfterPut
<1>4. save' \in [at : Steps, i : Nat] /\ save'.at = "pages" /\ save'.i = e + 1
  BY DEF Steps, Saving
<1> HIDE DEF f
<1>5. ASSUME NEW k \in 1 .. e, w.fptovp[k] # Hole
      PROVE  k <= Len(disk'.tmp.pages) \/ w.fptovp[k] \in disk'.tmp.lost
  <2>1. CASE k \in 1 .. i - 1
    BY <1>1, <1>3, <1>5, <2>1
  <2>2. CASE k \in i .. e
    <3>1. CASE w.fptovp[k] \in gone
      BY <1>3, <3>1
    <3>2. CASE k <= q
      <4>1. Len(disk'.tmp.pages) = q
        BY <1>1, <1>3, <2>2, <3>2
      <4>2. QED
        BY <3>2, <4>1
    <3>3. QED
      BY <2>2, <3>1, <3>2
  <2>3. QED
    BY <1>1, <2>1, <2>2
<1>6. Len(disk'.tmp.pages) < e + 1
  BY <1>1, <1>3
<1>7. Progress(save', w, disk'.tmp)
  <2>1. 1 <= save'.i /\ save'.i <= w.nactive + 1 /\ Len(disk'.tmp.pages) < save'.i
    BY <1>1, <1>2, <1>4, <1>6
  <2>2. \A k \in 1 .. save'.i - 1 : w.fptovp[k] # Hole => k <= Len(disk'.tmp.pages) \/ w.fptovp[k] \in disk'.tmp.lost
    <3>1. save'.i - 1 = e
      BY <1>4
    <3>2. QED
      BY <1>5, <3>1
  <2>3. QED
    BY <1>3, <2>1, <2>2 DEF Progress
<1>8. SaveOK'
  BY <1>2, <1>3, <1>4, <1>7 DEF SaveOK, Sane
<1>9. WorldOK(w') /\ Promised'
  BY <1>2 DEF IInv, Promised
<1>10. QED
  BY <1>3, <1>8, <1>9 DEF IInv

LEMMA SavePagesStep ==
  ASSUME IInv, SavePages
  PROVE  IInv'
<1> DEFINE i == save.i
           f == disk.tmp
<1>1. /\ save.at = "pages" /\ i <= w.nactive /\ UNCHANGED <<w, owed, up>>
      /\ save \in [at : Steps, i : Nat] /\ Progress(save, w, f)
  BY DEF SavePages, At, IInv, SaveOK
<1>2. Underway
  BY <1>1, UnderwayHolds DEF Saving
<1>3. /\ WorldOK(w) /\ w.nactive \in Nat /\ i \in Nat /\ i \in 1 .. w.nactive
      /\ w.fptovp \in Seq(Nat \cup {Hole}) /\ Len(w.fptovp) = w.nactive
      /\ up /\ owed = 0 /\ Sane /\ Len(f.pages) \in Nat
  BY <1>1, <1>2 DEF Underway, Progress
<1> HIDE DEF i, f
<1>4. CASE w.fptovp[save.i] = Hole
  <2>1. save' = [at |-> "pages", i |-> i + 1] /\ UNCHANGED <<swapped, disk>>
    BY <1>4 DEF SavePages, Goto, Step, i
  <2>2. save' \in [at : Steps, i : Nat] /\ save'.at = "pages" /\ save'.i = i + 1
    BY <1>3, <2>1 DEF Steps, Saving
  <2>3. Progress(save', w, f)
    <3>1. /\ Len(f.pages) < i /\ Right(w, f)
          /\ \A k \in 1 .. i - 1 : w.fptovp[k] # Hole => k <= Len(f.pages) \/ w.fptovp[k] \in f.lost
      BY <1>1 DEF Progress, i
    <3>2. \A k \in 1 .. save'.i - 1 : w.fptovp[k] # Hole => k <= Len(f.pages) \/ w.fptovp[k] \in f.lost
      <4>1. w.fptovp[i] = Hole
        BY <1>4 DEF i
      <4>2. QED
        BY <1>3, <2>2, <3>1, <4>1
    <3>3. QED
      BY <1>3, <2>2, <3>1, <3>2 DEF Progress
  <2>4. SaveOK'
    BY <1>1, <1>2, <1>3, <2>1, <2>2, <2>3 DEF SaveOK, Underway, Sane, f
  <2>5. QED
    BY <1>1, <1>3, <2>1, <2>4, SaveGoes
<1>5. CASE w.fptovp[save.i] # Hole
  <2> DEFINE e == RunEnd(i)
  <2>1. e \in i .. w.nactive /\ e \in Nat /\ i <= e /\ e <= w.nactive
    <3>1. e \in i .. w.nactive
      BY <1>3, RunEnds
    <3>2. QED
      BY <1>3, <3>1
  <2>2. \/ Put(i, e, e, e, {}) /\ Goto("pages", e + 1) /\ UNCHANGED swapped
        \/ /\ \E p \in i - 1 .. e - 1 : Put(i, e, p, p + Rest(i, e, p), Run(p + 1, e))
           /\ Step("pages", e + 1) /\ UNCHANGED swapped
        \/ (\E p \in i - 1 .. e - 1 : Put(i, e, p, p, {})) /\ save' = Idle
        \/ (\E p \in i - 1 .. e : Put(i, e, p, p, {})) /\ save' = Idle
        \/ UNCHANGED <<disk, swapped>> /\ save' = Idle
    <3>1. \/ Put(i, e, e, e, {}) /\ Goto("pages", e + 1) /\ UNCHANGED swapped
          \/ /\ Fault("short")
             /\ \E p \in i - 1 .. e - 1 : Put(i, e, p, p + Rest(i, e, p), Run(p + 1, e))
             /\ Step("pages", e + 1) /\ UNCHANGED swapped
          \/ /\ Fault("fail")
             /\ \E p \in {j \in i - 1 .. e - 1 : (j - i + 1) % MaxPages = 0} :
                   /\ Put(i, e, p, p, {})
                   /\ swapped' = IF e - p > MaxPages THEN Swap(Run(i, e)) ELSE swapped
             /\ \E r \in {"NOFILESPACE", "FILECANNOTWRITE"} : Return(r)
          \/ /\ Fault("alarm") /\ \E p \in i - 1 .. e : Put(i, e, p, p, {})
             /\ swapped' = Swap(Run(i, e)) /\ Return("FILETIMEOUT")
          \/ UNCHANGED <<disk, swapped>> /\ Fails("FILECANNOTSEEK")
      BY <1>5 DEF SavePages, i
    <3>2. (\E r \in {"NOFILESPACE", "FILECANNOTWRITE"} : Return(r)) \/ Return("FILETIMEOUT")
          \/ Fails("FILECANNOTSEEK") => save' = Idle
      BY DEF Return, Fails
    <3> HIDE DEF e
    <3>3. QED
      BY <3>1, <3>2
  <2> HIDE DEF e
  <2>3. CASE Put(i, e, e, e, {}) /\ Goto("pages", e + 1) /\ UNCHANGED swapped
    <3>1. save' = [at |-> "pages", i |-> e + 1] /\ UNCHANGED <<w, owed, up, swapped>>
      BY <1>1, <2>3 DEF Goto, Step
    <3>2. i = save.i /\ e \in Int /\ i - 1 <= e /\ (\A k \in e + 1 .. e : w.fptovp[k] \in {})
      BY <1>3, <2>1 DEF i
    <3>3. AfterPut(i, e, disk.tmp.lost \cup ({} \cup (Run(i, e) \cap swapped)))
      BY <1>1, <2>1, <2>3, <3>2, PutOK
    <3> DEFINE gone == {}
               ill == Run(i, e) \cap swapped
               q == e
    <3>4. q \in Int /\ q <= e /\ \A k \in i .. e : k <= q \/ w.fptovp[k] \in gone
      BY <1>3, <2>1
    <3>5. AfterPut(i, q, disk.tmp.lost \cup (gone \cup ill))
      BY <3>3
    <3> HIDE DEF gone, ill, q
    <3>6. QED
      BY <1>1, <1>2, <2>1, <3>1, <3>2, <3>4, <3>5, SaveGoesOn
  <2>4. CASE /\ \E p \in i - 1 .. e - 1 : Put(i, e, p, p + Rest(i, e, p), Run(p + 1, e))
             /\ Step("pages", e + 1) /\ UNCHANGED swapped
    <3>1. PICK p \in i - 1 .. e - 1 : Put(i, e, p, p + Rest(i, e, p), Run(p + 1, e))
      BY <2>4
    <3>2. save' = [at |-> "pages", i |-> e + 1] /\ UNCHANGED <<w, owed, up, swapped>> /\ i = save.i
      BY <1>1, <2>4 DEF Step, i
    <3> DEFINE q == p + Rest(i, e, p)
    <3>3. p \in Int /\ i - 1 <= p /\ p < e
      BY <1>3, <2>1, <3>1
    <3>4. q \in Int /\ p <= q /\ q <= e
      BY <1>3, <2>1, <3>3, RestEnds
    <3>5. Put(i, e, p, q, Run(p + 1, e))
      BY <3>1
    <3> HIDE DEF q
    <3>6. \A k \in p + 1 .. e : w.fptovp[k] \in Run(p + 1, e)
      BY DEF Run
    <3>7. \A k \in p + 1 .. q : w.fptovp[k] \in Run(p + 1, e)
      <4>1. ASSUME NEW k \in p + 1 .. q PROVE k \in p + 1 .. e
        BY <2>1, <3>3, <3>4
      <4>2. QED
        BY <3>6, <4>1
    <3>8. AfterPut(i, q, disk.tmp.lost \cup (Run(p + 1, e) \cup (Run(i, e) \cap swapped)))
      BY <1>1, <2>1, <3>2, <3>3, <3>4, <3>5, <3>7, PutOK
    <3>9. \A k \in i .. e : k <= q \/ w.fptovp[k] \in Run(p + 1, e)
      <4>1. ASSUME NEW k \in i .. e, ~(k <= q) PROVE k \in p + 1 .. e
        BY <1>3, <2>1, <3>3, <3>4, <4>1
      <4>2. QED
        BY <3>6, <4>1
    <3>10. QED
      BY <1>1, <1>2, <2>1, <3>2, <3>4, <3>8, <3>9, SaveGoesOn
  <2>5. ASSUME NEW p \in i - 1 .. e, Put(i, e, p, p, {}), save' = Idle
        PROVE  IInv'
    <3>1. p \in Int /\ i - 1 <= p /\ p <= e /\ i = save.i /\ (\A k \in p + 1 .. p : w.fptovp[k] \in {})
      BY <1>3, <2>1 DEF i
    <3>2. AfterPut(i, p, disk.tmp.lost \cup ({} \cup (Run(i, e) \cap swapped)))
      BY <1>1, <2>1, <2>5, <3>1, PutOK
    <3>3. DiskOK'
      BY <3>2 DEF AfterPut
    <3>4. QED
      BY <1>1, <2>5, <3>3, SaveEnds
  <2>6. \A p \in i - 1 .. e - 1 : p \in i - 1 .. e
    BY <1>3, <2>1
  <2>7. CASE UNCHANGED <<disk, swapped>> /\ save' = Idle
    <3>1. DiskOK'
      BY <2>7 DEF IInv, DiskOK
    <3>2. QED
      BY <1>1, <2>7, <3>1, SaveEnds
  <2>8. QED
    BY <2>2, <2>3, <2>4, <2>5, <2>6, <2>7
<1>6. QED
  BY <1>4, <1>5

\* The interface page is where Right wants it, and written again changes nothing.
LEMMA IFPageAgain ==
  ASSUME IInv, save.at = "pages", save.i > w.nactive,
         NEW g, g = Written(disk.tmp, IFPAGE_AT, IFPAGE_AT, IFPAGE_AT)
  PROVE  /\ FileShape(g) /\ FileOK(g) /\ g.there /\ g.world = w /\ Right(w, g) /\ g.lost = disk.tmp.lost
         /\ disk.tmp.lost = {} => Whole(g)
         /\ Complete(disk.tmp) => g = disk.tmp
<1> DEFINE f == disk.tmp
<1>1. Underway /\ w.nactive \in Nat /\ Len(f.pages) \in Nat /\ f.pages \in Seq(Nat \cup {Hole}) /\ f.world = w
      /\ WorldOK(w) /\ FileShape(f)
  BY UnderwayHolds DEF Saving, Underway
<1>2. /\ save.i \in Nat /\ save.i = w.nactive + 1 /\ Right(w, f) /\ Len(f.pages) <= w.nactive
      /\ \A k \in 1 .. w.nactive : w.fptovp[k] # Hole => k <= Len(f.pages) \/ w.fptovp[k] \in f.lost
  <2>1. /\ save.i \in Nat /\ save.i <= w.nactive + 1 /\ Right(w, f) /\ Len(f.pages) < save.i
        /\ \A k \in 1 .. save.i - 1 : w.fptovp[k] # Hole => k <= Len(f.pages) \/ w.fptovp[k] \in f.lost
    BY DEF IInv, SaveOK, Progress
  <2>2. save.i = w.nactive + 1
    BY <1>1, <2>1
  <2>3. save.i - 1 = w.nactive
    BY <1>1, <2>2
  <2>4. QED
    BY <1>1, <2>1, <2>2, <2>3
<1>3. /\ IFPAGE_AT = 2 /\ IFPAGE_AT \in 1 .. w.nactive /\ w.fptovp[IFPAGE_AT] = IFPAGE_PAGE
      /\ IFPAGE_PAGE \in Nat /\ IFPAGE_PAGE \notin swapped
  <2>1. IFPAGE_PAGE \in Nat /\ IFPAGE_AT = 2
    BY MemoryAssumption DEF IFPAGE_AT
  <2>2. IFPAGE_PAGE \notin swapped
    BY <1>1 DEF Underway, Sane
  <2>3. w.fptovpstart \in Nat /\ Table(w.nactive) \in Nat /\ Len(w.fptovp) = w.nactive
        /\ Together(w.fptovp, w.fptovpstart, Table(w.nactive), w.made)
    BY <1>1, TableGrows DEF WorldOK, Worlds, Placed
  <2>4. QED
    BY <1>1, <2>1, <2>2, <2>3 DEF Together
<1> HIDE DEF f
<1>4. f = disk.tmp /\ g = Written(f, IFPAGE_AT, IFPAGE_AT, IFPAGE_AT)
  BY DEF f
<1>5. Longer(f, g, IFPAGE_AT, IFPAGE_AT, IFPAGE_AT)
  <2>1. IFPAGE_AT \in Int /\ IFPAGE_AT - 1 <= IFPAGE_AT /\ IFPAGE_AT <= w.nactive
    BY <1>1, <1>3
  <2>2. QED
    BY <1>1, <1>3, <1>4, <2>1, PagesWritten
<1>6. /\ g = [pages |-> g.pages, there |-> f.there, world |-> f.world, lost |-> f.lost]
      /\ g.pages \in Seq(Nat \cup {Hole})
      /\ Len(g.pages) = IF Len(f.pages) > 2 THEN Len(f.pages) ELSE 2
      /\ \A k \in 1 .. Len(g.pages) :
            g.pages[k] = IF k = 2 THEN IFPAGE_PAGE ELSE IF k <= Len(f.pages) THEN f.pages[k] ELSE Hole
  BY <1>1, <1>3, <1>5 DEF Longer
<1>7. g = [g EXCEPT !.lost = f.lost]
  BY <1>6
<1>8. FileShape(g) /\ FileOK(g) /\ g.there /\ g.world = w /\ Right(w, g) /\ g.lost = f.lost
  <2>1. InFile(IFPAGE_AT, IFPAGE_AT, IFPAGE_AT)
    BY <1>1, <1>3 DEF InFile
  <2>2. LossKnown(f, IFPAGE_AT, IFPAGE_AT, IFPAGE_AT, f.lost)
    BY <1>1, <1>2, <1>3 DEF LossKnown
  <2>3. Wrote(f, g, IFPAGE_AT, IFPAGE_AT, f.lost)
    <3> DEFINE at == IFPAGE_AT
               l == f.lost
    <3>1. InFile(at, at, at) /\ LossKnown(f, at, at, at, l) /\ f = disk.tmp /\ g = Written(f, at, at, at)
          /\ g = [g EXCEPT !.lost = l] /\ Underway /\ Right(w, f)
      BY <1>1, <1>2, <1>4, <1>7, <2>1, <2>2
    <3> HIDE DEF at, l
    <3>2. Wrote(f, g, at, at, l)
      BY <3>1, RightAfter
    <3>3. QED
      BY <3>2 DEF at, l
  <2>4. QED
    BY <2>3 DEF Wrote
<1>9. ASSUME f.lost = {} PROVE Whole(g)
  <2>1. w.fptovp[w.nactive] # Hole /\ w.nactive \in 1 .. w.nactive
    BY <1>1, <1>3 DEF WorldOK, Placed
  <2>2. w.nactive <= Len(f.pages)
    BY <1>2, <1>9, <2>1
  <2>3. Len(g.pages) = w.nactive
    BY <1>1, <1>2, <1>3, <1>6, <2>2
  <2>4. QED
    BY <1>8, <2>3 DEF Whole
<1>10. ASSUME Complete(f) PROVE g = f
  <2>1. IFPAGE_AT <= Len(f.pages) /\ f.pages[IFPAGE_AT] = IFPAGE_PAGE
    BY <1>10 DEF Complete, Accepts
  <2>2. Len(g.pages) = Len(f.pages) /\ \A k \in 1 .. Len(f.pages) : g.pages[k] = f.pages[k]
    BY <1>1, <1>3, <1>6, <2>1
  <2>3. g.pages = f.pages
    <3> DEFINE x == g.pages
               y == f.pages
               S == Nat \cup {Hole}
    <3>1. x \in Seq(S) /\ y \in Seq(S) /\ Len(x) = Len(y) /\ \A k \in 1 .. Len(y) : x[k] = y[k]
      BY <1>1, <1>6, <2>2
    <3> HIDE DEF x, y, S
    <3>2. x = y
      BY <3>1
    <3>3. QED
      BY <3>2 DEF x, y
  <2>4. f = [pages |-> f.pages, there |-> f.there, world |-> f.world, lost |-> f.lost]
    BY <1>1 DEF FileShape
  <2>5. QED
    BY <1>6, <2>3, <2>4
<1>11. QED
  BY <1>8, <1>9, <1>10 DEF f

LEMMA SaveIFPageStep ==
  ASSUME IInv, SaveIFPage
  PROVE  IInv'
<1> DEFINE f == disk.tmp
           g == Written(f, IFPAGE_AT, IFPAGE_AT, IFPAGE_AT)
<1>1. save.at = "pages" /\ save.i > w.nactive /\ UNCHANGED <<w, owed, up>>
  BY DEF SaveIFPage, At
<1>2. Underway
  BY <1>1, UnderwayHolds DEF Saving
<1>3. \/ disk' = [disk EXCEPT !.tmp = g] /\ save' = [at |-> "close", i |-> 0] /\ UNCHANGED swapped
      \/ disk' = disk /\ save' = [at |-> "close", i |-> 0] /\ UNCHANGED swapped
      \/ (disk' = [disk EXCEPT !.tmp = g] \/ disk' = disk) /\ save' = Idle
  BY DEF SaveIFPage, Goto, Step, Fails, Return
<1>4. /\ FileShape(g) /\ FileOK(g) /\ g.there /\ g.world = w /\ Right(w, g) /\ g.lost = disk.tmp.lost
      /\ disk.tmp.lost = {} => Whole(g)
  BY <1>1, IFPageAgain
<1> HIDE DEF f, g
<1>5. ASSUME disk' = [disk EXCEPT !.tmp = g]
      PROVE  DiskOK' /\ disk'.tmp = g
  <2>1. disk' = [img |-> disk'.img, tmp |-> disk'.tmp] /\ disk'.img = disk.img /\ disk'.tmp = g
    BY <1>5, DiskSet DEF IInv, DiskOK
  <2>2. QED
    BY <1>4, <2>1 DEF IInv, DiskOK
<1>6. ASSUME disk' = disk PROVE DiskOK'
  BY <1>6 DEF IInv, DiskOK
<1>7. CASE save' = Idle
  BY <1>1, <1>3, <1>5, <1>6, <1>7, SaveEnds
<1>8. ASSUME save' = [at |-> "close", i |-> 0], UNCHANGED swapped, DiskOK', disk'.tmp.there, disk'.tmp.world = w,
             Right(w, disk'.tmp), disk'.tmp.lost = {} => Whole(disk'.tmp)
      PROVE  IInv'
  <2>1. save' \in [at : Steps, i : Nat] /\ save'.at = "close"
    BY <1>8 DEF Steps, Saving
  <2>2. up /\ owed = 0 /\ Sane
    BY <1>2 DEF Underway
  <2>3. SaveOK'
    BY <1>1, <1>8, <2>1, <2>2 DEF SaveOK, Progress, Sane
  <2>4. WorldOK(w') /\ Promised'
    BY <1>1, <2>2 DEF IInv, Promised
  <2>5. QED
    BY <1>8, <2>3, <2>4 DEF IInv
<1>9. CASE disk' = [disk EXCEPT !.tmp = g] /\ save' = [at |-> "close", i |-> 0] /\ UNCHANGED swapped
  BY <1>4, <1>5, <1>8, <1>9
<1>10. CASE disk' = disk /\ save' = [at |-> "close", i |-> 0] /\ UNCHANGED swapped
  <2>1. disk.tmp.there /\ disk.tmp.world = w /\ Right(w, disk.tmp)
    BY <1>1, <1>2 DEF Underway, IInv, SaveOK, Progress
  <2>2. disk.tmp.lost = {} => Whole(disk.tmp)
    <3>1. ASSUME disk.tmp.lost = {} PROVE Whole(disk.tmp)
      <4>1. w.fptovp[w.nactive] # Hole /\ w.nactive \in 1 .. w.nactive /\ Len(disk.tmp.pages) \in Nat /\ w.nactive \in Nat
        BY <1>2 DEF Underway, WorldOK, Placed
      <4>2. /\ save.i \in Nat /\ save.i <= w.nactive + 1 /\ Len(disk.tmp.pages) < save.i
            /\ \A k \in 1 .. save.i - 1 : w.fptovp[k] # Hole => k <= Len(disk.tmp.pages) \/ w.fptovp[k] \in disk.tmp.lost
        BY <1>1 DEF IInv, SaveOK, Progress
      <4>3. w.nactive \in 1 .. save.i - 1
        BY <1>1, <4>1, <4>2
      <4>4. w.nactive <= Len(disk.tmp.pages)
        BY <3>1, <4>1, <4>2, <4>3
      <4>5. QED
        BY <2>1, <4>1, <4>2, <4>4 DEF Whole
    <3>2. QED
      BY <3>1
  <2>3. QED
    BY <1>6, <1>8, <1>10, <2>1, <2>2
<1>11. QED
  BY <1>3, <1>7, <1>9, <1>10

LEMMA SaveCloseStep ==
  ASSUME IInv, SaveClose
  PROVE  IInv'
<1>1. UNCHANGED <<w, owed, up, disk, swapped>> /\ up /\ owed = 0 /\ Sane /\ DiskOK' /\ save.at = "close"
  BY DEF SaveClose, At, IInv, DiskOK, SaveOK
<1>2. CASE save' = [at |-> "unlink", i |-> 0]
  <2>1. SaveOK'
    BY <1>1, <1>2 DEF IInv, SaveOK, Steps, Saving, Progress, Sane
  <2>2. QED
    BY <1>1, <2>1, SaveGoes
<1>3. CASE save' = Idle
  BY <1>1, <1>3, SaveEnds
<1>4. QED
  BY <1>2, <1>3 DEF SaveClose, Goto, Step, Fails, Return

LEMMA SaveUnlinkStep ==
  ASSUME IInv, SaveUnlink
  PROVE  IInv'
<1>1. UNCHANGED <<w, owed, up, swapped>> /\ up /\ owed = 0 /\ Sane /\ save.at = "unlink"
  BY DEF SaveUnlink, At, IInv, SaveOK
<1>2. CASE disk' = [disk EXCEPT !.img = NoFile] /\ save' = [at |-> "rename", i |-> 0]
  <2>1. disk' = [img |-> disk'.img, tmp |-> disk'.tmp] /\ disk'.img = NoFile /\ disk'.tmp = disk.tmp
    <3>1. disk = [img |-> disk.img, tmp |-> disk.tmp]
      BY DEF IInv, DiskOK
    <3>2. disk' = [img |-> NoFile, tmp |-> disk.tmp]
      BY <1>2, <3>1
    <3>3. QED
      BY <3>2
  <2>2. DiskOK'
    BY <2>1, NoFileOK DEF IInv, DiskOK
  <2>3. SaveOK'
    BY <1>1, <1>2, <2>1, NoFileOK DEF IInv, SaveOK, Steps, Saving, Progress, Sane
  <2>4. WorldOK(w') /\ Promised'
    BY <1>1 DEF IInv, Promised
  <2>5. QED
    BY <2>2, <2>3, <2>4 DEF IInv
<1>3. CASE disk' = disk /\ save' = Idle
  <2>1. DiskOK'
    BY <1>3 DEF IInv, DiskOK
  <2>2. QED
    BY <1>1, <1>3, <2>1, SaveEnds
<1>4. QED
  BY <1>2, <1>3 DEF SaveUnlink, Goto, Step, Fails, Return

LEMMA SaveRenameStep ==
  ASSUME IInv, SaveRename
  PROVE  IInv'
<1>1. save' = Idle /\ UNCHANGED <<w, owed, up>> /\ save.at = "rename"
  BY DEF SaveRename, Fails, Return, At
<1>2. DiskOK'
  <2>1. CASE disk' = [img |-> disk.tmp, tmp |-> NoFile]
    <3>1. disk'.img = disk.tmp /\ disk'.tmp = NoFile /\ disk' = [img |-> disk'.img, tmp |-> disk'.tmp]
      BY <2>1
    <3>2. QED
      BY <3>1, NoFileOK DEF IInv, DiskOK
  <2>2. CASE disk' = disk
    BY <2>2 DEF IInv, DiskOK
  <2>3. QED
    BY <2>1, <2>2 DEF SaveRename
<1>3. QED
  BY <1>1, <1>2, SaveEnds

LEMMA ExitStep ==
  ASSUME IInv, Exit
  PROVE  IInv'
<1>1. w' = InitialWorld /\ owed' = 0 /\ save' = Idle /\ disk' = disk
  BY DEF Exit
<1>2. WorldOK(w') /\ DiskOK' /\ Promised'
  BY <1>1, InitialOK DEF IInv, DiskOK, Promised
<1>3. SaveOK'
  BY <1>1 DEF Idle, SaveOK, Steps, Saving, Progress
<1>4. QED
  BY <1>2, <1>3 DEF IInv

LEMMA LoadStep ==
  ASSUME IInv, Load
  PROVE  IInv'
<1>1. PICK name \in {"img", "tmp"}, size \in Sizes :
        /\ Accepts(disk[name]) /\ MayHaveSize(disk[name].world, size)
        /\ w' = LispStarts(init_storage(init_ifpage(disk[name].world, size)))
  BY DEF Load
<1> DEFINE f == disk[name]
<1>2. FileOK(f) /\ f.there
  <2>1. f = disk.img \/ f = disk.tmp
    OBVIOUS
  <2>2. QED
    BY <1>1, <2>1 DEF IInv, DiskOK, Accepts
<1> DEFINE s == f.world
<1>3. WorldOK(s) /\ s.storagefullstate = s.STORAGEFULLSTATE
  BY <1>2 DEF FileOK
<1>4. MayHaveSize(s, size) /\ w' = LispStarts(init_storage(init_ifpage(s, size)))
  BY <1>1
<1> HIDE DEF s, f
<1>5. WorldOK(w')
  BY <1>3, <1>4, LoadedOK
<1>6. ~up /\ UNCHANGED <<owed, swapped, disk, save>>
  BY DEF Load
<1>7. owed = 0 /\ save.at = "idle"
  BY <1>6 DEF IInv, Promised, SaveOK
<1>8. DiskOK' /\ Promised'
  BY <1>6, <1>7 DEF IInv, DiskOK, Promised
<1>9. SaveOK'
  BY <1>6, <1>7 DEF IInv, SaveOK, Saving, Progress
<1>10. QED
  BY <1>5, <1>8, <1>9 DEF IInv

LEMMA NextIInv ==
  ASSUME "nocell" \notin Faults, IInv, [Next]_vars
  PROVE  IInv'
<1>1. CASE \E nocell \in BOOLEAN : alloc_mdspage(nocell)
  BY <1>1, AllocStep
<1>2. CASE \E npages \in ArrayRequests, nocell \in BOOLEAN : GrowArray(npages, nocell)
  BY <1>2, GrowStep
<1>3. CASE NewArrayPage \/ NewSystemPage
  BY <1>3, ArrayStep, SystemStep
<1>4. CASE vmem_save0 \/ SaveOpen \/ SaveTruncate
  BY <1>4, vmem_save0Step, SaveOpenStep, SaveTruncateStep
<1>5. CASE SavePages \/ SaveIFPage
  BY <1>5, SavePagesStep, SaveIFPageStep
<1>6. CASE SaveClose \/ SaveUnlink \/ SaveRename
  BY <1>6, SaveCloseStep, SaveUnlinkStep, SaveRenameStep
<1>7. CASE Exit \/ Load
  BY <1>7, ExitStep, LoadStep
<1>8. CASE UNCHANGED vars
  BY <1>8 DEF vars, IInv, Promised, DiskOK, SaveOK, Progress, Sane
<1>9. QED
  BY <1>1, <1>2, <1>3, <1>4, <1>5, <1>6, <1>7, <1>8 DEF Next

\* The layout of the file, and the order in which it is written, hold through
\* every operation, save, failure and restart (newpage, checkfor_storagefull,
\* vmem_save, sysout_loader).
THEOREM ImageInvariant == ASSUME "nocell" \notin Faults PROVE Spec => []IInv
<1>1. IInv /\ [Next]_vars => IInv'
  BY NextIInv
<1>2. QED
  BY <1>1, InitIInv, PTL DEF Spec

(***************************************************************************)
(* What follows from it.                                                   *)
(***************************************************************************)
LEMMA OnePlace ==
  ASSUME NEW s, WorldOK(s), NEW x \in s.made
  PROVE  \E k \in 1 .. s.nactive : {j \in 1 .. s.nactive : s.fptovp[j] = x} = {k} /\ s.fptovp[k] = x
<1>1. /\ Len(s.fptovp) = s.nactive /\ x \in Nat /\ x # Hole
      /\ \A j, k \in 1 .. s.nactive : s.fptovp[j] = s.fptovp[k] => j = k \/ s.fptovp[j] = Hole
      /\ \A y \in s.made : \E k \in 1 .. s.nactive : s.fptovp[k] = y
  <2>1. Len(s.fptovp) = s.nactive /\ Places(s.fptovp, s.made)
    BY DEF WorldOK, Placed
  <2>2. s.made \in SUBSET Nat
    BY <2>1 DEF Places
  <2>3. x \in Nat /\ x # Hole
    BY <2>2 DEF Hole
  <2>4. QED
    BY <2>1, <2>3 DEF Places
<1>2. PICK k \in 1 .. s.nactive : s.fptovp[k] = x
  BY <1>1
<1>3. {j \in 1 .. s.nactive : s.fptovp[j] = x} = {k}
  BY <1>1, <1>2
<1>4. QED
  BY <1>2, <1>3

\* Its table brings back every page of an image that the loader takes, but for the
\* damaged ones.
LEMMA AcceptedDamaged ==
  ASSUME NEW f, FileOK(f), Accepts(f)
  PROVE  f.world.made \ Restored(f) \subseteq Damaged(f)
<1> DEFINE s == f.world
           n == f.world.nactive
           t == f.world.fptovp
           start == f.world.fptovpstart
<1>1. /\ WorldOK(s) /\ Len(f.pages) = n
      /\ \A k \in 1 .. n : t[k] # Hole => f.pages[k] = t[k] \/ t[k] \in f.lost
  BY DEF FileOK, Accepts, Whole, Right
<1>2. /\ n \in Nat /\ Len(t) = n /\ start \in Nat /\ FPTOVP_PAGE \in Nat /\ Table(n) \in Nat
      /\ IFPAGE_AT < start /\ start + Table(n) < n
      /\ \A page \in 0 .. Table(n) : t[start + page] = FPTOVP_PAGE + page
  <2>1. n \in Nat /\ start \in Nat
    BY <1>1 DEF WorldOK, Worlds
  <2>2. QED
    BY <1>1, <2>1, MemoryAssumption, TableGrows DEF WorldOK, Placed, Together
<1>3. Damaged(f) = f.lost \cup {t[k] : k \in {j \in 1 .. n : FPTOVP_PAGE + Table(j) \in f.lost}}
  BY DEF Damaged, Table
<1>4. \A k : EntryRead(f, k) = t[k] \/ EntryRead(f, k) = Hole
  BY DEF EntryRead
<1>5. ASSUME NEW k \in 1 .. n, FPTOVP_PAGE + Table(k) \notin f.lost PROVE EntryRead(f, k) = t[k]
  <2> DEFINE page == Table(k)
             fp == start + page
  <2> HIDE DEF s, n, t, start
  <2>1. page \in Nat /\ page <= Table(n)
    <3>1. n \in Nat /\ k \in Nat /\ k <= n
      BY <1>2
    <3>2. QED
      BY <3>1, TableGrows, TableMonotone
  <2>2. page = k \div EntriesPerPage /\ FPTOVP_PAGE + page \notin f.lost
    BY <1>5 DEF Table
  <2> HIDE DEF page
  <2>3. fp \in 1 .. n /\ t[fp] = FPTOVP_PAGE + page /\ t[fp] # Hole
    BY <1>2, <2>1 DEF IFPAGE_AT, Hole
  <2>4. fp <= Len(f.pages) /\ f.pages[fp] = FPTOVP_PAGE + page
    BY <1>1, <1>2, <2>2, <2>3
  <2>5. fp = f.world.fptovpstart + page
    BY DEF fp, start
  <2> HIDE DEF fp
  <2>6. QED
    BY <2>2, <2>4, <2>5 DEF EntryRead, t
<1>6. ASSUME NEW vp \in s.made, vp \notin Damaged(f)
      PROVE  \E k \in 1 .. Len(f.pages) :
                /\ f.pages[k] = vp /\ EntryRead(f, k) = vp
                /\ \A j \in k + 1 .. Len(f.pages) : EntryRead(f, j) # vp
  <2>0. vp # Hole
    BY <1>1 DEF WorldOK, Placed, Places, Hole
  <2>1. PICK k \in 1 .. n : {j \in 1 .. n : t[j] = vp} = {k} /\ t[k] = vp
    BY <1>1, <1>6, OnePlace
  <2> HIDE DEF s, n, t, start
  <2>2. vp \notin f.lost /\ FPTOVP_PAGE + Table(k) \notin f.lost
    BY <1>3, <1>6, <2>1
  <2>3. EntryRead(f, k) = vp
    BY <1>5, <2>1, <2>2
  <2>4. f.pages[k] = vp
    BY <1>1, <2>0, <2>1, <2>2
  <2>5. ASSUME NEW j \in k + 1 .. n PROVE EntryRead(f, j) # vp
    <3>1. j \in 1 .. n /\ j # k
      BY <1>2, <2>5
    <3>2. t[j] # vp
      BY <2>1, <3>1
    <3>3. QED
      BY <1>4, <2>0, <3>2
  <2>6. QED
    BY <1>1, <2>1, <2>3, <2>4, <2>5
<1>7. QED
  BY <1>6 DEF Restored, s

\* An image of the right length in which nothing was lost is complete.
LEMMA WholeComplete ==
  ASSUME NEW f, FileOK(f), f.there, Whole(f), f.lost = {}
  PROVE  Complete(f)
<1>1. /\ WorldOK(f.world) /\ Len(f.pages) = f.world.nactive
      /\ \A k \in 1 .. f.world.nactive : f.world.fptovp[k] # Hole => f.pages[k] = f.world.fptovp[k]
  BY DEF FileOK, Whole, Right
<1>2. IFPAGE_AT \in 1 .. f.world.nactive /\ f.world.fptovp[IFPAGE_AT] = IFPAGE_PAGE /\ IFPAGE_PAGE # Hole
  <2>1. f.world.nactive \in Nat /\ f.world.fptovpstart \in Nat /\ IFPAGE_PAGE \in Nat
    BY <1>1, MemoryAssumption DEF WorldOK, Worlds
  <2>2. Table(f.world.nactive) \in Nat
    BY <2>1, TableGrows
  <2>3. QED
    BY <1>1, <2>1, <2>2 DEF WorldOK, Placed, Together, IFPAGE_AT, Hole
<1>3. Accepts(f)
  BY <1>1, <1>2 DEF Accepts
<1>4. Damaged(f) = {}
  BY DEF Damaged
<1>5. f.world.made \ Restored(f) = {}
  BY <1>3, <1>4, AcceptedDamaged
<1>6. Restored(f) \subseteq f.world.made
  BY DEF Restored
<1>7. QED
  BY <1>3, <1>5, <1>6 DEF Complete

LEMMA CompleteWhole ==
  ASSUME NEW f, Complete(f)
  PROVE  f.there /\ Whole(f)
BY DEF Complete, Accepts, Whole

\* Every page has one place in the image and was made once (newpage,
\* checkfor_storagefull, vmem_save): if the first check for a full storage
\* finds a cons cell, or room for a new one.
THEOREM PagesHavePlaces == ASSUME "nocell" \notin Faults PROVE Spec => []PagesAccounted
<1>1. ASSUME IInv PROVE PagesAccounted
  <2>1. WorldOK(w) /\ ~w.twice /\ Len(w.fptovp) = w.nactive
    BY <1>1 DEF IInv, WorldOK, Placed
  <2>2. ASSUME NEW vp \in w.made PROVE Cardinality({k \in 1 .. w.nactive : w.fptovp[k] = vp}) = 1
    <3>1. PICK k \in 1 .. w.nactive : {j \in 1 .. w.nactive : w.fptovp[j] = vp} = {k}
      BY <2>1, OnePlace
    <3>2. QED
      BY <3>1, FS_Singleton
  <2>3. QED
    BY <2>1, <2>2 DEF PagesAccounted
<1>2. QED
  BY <1>1, ImageInvariant, PTL

\* The loader refuses every torn image (sysout_loader, vmem_save): of one that it
\* takes only pages are missing that a short write left out or that were in file
\* order in memory, and those whose table entries are among them.
THEOREM TornRefused == ASSUME "nocell" \notin Faults PROVE Spec => []LoaderRefusesTorn
<1>1. ASSUME IInv PROVE LoaderRefusesTorn
  <2>1. FileOK(disk.img) /\ FileOK(disk.tmp)
    BY <1>1 DEF IInv, DiskOK
  <2>2. ASSUME NEW name \in {"img", "tmp"}, Accepts(disk[name])
        PROVE  disk[name].world.made \ Restored(disk[name]) \subseteq Damaged(disk[name])
    <3>1. FileOK(disk[name])
      BY <2>1
    <3>2. QED
      BY <2>2, <3>1, AcceptedDamaged
  <2>3. QED
    BY <2>2 DEF LoaderRefusesTorn
<1>2. QED
  BY <1>1, ImageInvariant, PTL

\* What a save leaves of two images, one of them complete.
Survives ==
  \/ Complete(disk'.img) \/ Complete(disk'.tmp)
  \/ ~Complete(disk.img) /\ save.at = "truncate"
  \/ disk.tmp.lost # {} /\ save.at = "unlink"

LEMMA WriteSurvives ==
  ASSUME IInv, SavePages, Complete(disk.img) \/ Complete(disk.tmp)
  PROVE  Survives
<1>1. disk'.img = disk.img
  <2>1. disk = [img |-> disk.img, tmp |-> disk.tmp]
    BY DEF IInv, DiskOK
  <2>2. disk' = disk \/ \E g : disk' = [disk EXCEPT !.tmp = g]
    <3>1. \A i, e, p, q, gone : Put(i, e, p, q, gone) => \E g : disk' = [disk EXCEPT !.tmp = g]
      BY DEF Put
    <3>2. UNCHANGED disk \/ \E i, e, p, q, gone : Put(i, e, p, q, gone)
      BY DEF SavePages
    <3>3. QED
      BY <3>1, <3>2
  <2>3. QED
    BY <2>1, <2>2
<1>2. ~Complete(disk.tmp)
  <2>1. save.at = "pages" /\ save.i <= w.nactive /\ disk.tmp.world = w
    BY DEF SavePages, At, IInv, SaveOK, Saving
  <2>2. Len(disk.tmp.pages) < save.i /\ save.i \in Nat
    BY <2>1 DEF IInv, SaveOK, Progress
  <2>3. Underway
    BY <2>1, UnderwayHolds DEF Saving
  <2>4. ~Whole(disk.tmp)
    BY <2>1, <2>2, <2>3 DEF Underway, Whole
  <2>5. QED
    BY <2>4, CompleteWhole
<1>3. QED
  BY <1>1, <1>2 DEF Survives

LEMMA IFPageSurvives ==
  ASSUME IInv, SaveIFPage, Complete(disk.img) \/ Complete(disk.tmp)
  PROVE  Survives
<1> DEFINE g == Written(disk.tmp, IFPAGE_AT, IFPAGE_AT, IFPAGE_AT)
<1>1. save.at = "pages" /\ save.i > w.nactive /\ (disk' = [disk EXCEPT !.tmp = g] \/ disk' = disk)
  BY DEF SaveIFPage, At
<1>2. Complete(disk.tmp) => g = disk.tmp
  BY <1>1, IFPageAgain
<1> HIDE DEF g
<1>3. CASE disk' = [disk EXCEPT !.tmp = g]
  <2>1. disk'.img = disk.img /\ disk'.tmp = g
    BY <1>3, DiskSet DEF IInv, DiskOK
  <2>2. QED
    BY <1>2, <2>1 DEF Survives
<1>4. CASE disk' = disk
  BY <1>4 DEF Survives
<1>5. QED
  BY <1>1, <1>3, <1>4

LEMMA RenameSurvives ==
  ASSUME IInv, SaveTruncate \/ SaveUnlink \/ SaveRename, Complete(disk.img) \/ Complete(disk.tmp)
  PROVE  Survives
<1>1. disk = [img |-> disk.img, tmp |-> disk.tmp] /\ FileOK(disk.tmp)
  BY DEF IInv, DiskOK
<1>2. CASE disk' = disk
  BY <1>2 DEF Survives
<1>3. CASE disk' # disk /\ SaveTruncate
  <2>1. disk' = [disk EXCEPT !.tmp = [pages |-> << >>, there |-> TRUE, world |-> w', lost |-> {}]]
        /\ save.at = "truncate"
    BY <1>3 DEF SaveTruncate, At
  <2>2. disk'.img = disk.img
    BY <1>1, <2>1
  <2>3. QED
    BY <2>1, <2>2 DEF Survives
<1>4. CASE disk' # disk /\ SaveUnlink
  <2>1. disk' = [disk EXCEPT !.img = NoFile] /\ save.at = "unlink"
    BY <1>4 DEF SaveUnlink, At
  <2>2. disk'.tmp = disk.tmp
    BY <1>1, <2>1
  <2>3. disk.tmp.there /\ (disk.tmp.lost = {} => Whole(disk.tmp))
    BY <2>1 DEF IInv, SaveOK, Saving
  <2>4. disk.tmp.lost = {} => Complete(disk'.tmp)
    BY <1>1, <2>2, <2>3, WholeComplete
  <2>5. QED
    BY <2>1, <2>4 DEF Survives
<1>5. CASE disk' # disk /\ SaveRename
  <2>1. disk' = [img |-> disk.tmp, tmp |-> NoFile] /\ save.at = "rename"
    BY <1>5 DEF SaveRename, At
  <2>2. ~disk.img.there /\ disk'.img = disk.tmp
    BY <2>1 DEF IInv, SaveOK
  <2>3. Complete(disk.tmp)
    BY <2>2, CompleteWhole
  <2>4. QED
    BY <2>2, <2>3 DEF Survives
<1>6. QED
  BY <1>2, <1>3, <1>4, <1>5

\* Once there is a complete image there always is one, whatever fails and
\* wherever the save is cut off (vmem_save's temporary file, unlink and
\* rename), but for what ImageSurvives lets happen.
THEOREM CompleteImageStays == ASSUME "nocell" \notin Faults PROVE Spec => ImageSurvives
<1>1. ASSUME IInv, [Next]_vars
      PROVE  [~Complete(disk'.img) /\ ~Complete(disk'.tmp)
              => \/ ~Complete(disk.img) /\ (~Complete(disk.tmp) \/ save.at = "truncate")
                 \/ disk.tmp.lost # {} /\ save.at = "unlink"]_disk
  <2>1. SUFFICES ASSUME Next, Complete(disk.img) \/ Complete(disk.tmp) PROVE Survives
    BY <1>1 DEF Survives, vars
  <2>2. CASE disk' = disk
    BY <2>1, <2>2 DEF Survives
  <2>3. CASE SavePages
    BY <1>1, <2>1, <2>3, WriteSurvives
  <2>4. CASE SaveIFPage
    BY <1>1, <2>1, <2>4, IFPageSurvives
  <2>5. CASE SaveTruncate \/ SaveUnlink \/ SaveRename
    BY <1>1, <2>1, <2>5, RenameSurvives
  <2>6. CASE \/ \E nocell \in BOOLEAN : alloc_mdspage(nocell)
             \/ \E npages \in ArrayRequests, nocell \in BOOLEAN : GrowArray(npages, nocell)
             \/ NewArrayPage \/ NewSystemPage \/ vmem_save0 \/ SaveOpen \/ SaveClose \/ Exit \/ Load
    <3>1. disk' = disk
      BY <2>6 DEF alloc_mdspage, GrowArray, NewArrayPage, NewSystemPage, OnlyFiles, vmem_save0, SaveOpen, SaveClose,
                  Exit, Load
    <3>2. QED
      BY <2>2, <3>1
  <2>7. QED
    BY <2>1, <2>3, <2>4, <2>5, <2>6 DEF Next
<1>2. QED
  BY <1>1, ImageInvariant, PTL DEF Spec, ImageSurvives
=============================================================================
