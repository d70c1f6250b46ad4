--------------------------- MODULE VirtualMemory ---------------------------
(***************************************************************************)
(* The Lisp image: how it grows (storage.c, allocmds.c), how it is saved    *)
(* (vmemsave.c) and how it is loaded again (ldsout.c, initsout.c).          *)
(*                                                                         *)
(* A page is known by its virtual page number.  FPtoVP says which virtual   *)
(* page lies in which page of the image file; it lies in the image itself,  *)
(* from file page fptovpstart on, EntriesPerPage entries to a page.  Cons   *)
(* cells and other data (MDS) take pages in pairs from the top of a region, *)
(* arrays from its bottom; a second region serves when the first is full.   *)
(*                                                                         *)
(* What a page holds is not modelled: the file remembers the world it was   *)
(* written from, and for each file page which virtual page was written.     *)
(***************************************************************************)
EXTENDS Integers, Sequences, FiniteSets

CONSTANTS
  EntriesPerPage,             \* 128 in the code
  FPTOVP_PAGE,                \* virtual page of FPtoVP[0]
  IFPAGE_PAGE,                \* virtual page of the interface page
  InitialFile,                \* sequence: the virtual page of each file page at first
  SystemPages,                \* pages outside both regions that are made later
  FirstArray, FirstMDS,       \* the first region: arrays from below, MDS from above
  SecondArrayPage,            \* where the second region starts
  LastPage,                   \* dllastvmempage for each process size, small and large
  GUARDSTORAGEFULL, GUARD1STORAGEFULL, GUARDVMEMFULL,
  ArrayRequests,              \* how many pages an array request may want
  MaxPages,                   \* most pages that one write() takes
  Faults,                     \* "fail", "alarm", "short", "crash", "nocell"
  MaxSaves, MaxFaults, MaxActive   \* bounds

Hole == -1                    \* an entry of FPtoVP that stands for no page
PAGESPER_MDSUNIT == 2
IFPAGE_AT == 2                \* the file page of the interface page
Sizes == DOMAIN LastPage

ASSUME MemoryAssumption ==
  /\ EntriesPerPage \in Nat \ {0, 1}
  /\ {FPTOVP_PAGE, IFPAGE_PAGE, FirstArray, FirstMDS, SecondArrayPage, MaxActive,
      GUARDSTORAGEFULL, GUARD1STORAGEFULL, GUARDVMEMFULL} \subseteq Nat
  /\ LastPage \in [{"small", "large"} -> Nat]
  /\ FirstArray + PAGESPER_MDSUNIT < FirstMDS /\ FirstMDS + PAGESPER_MDSUNIT <= SecondArrayPage
  /\ SecondArrayPage <= LastPage["large"] - PAGESPER_MDSUNIT - 1
  /\ MaxPages \in Nat \ {0} /\ ArrayRequests \subseteq Nat \ {0}

\* The table, the two regions, the interface page and the others are apart in memory.
TablePages == FPTOVP_PAGE .. FPTOVP_PAGE + (MaxActive \div EntriesPerPage)
RegionPages == FirstArray .. LastPage["large"]
ASSUME LayoutAssumption ==
  /\ SystemPages \subseteq Nat
  /\ TablePages \cap RegionPages = {}
  /\ SystemPages \cap (TablePages \cup RegionPages) = {}

TableStart(f) == CHOOSE k \in DOMAIN f : f[k] = FPTOVP_PAGE

\* The image to begin with: the table lies together after the interface page,
\* every page has one place, the regions are empty and the last page is no hole.
ASSUME InitialAssumption ==
  LET n     == Len(InitialFile)
      start == TableStart(InitialFile)
      last  == n \div EntriesPerPage
  IN  /\ InitialFile \in Seq(Nat \cup {Hole}) /\ n \in 1..MaxActive
      /\ \A j, k \in 1..n : InitialFile[j] = InitialFile[k] => j = k \/ InitialFile[j] = Hole
      /\ start \in Nat /\ IFPAGE_AT < start /\ start + last < n
      /\ InitialFile[IFPAGE_AT] = IFPAGE_PAGE /\ InitialFile[n] # Hole
      /\ \A page \in 0..last : InitialFile[start + page] = FPTOVP_PAGE + page
      /\ \A k \in 1..n : /\ InitialFile[k] \notin RegionPages
                         /\ InitialFile[k] \in TablePages => InitialFile[k] <= FPTOVP_PAGE + last

VARIABLES
  w,        \* the Lisp world: what memory holds that matters here (see InitialWorld)
  owed,     \* the array pages that Lisp was allowed and has not made yet
  up,       \* Lisp runs
  swapped,  \* the pages whose bytes are in file order in memory
  disk,     \* the two files: the image and NAME-temp
  save,     \* where vmem_save is
  result,   \* what the last vmem_save returned
  saved,    \* how many saves were begun
  faults    \* how many of their steps went wrong
vars == <<w, owed, up, swapped, disk, save, result, saved, faults>>

\* A file; lost is history: the pages that went wrong in it and were taken for written.
NoFile == [pages |-> << >>, there |-> FALSE, world |-> << >>, lost |-> {}]
Idle == [at |-> "idle", i |-> 0]

InitialWorld ==
  [nactive |-> Len(InitialFile), fptovp |-> InitialFile, fptovpstart |-> TableStart(InitialFile),
   made |-> {InitialFile[k] : k \in DOMAIN InitialFile} \ {Hole},   \* history: the pages made
   twice |-> FALSE,                                               \* history: one was made twice
   size |-> "small", storagefullstate |-> "NIL", lastvmempage |-> LastPage["small"],
   STORAGEFULLSTATE |-> "NIL", cachevar |-> FALSE, STORAGEFULL |-> "NIL", VMEM_FULL |-> "NIL",
   nextArray |-> FirstArray, nextMDS |-> FirstMDS, leastMDS |-> FirstArray,
   secondMDS |-> LastPage["small"] - PAGESPER_MDSUNIT - 1,
   pending |-> FALSE, stuck |-> FALSE]

Init ==
  /\ w = InitialWorld
  /\ owed = 0
  /\ up = TRUE
  /\ swapped = {}
  /\ disk = [img |-> [pages |-> InitialFile, there |-> TRUE, world |-> InitialWorld, lost |-> {}],
             tmp |-> NoFile]
  /\ save = Idle
  /\ result = "NIL"
  /\ saved = 0
  /\ faults = 0

(***************************************************************************)
(* newpage: the next file page for vp.  When the table itself needs a page, *)
(* that page takes the place of the one that follows the table in the file, *)
(* which moves to the end.                                                 *)
(***************************************************************************)
GrowTable(s) ==
  LET k  == s.nactive \div EntriesPerPage
      fp == s.fptovpstart + k
  IN  [s EXCEPT !.fptovp = Append([@ EXCEPT ![fp] = FPTOVP_PAGE + k], @[fp]),
                !.nactive = @ + 1, !.made = @ \cup {FPTOVP_PAGE + k}]

VmemFull(s) ==
  IF s.nactive <= s.lastvmempage - GUARDVMEMFULL THEN s
  ELSE [s EXCEPT !.pending = @ \/ s.VMEM_FULL = "NIL",
                 !.VMEM_FULL = IF s.nactive < s.lastvmempage THEN "0" ELSE "T"]

newpage(s, vp) ==
  LET one == [s EXCEPT !.nactive = @ + 1]
      t   == IF one.nactive % EntriesPerPage = 0 THEN GrowTable(one) ELSE one
  IN  VmemFull([t EXCEPT !.fptovp = Append(@, vp),
                         !.twice = @ \/ vp \in t.made, !.made = @ \cup {vp}])

(***************************************************************************)
(* checkfor_storagefull: one region or two.                                *)
(***************************************************************************)
PagesLeft(s) == s.nextMDS - s.nextArray - PAGESPER_MDSUNIT

\* Variant of advance_storagestate: STORAGEFULLSTATE stays among the variables
\* that a restart clears.
advance_storagestateCached(s, state) == [s EXCEPT !.STORAGEFULLSTATE = state]

advance_storagestate(s, state) == [s EXCEPT !.STORAGEFULLSTATE = state, !.cachevar = FALSE]

\* npages = 0: a pair of MDS pages is wanted; otherwise npages array pages.
\* npages is unsigned: compared with it a negative number of pages left is a
\* very large one, and array space does not switch.
StorageSwitch(s, left, npages) ==
  CASE s.STORAGEFULLSTATE \in {"NOTSWITCHABLE", "FULLYSWITCHED"} ->
         IF left < 0 THEN [s EXCEPT !.stuck = TRUE]
         ELSE IF left <= GUARD1STORAGEFULL /\ s.STORAGEFULL # "NIL" THEN [s EXCEPT !.STORAGEFULL = "0"]
         ELSE IF s.STORAGEFULL = "NIL" THEN [s EXCEPT !.STORAGEFULL = "T", !.pending = TRUE]
         ELSE s
    [] s.STORAGEFULLSTATE = "SWITCHABLE" /\ npages = 0 ->
         IF left > 0 THEN s
         ELSE advance_storagestate([s EXCEPT !.leastMDS = s.nextArray, !.nextMDS = s.secondMDS,
                                             !.nextArray = SecondArrayPage], "FULLYSWITCHED")
    [] s.STORAGEFULLSTATE = "SWITCHABLE" /\ npages # 0 ->
         IF left < 0 \/ npages <= left THEN s
         ELSE advance_storagestate([s EXCEPT !.leastMDS = s.nextArray,
                                             !.nextArray = SecondArrayPage], "ARRAYSWITCHED")
    [] s.STORAGEFULLSTATE = "ARRAYSWITCHED" ->
         IF s.nextMDS >= s.leastMDS THEN s
         ELSE advance_storagestate([s EXCEPT !.nextMDS = s.secondMDS], "FULLYSWITCHED")

TakeMDS(s) ==
  newpage(newpage([s EXCEPT !.nextMDS = @ - PAGESPER_MDSUNIT], s.nextMDS), s.nextMDS + 1)

\* The first check that matters sets the state.  It conses, and when no cons
\* cell is free that takes a pair of pages in the middle of the check, with a
\* check of its own.
set_storage_state(s, nocell) ==
  LET set == [s EXCEPT !.STORAGEFULLSTATE = IF s.size = "small" THEN "NOTSWITCHABLE" ELSE "SWITCHABLE"]
      in  == IF PagesLeft(set) < GUARDSTORAGEFULL THEN StorageSwitch(set, PagesLeft(set), 0) ELSE set
      got == IF nocell /\ ~in.stuck THEN TakeMDS(in) ELSE IF nocell THEN in ELSE set
  IN  [got EXCEPT !.cachevar = ~got.stuck]

\* The room left is read before set_storage_state and used after it.
checkfor_storagefull(s, npages, nocell) ==
  LET left == PagesLeft(s)
      set  == IF s.STORAGEFULLSTATE = "NIL" THEN set_storage_state(s, nocell) ELSE s
  IN  IF left >= GUARDSTORAGEFULL /\ npages = 0 THEN s
      ELSE IF set.stuck THEN set
      ELSE StorageSwitch(set, left, npages)

\* With the interface page or the table in file order nothing goes on: the next
\* use of either goes astray.
Sane == swapped \cap (TablePages \cup {IFPAGE_PAGE}) = {}
Running == up /\ save.at = "idle" /\ ~w.stuck /\ Sane
Room == w.nactive + 8 <= MaxActive
OnlyFiles == UNCHANGED <<up, swapped, disk, save, result, saved, faults>>

\* When the check sets the state, no cell may be free.
NoCell(npages) ==
  /\ w.STORAGEFULLSTATE = "NIL" /\ (npages # 0 \/ PagesLeft(w) < GUARDSTORAGEFULL)
  /\ PagesLeft(w) > 0 \/ "nocell" \in Faults

\* The list of free MDS pages is empty: the emulator never puts one there.
alloc_mdspage(nocell) ==
  /\ Running /\ Room /\ owed = 0
  /\ nocell => NoCell(0)
  /\ LET c == checkfor_storagefull(w, 0, nocell)
     IN  w' = IF c.stuck THEN c ELSE TakeMDS(c)
  /\ OnlyFiles /\ UNCHANGED owed

\* Lisp's array allocator makes the check of checkfor_storagefull, which answers
\* nothing, and takes the pages that it wants if they are free: below the MDS
\* pages of the region that arrays are in, the first of which nothing checks.
ArrayPagesFit(s, npages) ==
  s.nextArray + npages <= IF s.STORAGEFULLSTATE = "ARRAYSWITCHED" THEN s.secondMDS
                          ELSE s.nextMDS + PAGESPER_MDSUNIT
GrowArray(npages, nocell) ==
  /\ Running /\ Room /\ owed = 0
  /\ nocell => NoCell(npages)
  /\ w' = checkfor_storagefull(w, npages, nocell)
  /\ owed' = IF ~w'.stuck /\ ArrayPagesFit(w', npages) THEN npages ELSE 0
  /\ OnlyFiles
NewArrayPage ==
  /\ Running /\ Room /\ owed > 0
  /\ w' = newpage([w EXCEPT !.nextArray = @ + 1], w.nextArray)
  /\ owed' = owed - 1
  /\ OnlyFiles

\* The stack, the overflow table and others outside the two regions grow.
NewSystemPage ==
  /\ Running /\ Room /\ owed = 0
  /\ \E vp \in SystemPages \ w.made : w' = newpage(w, vp)
  /\ OnlyFiles /\ UNCHANGED owed

(***************************************************************************)
(* vmem_save.                                                              *)
(***************************************************************************)
At(step) == up /\ save.at = step
Return(r) == save' = Idle /\ result' = r
Step(step, i) == save' = [at |-> step, i |-> i] /\ UNCHANGED result
Goto(step, i) == Step(step, i) /\ UNCHANGED faults
Fault(kind) == kind \in Faults /\ faults < MaxFaults /\ faults' = faults + 1

\* A call that may take long: it can fail, with its error code, or be ended by
\* SIGALRM, whose handler jumps back to the SETJMP.
Fails(code) ==
  \/ Fault("fail") /\ Return(code)
  \/ Fault("alarm") /\ Return("FILETIMEOUT")

\* The name may be bad, or no home directory be known.
vmem_save0 ==
  /\ up /\ save.at = "idle" /\ Sane /\ owed = 0 /\ saved < MaxSaves
  /\ saved' = saved + 1
  /\ \/ Goto("open", 0)
     \/ Fault("fail") /\ \E r \in {"BADFILENAME", "FILETIMEOUT"} : Return(r)
  /\ UNCHANGED <<w, owed, up, swapped, disk>>

\* The image is opened and closed again, to see whether it may be written.
SaveOpen ==
  /\ At("open")
  /\ Goto("truncate", 0) \/ Fails("FILECANNOTOPEN")
  /\ UNCHANGED <<w, owed, up, swapped, disk, saved>>

\* The temporary file is emptied, and the world made ready: a NOTSWITCHABLE
\* image may be loaded into a larger process.
ReadyToSave(s) ==
  IF s.STORAGEFULLSTATE = "NOTSWITCHABLE"
  THEN [s EXCEPT !.STORAGEFULLSTATE = "NIL", !.storagefullstate = "NIL"]
  ELSE [s EXCEPT !.storagefullstate = s.STORAGEFULLSTATE]
\* Variant of SaveTruncate: the old image is removed before the new one is written.
SaveTruncateEarly ==
  /\ At("truncate")
  /\ w' = ReadyToSave(w)
  /\ disk' = [img |-> NoFile, tmp |-> [pages |-> << >>, there |-> TRUE, world |-> w', lost |-> {}]]
  /\ Goto("pages", 1)
  /\ UNCHANGED <<owed, up, swapped, saved>>

SaveTruncate ==
  /\ At("truncate")
  /\ \/ /\ w' = ReadyToSave(w)
        /\ disk' = [disk EXCEPT !.tmp = [pages |-> << >>, there |-> TRUE, world |-> w', lost |-> {}]]
        /\ Goto("pages", 1)
     \/ UNCHANGED <<w, disk>> /\ Fails("FILECANNOTOPEN")
  /\ UNCHANGED <<owed, up, swapped, saved>>

\* The run of pages that lie together both in the file and in memory.
RunEnd(i) ==
  CHOOSE e \in i..w.nactive :
    /\ \A k \in i..e : w.fptovp[k] = w.fptovp[i] + (k - i)
    /\ e = w.nactive \/ w.fptovp[e + 1] # w.fptovp[i] + (e + 1 - i)

\* word_swap_page: what is in file order comes back into memory order.
Swap(pages) == (swapped \cup pages) \ (swapped \cap pages)

\* What is in the file when the pages from file page i to p are written, and those
\* from there to q, but not in their places.  A page that is in file order already
\* is swapped into something else.
Written(f, i, p, q) ==
  LET last == IF Len(f.pages) > q THEN Len(f.pages) ELSE q
  IN  IF q < i THEN f
      ELSE [f EXCEPT !.pages = [k \in 1..last |->
              IF k \in i..p /\ w.fptovp[k] \notin swapped THEN w.fptovp[k]
              ELSE IF k \in 1..Len(f.pages) \ (i..q) THEN f.pages[k] ELSE Hole]]

\* The write()s for the run from i to e; gone are those of its pages that went
\* wrong unnoticed, as do all that were in file order before.
Run(i, e) == {w.fptovp[k] : k \in i..e}
Put(i, e, p, q, gone) ==
  LET g == Written(disk.tmp, i, p, q)
  IN  disk' = [disk EXCEPT !.tmp = [g EXCEPT !.lost = g.lost \cup gone \cup (Run(i, e) \cap swapped)]]

\* What follows the write() of a run that page p + 1 was to be in: each takes
\* MaxPages, the last one the rest.
Rest(i, e, p) ==
  LET end == i - 1 + ((p - i + 1) \div MaxPages + 1) * MaxPages
  IN  IF end < e THEN e - end ELSE 0

\* One run, of whose calls at most one goes wrong.  Only -1 is an error: what a
\* short write leaves out is never written, and the rest of the run follows in its
\* place.  A write that fails leaves the run swapped unless it is the last one;
\* SIGALRM always does, but for the lseek.
SavePages ==
  /\ At("pages") /\ save.i <= w.nactive
  /\ IF w.fptovp[save.i] = Hole
     THEN Goto("pages", save.i + 1) /\ UNCHANGED <<swapped, disk>>
     ELSE LET i == save.i
              e == RunEnd(i)
          IN  \/ Put(i, e, e, e, {}) /\ Goto("pages", e + 1) /\ UNCHANGED swapped
              \/ /\ Fault("short")
                 /\ \E p \in i - 1..e - 1 : Put(i, e, p, p + Rest(i, e, p), Run(p + 1, e))
                 /\ Step("pages", e + 1) /\ UNCHANGED swapped
              \/ /\ Fault("fail")
                 /\ \E p \in {j \in i - 1..e - 1 : (j - i + 1) % MaxPages = 0} :
                       /\ Put(i, e, p, p, {})
                       /\ swapped' = IF e - p > MaxPages THEN Swap(Run(i, e)) ELSE swapped
                 /\ \E r \in {"NOFILESPACE", "FILECANNOTWRITE"} : Return(r)
              \/ /\ Fault("alarm") /\ \E p \in i - 1..e : Put(i, e, p, p, {})
                 /\ swapped' = Swap(Run(i, e)) /\ Return("FILETIMEOUT")
              \/ UNCHANGED <<disk, swapped>> /\ Fails("FILECANNOTSEEK")
  /\ UNCHANGED <<w, owed, up, saved>>

\* The interface page is written again.  What a short write leaves out of it is in
\* the file already.
SaveIFPage ==
  /\ At("pages") /\ save.i > w.nactive
  /\ LET Again == disk' = [disk EXCEPT !.tmp = Written(@, IFPAGE_AT, IFPAGE_AT, IFPAGE_AT)]
     IN  \/ Again /\ Goto("close", 0) /\ UNCHANGED swapped
         \/ Fault("short") /\ Step("close", 0) /\ UNCHANGED <<disk, swapped>>
         \/ Fails("FILECANNOTSEEK") /\ UNCHANGED <<disk, swapped>>
         \/ /\ Fault("fail") /\ UNCHANGED <<disk, swapped>>
            /\ \E r \in {"NOFILESPACE", "FILECANNOTWRITE"} : Return(r)
         \/ /\ Fault("alarm") /\ (Again \/ UNCHANGED disk)
            /\ swapped' = Swap({IFPAGE_PAGE}) /\ Return("FILETIMEOUT")
  /\ UNCHANGED <<w, owed, up, saved>>

SaveClose ==
  /\ At("close")
  /\ Goto("unlink", 0) \/ Fails("FILECANNOTWRITE")
  /\ UNCHANGED <<w, owed, up, swapped, disk, saved>>

\* No such file is no error.
SaveUnlink ==
  /\ At("unlink")
  /\ \/ disk' = [disk EXCEPT !.img = NoFile] /\ Goto("rename", 0)
     \/ UNCHANGED disk /\ Fails("FILECANNOTOPEN")
  /\ UNCHANGED <<w, owed, up, swapped, saved>>

SaveRename ==
  /\ At("rename")
  /\ \/ disk' = [img |-> disk.tmp, tmp |-> NoFile] /\ Return("NIL") /\ UNCHANGED faults
     \/ UNCHANGED disk /\ Fails("FILECANNOTWRITE")
  /\ UNCHANGED <<w, owed, up, swapped, saved>>

\* lisp_finish, or the process dies: only the files are left
\* (what w holds then means nothing).
Exit ==
  /\ up
  /\ IF save.at = "idle" THEN UNCHANGED faults ELSE Fault("crash")
  /\ up' = FALSE /\ save' = Idle /\ swapped' = {} /\ w' = InitialWorld /\ owed' = 0
  /\ UNCHANGED <<disk, result, saved>>

(***************************************************************************)
(* sysout_loader, init_ifpage and init_storage.                            *)
(***************************************************************************)
\* What the loader finds in the file as entry k of FPtoVP: it reads the table
\* as one piece from file page fptovpstart on.
EntryRead(f, k) ==
  LET page == k \div EntriesPerPage
      fp   == f.world.fptovpstart + page
  IN  IF fp <= Len(f.pages) /\ f.pages[fp] = FPTOVP_PAGE + page THEN f.world.fptovp[k] ELSE Hole

\* Variant of Accepts: the number of pages is not checked.
AcceptsAnySize(f) ==
  f.there /\ IFPAGE_AT <= Len(f.pages) /\ f.pages[IFPAGE_AT] = IFPAGE_PAGE

\* What the loader checks: the key, and the number of pages.
Accepts(f) ==
  /\ f.there
  /\ IFPAGE_AT <= Len(f.pages) /\ f.pages[IFPAGE_AT] = IFPAGE_PAGE
  /\ f.world.nactive = Len(f.pages)

\* The pages that come back: the last file page that claims a page decides.
Restored(f) ==
  {vp \in f.world.made : \E k \in 1..Len(f.pages) :
     /\ f.pages[k] = vp /\ EntryRead(f, k) = vp
     /\ \A j \in k + 1..Len(f.pages) : EntryRead(f, j) # vp}

\* A process size may be given; in the second region it must stay what it was.
MayHaveSize(s, size) == s.storagefullstate \in {"ARRAYSWITCHED", "FULLYSWITCHED"} => s.size = size

init_ifpage(s, size) ==
  [s EXCEPT !.size = size, !.lastvmempage = LastPage[size], !.STORAGEFULL = "NIL"]
init_storage(s) == [s EXCEPT !.secondMDS = s.lastvmempage - PAGESPER_MDSUNIT - 1]

\* Lisp clears the variables in SYSTEMCACHEVARS when it starts.
LispStarts(s) ==
  [s EXCEPT !.STORAGEFULLSTATE = IF s.cachevar THEN "NIL" ELSE @, !.cachevar = FALSE]

\* Starting with damaged pages is not followed further.
Load ==
  /\ ~up
  /\ \E name \in {"img", "tmp"}, size \in Sizes :
       LET f == disk[name] IN
       /\ Accepts(f) /\ MayHaveSize(f.world, size)
       /\ Restored(f) = f.world.made
       /\ \A vp \in f.world.made : vp <= LastPage[size]
       /\ w' = LispStarts(init_storage(init_ifpage(f.world, size)))
  /\ up' = TRUE
  /\ UNCHANGED <<owed, swapped, disk, save, result, saved, faults>>

Next ==
  \/ \E nocell \in BOOLEAN : alloc_mdspage(nocell)
  \/ \E npages \in ArrayRequests, nocell \in BOOLEAN : GrowArray(npages, nocell)
  \/ NewArrayPage \/ NewSystemPage
  \/ vmem_save0 \/ SaveOpen \/ SaveTruncate \/ SavePages \/ SaveIFPage \/ SaveClose \/ SaveUnlink \/ SaveRename
  \/ Exit \/ Load

Spec == Init /\ [][Next]_vars

(***************************************************************************)
(* Properties.                                                             *)
(***************************************************************************)
\* Every page that was made has exactly one place in the image file, and none
\* was made twice, whatever regions were switched and images reloaded between
\* (newpage, checkfor_storagefull, vmem_save).
PagesAccounted ==
  /\ ~w.twice
  /\ Len(w.fptovp) = w.nactive
  /\ \A vp \in w.made : Cardinality({k \in 1..w.nactive : w.fptovp[k] = vp}) = 1

\* An image holds what was in memory.
Complete(f) == f.there /\ Accepts(f) /\ Restored(f) = f.world.made

\* The pages that cannot come back from an image: those that went wrong, and those
\* whose entry lies in a page of the table that did.
Damaged(f) ==
  f.lost \cup {f.world.fptovp[k] : k \in {j \in 1..f.world.nactive :
                                            FPTOVP_PAGE + j \div EntriesPerPage \in f.lost}}

\* An image that the loader takes holds every page, save those that a short write
\* left out or that an earlier save had left in file order: what an error, a timeout
\* or a crash has cut short is refused (sysout_loader's checks, the order in which
\* vmem_save writes).
LoaderRefusesTorn ==
  \A name \in {"img", "tmp"} :
    LET f == disk[name] IN Accepts(f) => f.world.made \ Restored(f) \subseteq Damaged(f)

\* Once there is a complete image under one of the two names there always is
\* one, whatever fails, but for two ways to lose it: a temporary file is emptied by
\* the next save although the image under its proper name is gone or torn, and the
\* old image is removed for a new one in which pages went wrong unnoticed
\* (vmem_save: temporary file, unlink, rename).
ImageSurvives ==
  [][~Complete(disk'.img) /\ ~Complete(disk'.tmp)
     => \/ ~Complete(disk.img) /\ (~Complete(disk.tmp) \/ save.at = "truncate")
        \/ disk.tmp.lost # {} /\ save.at = "unlink"]_disk

\* When vmem_save returns NIL, the image under its proper name is complete
\* (vmem_save, its head comment).  A short write breaks it.
NilMeansSaved ==
  [][SaveRename /\ result' = "NIL" => Complete(disk'.img)]_vars
=============================================================================
