----------------------------- MODULE DiskFiles -----------------------------
(* The DSK file device of src/dsk.c on a Unix host.  A family FOO of Lisp    *)
(* versions is kept as the entries FOO.~1~, FOO.~2~, ... of one directory,  *)
(* with the versionless name FOO a hard link to the newest.  Every call that *)
(* changes the directory may fail, and other programs change it between two  *)
(* operations.  Also the version part of the directory listing of src/dir.c. *)
EXTENDS Naturals, Sequences, FiniteSets, FiniteSetsExt, SequencesExt

CONSTANTS Family,     \* file names without version, all in one directory
          None,       \* no file
          NumInodes,  \* files that can exist at once
          MaxVersion, \* bound on version numbers
          Faults      \* what may go wrong: subset of {"call", "opendir", "tick"}

ASSUME FilesAssumption ==
    /\ NumInodes \in Nat \ {0} /\ MaxVersion \in Nat \ {0}
    /\ Faults \subseteq {"call", "opendir", "tick"}
    /\ None \notin 1..NumInodes
    /\ IsFiniteSet(Family) /\ None \notin Family

VARIABLES ent,     \* the directory: name -> inode or None
          va,      \* VA, the cached version array
          settled, \* history: families left in order by the last operations
          hit,     \* the inode the last operation wrote into, or None
          actor    \* who took the last step: "lisp" or "host"

vars == <<ent, va, settled, hit, actor>>

Inode == 1..NumInodes
Version == 0..MaxVersion      \* 0: the versionless name
Name == Family \X Version
Unspec == 0                   \* a Lisp name without version
Fail == <<None, 0>>           \* no file recognized
AllCalls == 9                 \* no operation changes the directory more often
Recog == {"OLD", "OLDEST", "NEW", "OLD_NEW"}
Access == {"INPUT", "OUTPUT", "BOTH"}

(***************************************************************************)
(* The host's calls.  An operation runs on a record s of the directory and  *)
(* the cache; s.left counts the changing calls that still succeed, s.ticks   *)
(* those that still move the directory's time stamp, s.od says that the next *)
(* opendir fails.  Once a call has failed (s.ok FALSE) nothing more happens. *)
(***************************************************************************)
Change(s, e) ==
    IF ~s.ok THEN s
    ELSE IF s.left = 0 THEN [s EXCEPT !.ok = FALSE]
    ELSE [s EXCEPT !.ent = e, !.left = @ - 1,
                   !.ticks = IF @ = 0 THEN 0 ELSE @ - 1,
                   !.va.fresh = @ /\ s.ticks = 0]

Error(s) == [s EXCEPT !.ok = FALSE]

unlink(s, n) == IF s.ent[n] = None THEN Error(s)
                ELSE Change(s, [s.ent EXCEPT ![n] = None])

link(s, n, m) == IF s.ent[n] = None \/ s.ent[m] # None THEN Error(s)
                 ELSE Change(s, [s.ent EXCEPT ![m] = s.ent[n]])

\* Renaming a name onto another name of the same file does nothing.
rename(s, n, m) ==
    IF s.ent[n] = None THEN Error(s)
    ELSE IF s.ent[n] = s.ent[m] THEN Change(s, s.ent)
    ELSE Change(s, [s.ent EXCEPT ![m] = s.ent[n], ![n] = None])

Links(e, i) == Cardinality({n \in Name : e[n] = i})
FreeInodes(e) == {i \in Inode : Links(e, i) = 0}

(***************************************************************************)
(* The version array.                                                      *)
(***************************************************************************)
\* Variant of CacheHit: the name is not compared.
CacheHitOtherName(s, f) == s.va.fresh

\* The key of the cache, the name and the directory's time stamp, still fits.
CacheHit(s, f) == s.va.key = f /\ s.va.fresh

\* get_version_array: read the directory.  The key is set before the directory
\* is opened (od: opendir will fail).
get_version_array(s, f) ==
    IF ~s.ok \/ CacheHit(s, f) THEN s
    ELSE IF s.od
    THEN [s EXCEPT !.va.key = f, !.va.fresh = TRUE, !.od = FALSE, !.ok = FALSE]
    ELSE [s EXCEPT !.va = [key |-> f, of |-> f, fresh |-> TRUE,
                           files |-> {v \in Version : s.ent[<<f, v>>] # None}]]

Vless(s) == <<s.va.of, 0>>
FindHighestVersion(s) == Max(s.va.files)
FindLowestVersion(s) == Min(s.va.files \ {0})
Highest(s) == <<s.va.of, FindHighestVersion(s)>>

FindSpecifiedVersion(s, v, otherwise) ==
    IF v \in s.va.files THEN <<s.va.of, v>> ELSE otherwise

\* The entries of the array that are the versionless file, by stat().
Linked(s) == {v \in s.va.files \ {0} : s.ent[<<s.va.of, v>>] = s.ent[Vless(s)]}

\* check_vless_link: is the versionless file one of the versions?  It fails
\* when the array names an entry that is no longer there.
check_vless_link(s) ==
    IF s.ent[Vless(s)] = None THEN "error"
    ELSE IF Links(s.ent, s.ent[Vless(s)]) = 1 THEN "loose"
    ELSE IF \E v \in s.va.files \ {0} : /\ s.ent[<<s.va.of, v>>] = None
                                        /\ \A w \in Linked(s) : w < v
    THEN "error"
    ELSE IF Linked(s) = {} THEN "loose" ELSE "linked"

\* The five situations that every operation tells apart.
VlessCase(s) ==
    IF s.va.files = {} THEN "none"
    ELSE IF 0 \notin s.va.files THEN "noVless"
    ELSE IF s.va.files = {0} THEN "onlyVless"
    ELSE check_vless_link(s)

(***************************************************************************)
(* Recognition: the directory entry that a Lisp name stands for.           *)
(***************************************************************************)
get_old(s, f, v) ==
    LET k == VlessCase(s)
    IN  CASE k \in {"none", "error"} -> Fail
          [] k = "onlyVless" -> IF v \in {Unspec, 1} THEN Vless(s) ELSE Fail
          [] k = "loose" -> IF v \in {Unspec, FindHighestVersion(s) + 1}
                            THEN Vless(s) ELSE FindSpecifiedVersion(s, v, Fail)
          [] OTHER -> IF v = Unspec THEN Highest(s)
                      ELSE FindSpecifiedVersion(s, v, Fail)

get_oldest(s, f, v) ==
    LET k == VlessCase(s)
    IN  CASE k \in {"none", "error"} -> Fail
          [] k = "onlyVless" -> IF v \in {Unspec, 1} THEN Vless(s) ELSE Fail
          [] k = "loose" /\ v = FindHighestVersion(s) + 1 -> Vless(s)
          [] OTHER -> IF v = Unspec THEN <<s.va.of, FindLowestVersion(s)>>
                      ELSE FindSpecifiedVersion(s, v, Fail)

\* A version that does not exist is recognized as it stands.
get_new(s, f, v) ==
    LET k    == VlessCase(s)
        asIs == <<s.va.of, v>>
    IN  CASE k = "error" -> Fail
          [] k = "none" -> IF v \in {Unspec, 1} THEN <<f, 0>> ELSE <<f, v>>
          [] k = "onlyVless" -> IF v = Unspec THEN <<s.va.of, 2>>
                                ELSE IF v = 1 THEN Vless(s) ELSE <<f, v>>
          [] k = "loose" -> IF v = Unspec
                            THEN <<s.va.of, FindHighestVersion(s) + 2>>
                            ELSE IF v = FindHighestVersion(s) + 1 THEN Vless(s)
                            ELSE FindSpecifiedVersion(s, v, asIs)
          [] OTHER -> IF v = Unspec THEN <<s.va.of, FindHighestVersion(s) + 1>>
                      ELSE FindSpecifiedVersion(s, v, asIs)

get_old_new(s, f, v) ==
    LET k    == VlessCase(s)
        asIs == <<s.va.of, v>>
    IN  CASE k = "error" -> Fail
          [] k = "none" -> IF v \in {Unspec, 1} THEN <<f, 0>> ELSE <<f, v>>
          [] k = "onlyVless" -> IF v \in {Unspec, 1} THEN Vless(s) ELSE <<f, v>>
          [] k = "loose" -> IF v \in {Unspec, FindHighestVersion(s) + 1}
                            THEN Vless(s) ELSE FindSpecifiedVersion(s, v, asIs)
          [] OTHER -> IF v = Unspec THEN Highest(s)
                      ELSE FindSpecifiedVersion(s, v, asIs)

Recognize(s, recog, f, v) ==
    CASE recog = "OLD" -> get_old(s, f, v)
      [] recog = "OLDEST" -> get_oldest(s, f, v)
      [] recog = "NEW" -> get_new(s, f, v)
      [] recog = "OLD_NEW" -> get_old_new(s, f, v)

\* No name above MaxVersion: operations that would need one are not explored.
InBounds(n) == n[2] <= MaxVersion

(***************************************************************************)
(* maintain_version: number a loose versionless file, and make the           *)
(* versionless name a link to the highest version.                          *)
(***************************************************************************)
\* Variant of Relink: a link to an old version is kept.
RelinkNever(s) == s

Relink(s) == IF FindHighestVersion(s) \in Linked(s) THEN s
             ELSE link(unlink(s, Vless(s)), Highest(s), Vless(s))

Maintain(s, k, forcep) ==
    LET top == FindHighestVersion(s)
    IN  IF ~s.ok THEN s
        ELSE CASE k = "none" -> s
               [] k = "error" -> Error(s)
               [] k = "onlyVless" -> IF forcep THEN link(s, Vless(s), <<s.va.of, 1>>)
                                     ELSE s
               [] k = "noVless" -> link(s, Highest(s), Vless(s))
               [] k = "loose" -> link(s, Vless(s), <<s.va.of, top + 1>>)
               [] k = "linked" -> Relink(s)

maintain_version(s0, f, forcep) ==
    LET s == get_version_array(s0, f)
    IN  Maintain(s, VlessCase(s), forcep)

(***************************************************************************)
(* The operations.                                                         *)
(***************************************************************************)
\* The ways an operation can go: with every call that it makes succeeding, or
\* with one of them failing (left).
Start == [ent |-> ent, va |-> va, ok |-> TRUE, hit |-> None, room |-> TRUE,
          orders |-> {}, left |-> AllCalls, ticks |-> AllCalls, od |-> FALSE]

Starts(op(_)) ==
    LET calls == AllCalls - op(Start).left
    IN  [ent : {ent}, va : {va}, ok : {TRUE}, hit : {None}, room : {TRUE}, orders : {{}},
         left : IF "call" \in Faults THEN 0..calls ELSE {AllCalls},
         ticks : IF "tick" \in Faults THEN {0, 1, AllCalls} ELSE {AllCalls},
         od : IF "opendir" \in Faults /\ va.of # None THEN BOOLEAN ELSE {FALSE}]

\* open(): a new file, or an old one emptied (O_TRUNC) or left as it is.
open(s, n, access) ==
    IF ~s.ok THEN s
    ELSE IF s.left = 0 THEN Error(s)
    ELSE IF s.ent[n] = None
    THEN LET i == Min(FreeInodes(s.ent))
         IN  [Change(s, [s.ent EXCEPT ![n] = i]) EXCEPT !.hit = i]
    ELSE IF access = "OUTPUT" THEN [s EXCEPT !.left = @ - 1, !.hit = s.ent[n]]
    ELSE s

\* COM_openfile.  Only the recognitions that may create a file check links.
openEntry(s, n, recog, access) ==
    LET create == recog \in {"NEW", "OLD_NEW"} /\ access # "INPUT"
        exists == s.ent[n] # None
        before == IF create /\ ~exists THEN maintain_version(s, n[1], TRUE) ELSE s
    IN  IF ~s.ok \/ n = Fail THEN Error(s)
        ELSE IF ~InBounds(n) THEN [s EXCEPT !.room = FALSE]
        ELSE IF create THEN [maintain_version(open(before, n, access), n[1], FALSE) EXCEPT !.orders = {n[1]}]
        ELSE IF exists THEN open(s, n, access) ELSE Error(s)

openfile(s0, f, v, recog, access) ==
    LET s == get_version_array(s0, f)
    IN  openEntry(s, Recognize(s, recog, f, v), recog, access)

\* Variant of UnlinkBoth: the version goes first.
UnlinkBothBackwards(s, to) == unlink(unlink(s, to), Vless(s))

\* Both names of the newest version go, the versionless one first.
UnlinkBoth(s, to) == unlink(unlink(s, Vless(s)), to)

\* DSK_deletefile: the oldest version unless one is named.  A versionless
\* file that is the deleted version goes with it.
deletefile(s0, f, v) ==
    LET s1   == get_version_array(s0, f)
        n    == get_oldest(s1, f, v)
        k    == IF 0 \in s1.va.files THEN check_vless_link(s1) ELSE "noVless"
        to   == <<s1.va.of, Max(Linked(s1))>>
    IN  IF ~s1.ok \/ n = Fail \/ k = "error" THEN Error(s1)
        ELSE IF k = "linked" /\ n \in {Vless(s1), to}
        THEN maintain_version(UnlinkBoth(s1, to), s1.va.of, FALSE)
        ELSE unlink(s1, n)

\* DSK_renamefile, the destination: it is put in order, its entry found, and a
\* lone versionless file made version 1 or the link to the entry taken away.
ClearWay(s, dst, k) ==
    IF ~s.ok \/ dst = Fail THEN Error(s)
    ELSE CASE k = "onlyVless" /\ dst # Vless(s) -> rename(s, Vless(s), <<s.va.of, 1>>)
           [] k = "linked" /\ dst = <<s.va.of, Max(Linked(s))>> -> unlink(s, Vless(s))
           [] OTHER -> s

renameTo(s, g, w) ==
    LET dst == get_new(s, g, w)
    IN  [s |-> ClearWay(s, dst, VlessCase(s)), dst |-> dst]

\* The source is detached from its versionless name and renamed, and both
\* families are put in order.
MoveEntry(s, src, dst, lnk) ==
    LET moved   == rename(IF lnk THEN unlink(s, Vless(s)) ELSE s, src, dst)
        ordered == maintain_version(moved, dst[1], FALSE)
    IN  [IF lnk THEN maintain_version(ordered, src[1], FALSE) ELSE ordered EXCEPT !.orders = {dst[1]}]

renameFrom(s, f, v, dst) ==
    LET src == get_old(s, f, v)
    IN  IF ~s.ok THEN s
        ELSE IF ~InBounds(dst) THEN [s EXCEPT !.room = FALSE]
        ELSE IF src = Fail THEN Error(s)
        ELSE MoveEntry(s, src, dst, VlessCase(s) = "linked" /\ src = <<s.va.of, Max(Linked(s))>>)

renamefile(s0, f, v, g, w) ==
    LET to == renameTo(get_version_array(maintain_version(s0, g, FALSE), g), g, w)
    IN  renameFrom(get_version_array(to.s, f), f, v, to.dst)

\* What an operation leaves behind.  A family is settled by an operation that
\* puts its versions in order, and no longer when one stops half way.
Done(s, touches) ==
    /\ s.room
    /\ ent' = s.ent
    /\ va' = s.va
    /\ hit' = s.hit
    /\ actor' = "lisp"
    /\ settled' = IF s.ok THEN settled \cup s.orders
                  ELSE IF s.ent = ent THEN settled ELSE settled \ touches

COM_openfile(f, v, recog, access) ==
    /\ ~(recog = "NEW" /\ access = "INPUT")
    /\ FreeInodes(ent) # {}
    /\ \E s0 \in Starts(LAMBDA s : openfile(s, f, v, recog, access)) :
          Done(openfile(s0, f, v, recog, access), {f, s0.va.of})

\* DSK_getfilename and COM_getfileinfo: recognition and stat() change nothing
\* but the version array.
DSK_getfilename(f) ==
    \E s0 \in Starts(LAMBDA s : get_version_array(s, f)) :
       Done(get_version_array(s0, f), {})

COM_getfileinfo(f) == DSK_getfilename(f)

\* COM_setfileinfo: the date or the protection of the newest or the named file.
setfileinfo(s0, f, v) ==
    LET s == get_version_array(s0, f)
        n == get_old(s, f, v)
    IN  IF ~s.ok \/ n = Fail \/ s.left = 0 THEN Error(s)
        ELSE [s EXCEPT !.left = @ - 1, !.hit = s.ent[n]]

COM_setfileinfo(f, v) ==
    \E s0 \in Starts(LAMBDA s : setfileinfo(s, f, v)) :
       Done(setfileinfo(s0, f, v), {})

DSK_deletefile(f, v) ==
    \E s0 \in Starts(LAMBDA s : deletefile(s, f, v)) :
       Done(deletefile(s0, f, v), {f, s0.va.of})

DSK_renamefile(f, v, g, w) ==
    \E s0 \in Starts(LAMBDA s : renamefile(s, f, v, g, w)) :
       Done(renamefile(s0, f, v, g, w), {f, g})

(***************************************************************************)
(* Other programs.                                                         *)
(***************************************************************************)
\* (The bound leaves room for the number of a loose file.)
HostChange(e, f) ==
    /\ e[<<f, MaxVersion>>] # None => e[<<f, 0>>] \in {None, e[<<f, MaxVersion>>]}
    /\ ent' = e
    /\ va' = [va EXCEPT !.fresh = FALSE]
    /\ settled' = settled \ {f}
    /\ hit' = None
    /\ actor' = "host"

Numbers(f) == {v \in 1..MaxVersion : ent[<<f, v>>] # None}

\* An editor saves the versionless name: a new file takes it over.
HostSave(f) ==
    /\ FreeInodes(ent) # {}
    /\ HostChange([ent EXCEPT ![<<f, 0>>] = Min(FreeInodes(ent))], f)

\* A user removes one name.
HostRemove(f, v) ==
    /\ ent[<<f, v>>] # None
    /\ HostChange([ent EXCEPT ![<<f, v>>] = None], f)

Init == /\ ent = [n \in Name |-> None]
        /\ va = [key |-> None, of |-> None, files |-> {}, fresh |-> FALSE]
        /\ settled = Family
        /\ hit = None
        /\ actor = "lisp"

Next == \/ \E f \in Family, v \in Version, r \in Recog, a \in Access :
              COM_openfile(f, v, r, a)
        \/ \E f \in Family : DSK_getfilename(f) \/ COM_getfileinfo(f)
        \/ \E f \in Family, v \in Version : COM_setfileinfo(f, v)
        \/ \E f \in Family, v \in Version : DSK_deletefile(f, v)
        \/ \E f, g \in Family, v, w \in Version : DSK_renamefile(f, v, g, w)
        \/ \E f \in Family : HostSave(f)
        \/ \E f \in Family, v \in Version : HostRemove(f, v)

Spec == Init /\ [][Next]_vars

(***************************************************************************)
(* Directory listing (src/dir.c).  A listing is sorted by name and, within  *)
(* a family, versionless first and then from the highest version down; each *)
(* member is <<family, entry, version shown to Lisp>>.                      *)
(***************************************************************************)
dsk_filecmp(v, w) == v = 0 \/ (w # 0 /\ v > w)

\* enum_dsk and file_sort for one family.
FinfoGroup(f) ==
    LET es == SetToSortSeq({v \in Version : ent[<<f, v>>] # None}, dsk_filecmp)
    IN  [j \in DOMAIN es |-> <<f, es[j], es[j]>>]

\* Variant of LinkedInGroup: only the next member is compared.
LinkedToNext(g) == ent[<<g[2][1], g[2][2]>>] = ent[<<g[1][1], g[1][2]>>]

\* The versionless member is the same file as a member behind it.
LinkedInGroup(g) == \E j \in 2..Len(g) :
                       ent[<<g[j][1], g[j][2]>>] = ent[<<g[1][1], g[1][2]>>]

Show(m, v) == <<m[1], m[2], v>>

\* Each trim_ function works on the group g of one family, given the list and
\* the counts of the groups before it: num is what it will return, pnum the
\* members kept so far.
Keep(acc, ms) == [acc EXCEPT !.list = @ \o ms, !.pnum = acc.pnum + Len(ms),
                             !.num = acc.pnum + Len(ms)]

trim_finfo(acc, g) ==
    IF g[1][2] # 0 THEN Keep(acc, g)
    ELSE IF Len(g) = 1 THEN Keep(acc, <<Show(g[1], 1)>>)
    ELSE IF LinkedInGroup(g) THEN Keep(acc, Tail(g))
    ELSE Keep(acc, <<Show(g[1], g[2][2] + 1)>> \o Tail(g))

trim_finfo_highest(acc, g) ==
    IF g[1][2] # 0 THEN Keep(acc, <<g[1]>>)
    ELSE IF Len(g) = 1 THEN Keep(acc, <<Show(g[1], 1)>>)
    ELSE IF LinkedInGroup(g) THEN Keep(acc, <<g[2]>>)
    ELSE Keep(acc, <<Show(g[1], g[2][2] + 1)>>)

\* A family without the version is dropped, but num already counts all of it
\* but one; one without versionless entry is not dropped: the loop over the
\* groups never gets past it.
trim_finfo_version(acc, g, rver) ==
    LET same == {j \in DOMAIN g : g[j][2] = rver}
        drop == [acc EXCEPT !.num = @ + Len(g) - 1]
    IN  CASE acc.hangs -> acc
          [] ~acc.hangs /\ same # {} -> Keep(acc, <<g[Min(same)]>>)
          [] ~acc.hangs /\ same = {} /\ g[1][2] # 0 -> [acc EXCEPT !.hangs = TRUE]
          [] OTHER ->
               IF Len(g) = 1
               THEN IF rver = 1 THEN Keep(acc, <<Show(g[1], 1)>>) ELSE drop
               ELSE IF ~LinkedInGroup(g) /\ g[2][2] + 1 = rver
               THEN Keep(acc, <<Show(g[1], rver)>>) ELSE drop

\* The families that have entries, in the order of the listing.
Groups ==
    LET names == SetToSeq(Family)
    IN  SelectSeq([j \in DOMAIN names |-> FinfoGroup(names[j])], LAMBDA g : g # << >>)

\* COM_gen_files: all versions (version 0), the highest, or one version.
COM_gen_files(version, highestp) ==
    FoldLeft(LAMBDA acc, g : IF highestp THEN trim_finfo_highest(acc, g)
                             ELSE IF version > 0
                             THEN trim_finfo_version(acc, g, version)
                             ELSE trim_finfo(acc, g),
             [list |-> << >>, num |-> 0, pnum |-> 0, hangs |-> FALSE], Groups)

(***************************************************************************)
(* Properties.                                                             *)
(***************************************************************************)
Top(f) == Max(Numbers(f) \cup {0})

Loose(f) == /\ ent[<<f, 0>>] # None
            /\ \A v \in Numbers(f) : ent[<<f, v>>] # ent[<<f, 0>>]

\* The versions of a family as Lisp is to see them.
View(f) == [v \in Numbers(f) \cup (IF Loose(f) THEN {Top(f) + 1} ELSE {}) |->
               ent[<<f, IF v \in Numbers(f) THEN v ELSE 0>>]]

\* Once an operation that may create a file, or a rename, has gone through,
\* the versionless name of the family is its newest version, and deletions keep
\* it so, whatever other programs or failed calls had done to it before
\* (COM_openfile, DSK_renamefile, DSK_deletefile, maintain_version).  With it,
\* the types of the state.
SettledInOrder ==
    /\ ent \in [Name -> Inode \cup {None}]
    /\ va.files \subseteq Version /\ settled \subseteq Family
    /\ \A f \in settled :
          Numbers(f) # {} => ent[<<f, 0>>] = ent[<<f, Top(f)>>]

\* Recognition finds the version that was asked for and no other: the newest,
\* the oldest, the one with the number given, or for a new file one that is
\* higher than all (get_old, get_oldest, get_new, get_old_new).
RecognitionRight ==
    \A f \in Family :
       LET s    == get_version_array([ent |-> ent, va |-> va, ok |-> TRUE, od |-> FALSE], f)
           vs   == DOMAIN View(f)
           At(n) == IF n = Fail \/ ~InBounds(n) THEN None ELSE ent[n]
       IN  /\ \A v \in 1..MaxVersion :
                 \A r \in Recog :
                    At(Recognize(s, r, f, v)) = IF v \in vs THEN View(f)[v] ELSE None
           /\ vs # {} => /\ At(get_old(s, f, Unspec)) = View(f)[Max(vs)]
                         /\ At(get_old_new(s, f, Unspec)) = View(f)[Max(vs)]
                         /\ At(get_oldest(s, f, Unspec)) = View(f)[Min(vs)]
                         /\ get_new(s, f, Unspec) = <<f, Max(vs) + 1>>

\* Family, version and file: those that a listing shows, and those with property P
\* that recognition knows.
ShownVersions(l) ==
    {<<l.list[j][1], l.list[j][3], ent[<<l.list[j][1], l.list[j][2]>>]>> : j \in DOMAIN l.list}
KnownVersions(P(_, _)) ==
    UNION {{<<f, v, View(f)[v]>> : v \in {w \in DOMAIN View(f) : P(f, w)}} : f \in Family}

\* A listing of version n never ends when a family has neither an entry of that
\* version nor a versionless one.
VersionListingHangs(n) ==
    \E f \in Family : Numbers(f) # {} /\ n \notin Numbers(f) /\ ent[<<f, 0>>] = None

\* What the count of a listing of one version has too many: the entries but one of
\* each family behind the last one shown.
Surplus(l) ==
    LET last == Max({0} \cup {k \in DOMAIN Groups :
                                \E j \in DOMAIN l.list : l.list[j][1] = Groups[k][1][1]})
    IN  FoldLeft(LAMBDA n, g : n + Len(g) - 1, 0, SubSeq(Groups, last + 1, Len(Groups)))

\* A directory listing shows exactly the versions that recognition knows, with the
\* same numbers, and its count is its length, but for a listing of one version: it
\* never ends in the case above, and what it shows is right whenever it ends, but
\* its count is too high by the entries that it left out behind the last file shown
\* (COM_gen_files, trim_finfo, trim_finfo_highest, trim_finfo_version).
ListingAgrees ==
    LET all     == COM_gen_files(0, FALSE)
        highest == COM_gen_files(0, TRUE)
    IN  /\ ShownVersions(all) = KnownVersions(LAMBDA f, v : TRUE) /\ all.num = Len(all.list)
        /\ ShownVersions(highest) = KnownVersions(LAMBDA f, v : v = Max(DOMAIN View(f)))
        /\ highest.num = Len(highest.list)
        /\ \A n \in 1..MaxVersion :
              LET l == COM_gen_files(n, FALSE)
              IN  /\ l.hangs <=> VersionListingHangs(n)
                  /\ ~l.hangs => /\ ShownVersions(l) = KnownVersions(LAMBDA f, v : v = n)
                                 /\ l.num = Len(l.list) + Surplus(l)

V == INSTANCE VersionedFiles WITH files <- [f \in Family |-> View(f)],
                                  loose <- {f \in Family : Loose(f)},
                                  Contents <- Inode

\* Through any failure of a call, and whatever other programs do in between, an
\* operation of Lisp adds, writes into, deletes or moves at most the one version
\* it names: a name is never dropped while it is the last one of a file that
\* was to stay, and no version changes its number.
ImplementsVersionedFiles == V!Spec
===========================================================================
