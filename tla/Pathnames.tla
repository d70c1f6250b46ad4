----------------------------- MODULE Pathnames -----------------------------
(* File names between Lisp and Unix (src/ufs.c, src/dsk.c, src/dir.c): a Lisp *)
(* name marks its version by ";", a Unix one by ".~n~"; Lisp quotes special   *)
(* characters with an apostrophe and always has a dot before the extension.   *)
(* A name is a sequence of characters.  The state is the name under test,    *)
(* which is typed character by character.                                    *)
EXTENDS Naturals, Sequences, SequencesExt, FiniteSets, FiniteSetsExt

CONSTANTS Chars,      \* the characters tried, among them "." "'" ";" ">" "~"
          Versions,   \* the versions tried at the end of a name
          MaxLength   \* bound on the length of the names tried, without version

VARIABLE name
vars == <<name>>

Quote == "'"
Digits == {"0", "1", "2", "3", "4", "5", "6", "7", "8", "9"}
Ch(s, j) == IF j \in DOMAIN s THEN s[j] ELSE ""    \* "" ends a C string
AllDigits(s) == \A j \in DOMAIN s : s[j] \in Digits

\* Leading zeros go: strtoul() and "%u".
RECURSIVE NoZeros(_)
NoZeros(s) == IF Len(s) > 1 /\ s[1] = "0" THEN NoZeros(Tail(s)) ELSE s

\* separate_version: name and version of NAME.~n~; no version is << >>.  Names
\* with "%" and versions of more than nine digits are left out.
separate_version(s) ==
    LET tildes == {j \in DOMAIN s : s[j] = "~"}
        end    == Max(tildes)
        start  == Max(tildes \ {end})
    IN  IF /\ Cardinality(tildes) >= 2
           /\ end = Len(s)
           /\ Ch(s, start - 1) = "."
           /\ AllDigits(SubSeq(s, start + 1, end - 1)) /\ end > start + 1
        THEN [name |-> SubSeq(s, 1, start - 2),
              ver |-> NoZeros(SubSeq(s, start + 1, end - 1))]
        ELSE [name |-> s, ver |-> << >>]

conc_name_and_version(s, v) == IF v = << >> THEN s ELSE s \o <<".", "~">> \o v \o <<"~">>

(***************************************************************************)
(* From Unix to Lisp.                                                      *)
(***************************************************************************)
\* UnixVersionToLispVersion: NAME.~n~ becomes NAME;n.
UnixVersionToLispVersion(s, vlessp) ==
    LET sv == separate_version(s)
    IN  IF sv.ver # << >> THEN sv.name \o <<";">> \o sv.ver
        ELSE IF vlessp THEN s ELSE s \o <<";", "1">>


QuoteChars(s) ==
    FoldLeft(LAMBDA acc, c : IF c \in {">", ";", Quote} THEN acc \o <<Quote, c>>
                             ELSE Append(acc, c), << >>, s)

\* Skip over quoted characters, looking for a dot that is followed by
\* something: the position behind it, or the end of s.
RECURSIVE FindExtension(_, _)
FindExtension(s, j) ==
    IF j > Len(s) THEN [found |-> FALSE, at |-> j]
    ELSE IF s[j] = "." /\ j < Len(s) THEN [found |-> TRUE, at |-> j + 1]
    ELSE IF s[j] = Quote /\ j < Len(s) THEN FindExtension(s, j + 2)
    ELSE FindExtension(s, j + 1)

\* quote_fname: the name of a directory entry as a listing shows it.
quote_fname(u) ==
    LET sv  == separate_version(QuoteChars(u))
        ext == FindExtension(sv.name, 1)
        n   == sv.name
        dot == IF ext.found THEN n
               ELSE IF n # << >> /\ Last(n) = "."
               THEN Front(n) \o <<Quote, ".", ".">>
               ELSE Append(n, ".")
    IN  UnixVersionToLispVersion(conc_name_and_version(dot, sv.ver), TRUE)

(***************************************************************************)
(* From Lisp to Unix.                                                      *)
(***************************************************************************)
RECURSIVE DropZeros(_)
DropZeros(s) == IF s # << >> /\ s[1] = "0" THEN DropZeros(Tail(s)) ELSE s

\* LispVersionToUnixVersion: the version starts at the last semicolon that has
\* no apostrophe before it.
LispVersionToUnixVersion(l) ==
    LET semis == {j \in DOMAIN l : l[j] = ";" /\ Ch(l, j - 1) # Quote}
        vp    == Max(semis)
        ver   == DropZeros(SubSeq(l, vp + 1, Len(l)))
    IN  IF semis = {} THEN l
        ELSE conc_name_and_version(SubSeq(l, 1, vp - 1), ver)

\* The scan of unixpathname, from position j, with the Unix path so far in d
\* (each component as a sequence; the last one is the one being built).  An
\* apostrophe at the end copies the terminator, which ends the result.
RECURSIVE Scan(_, _, _, _)
Scan(l, j, d, newdir) ==
    LET c    == Ch(l, j)
        c1   == Ch(l, j + 1)
        c2   == Ch(l, j + 2)
        Put(x) == Append(Front(d), Append(Last(d), x))
        \* the component before the one being built is given up
        Up   == IF Len(d) > 1 THEN Append(SubSeq(d, 1, Len(d) - 2), << >>) ELSE d
    IN  CASE c = "" -> [path |-> d, newdir |-> newdir]
          [] c = "." /\ newdir /\ c1 = "." /\ c2 \in {">", ""} -> Scan(l, j + 3, Up, TRUE)
          [] c = "." /\ newdir /\ c1 = "." /\ c2 \notin {">", ""} -> Scan(l, j + 1, d, FALSE)
          [] c = "." /\ newdir /\ c1 \in {">", ""} -> Scan(l, j + 2, d, TRUE)
          [] c = ">" /\ ~newdir -> Scan(l, j + 1, Append(d, << >>), TRUE)
          [] c = Quote -> Scan(l, j + 2, IF c1 = "" THEN d ELSE Put(c1), FALSE)
          [] OTHER -> Scan(l, j + 1, Put(c), FALSE)

\* unixpathname with versions, for a name below some directory: the last step
\* takes away the dot of an empty extension.
unixpathname(lisp) ==
    LET l  == LispVersionToUnixVersion(lisp)
        sc == Scan(l, 1, << << >> >>, TRUE)
        b1 == separate_version(l).name
        b2 == separate_version(Last(sc.path))
        n  == Len(b1)
        dotted == /\ Ch(b1, n) = "."
                  /\ Ch(b1, n - 1) # Quote \/ Ch(b1, n - 2) = Quote
        base == IF dotted THEN SubSeq(b2.name, 1, Len(b2.name) - 1) ELSE b2.name
    IN  IF sc.newdir THEN sc.path
        ELSE Append(Front(sc.path), conc_name_and_version(base, b2.ver))

(***************************************************************************)
(* The true name of a recognized file, given back to Lisp.                  *)
(***************************************************************************)
\* The position of the dot that starts the extension, skipping quoted ones.
RECURSIVE HasDot(_, _)
HasDot(s, j) == /\ j <= Len(s)
                /\ \/ s[j] = "."
                   \/ HasDot(s, IF s[j] = Quote /\ j < Len(s) THEN j + 2 ELSE j + 1)

\* Where the name proper starts: behind the last ">" that is not quoted.
RECURSIVE NameStart(_, _, _)
NameStart(l, j, start) ==
    IF j > Len(l) THEN start
    ELSE IF l[j] = Quote /\ j < Len(l) THEN NameStart(l, j + 2, start)
    ELSE NameStart(l, j + 1, IF l[j] = ">" THEN j + 1 ELSE start)

\* Which dots of the name that Lisp had given were quoted, counted from the
\* second character on: the scan starts one character late.
QuotedDots(l) ==
    LET dots == SetToSortSeq({j \in (NameStart(l, 1, 1) + 1)..Len(l) : l[j] = "."}, <)
    IN  {k \in DOMAIN dots : l[dots[k] - 1] = Quote}

\* lisppathname with versions: quote what unixpathname would take apart, and
\* the dots that were quoted before.
lisppathname(u, l) ==
    LET dots(j) == Cardinality({i \in 1..j : u[i] = "."})
        quoted  == FoldLeft(LAMBDA acc, j :
                      IF u[j] \in {">", ";", Quote} \/ (u[j] = "." /\ dots(j) \in QuotedDots(l))
                      THEN acc \o <<Quote, u[j]>> ELSE Append(acc, u[j]),
                      << >>, [j \in DOMAIN u |-> j])
        sv      == separate_version(quoted)
        dot     == IF HasDot(sv.name, 1) THEN sv.name ELSE Append(sv.name, ".")
    IN  UnixVersionToLispVersion(conc_name_and_version(dot, sv.ver), FALSE)

Init == name = << >>
Type(c) == Len(name) < MaxLength /\ name' = Append(name, c)
TypeVersion(v) == Len(name) \in 1..MaxLength /\ name' = name \o v
Next == (\E c \in Chars : Type(c)) \/ (\E v \in Versions : TypeVersion(v))
Spec == Init /\ [][Next]_vars

(***************************************************************************)
(* Properties.                                                             *)
(***************************************************************************)
\* The characters that no apostrophe quotes; the name proper; its dots.
Unquoted(l) ==
    {j \in DOMAIN l : Cardinality({i \in 1..j - 1 : \A k \in i..j - 1 : l[k] = Quote}) % 2 = 0}
Semicolons(l) == {j \in Unquoted(l) : l[j] = ";"}
NameEnd(l) == IF Semicolons(l) = {} THEN Len(l) ELSE Min(Semicolons(l)) - 1
NameDots(l) == {j \in NameStart(l, 1, 1)..NameEnd(l) : l[j] = "."}

\* A Lisp name as the convention has it: what is special is quoted, no directory
\* is empty, one dot at most starts an extension, and the version is a number
\* (and none is spelt as Unix has it).
Proper(l) ==
    /\ Len(l) \in Unquoted(l) => l[Len(l)] # Quote
    /\ \A j \in Unquoted(l) : l[j] = ">" => j > 1 /\ ~(l[j - 1] = ">" /\ j - 1 \in Unquoted(l))
    /\ \A j \in Semicolons(l) : AllDigits(SubSeq(l, j + 1, Len(l)))
    /\ Cardinality(NameDots(l) \cap Unquoted(l)) <= 1
    /\ separate_version(l).ver = << >>

\* A file that may lie in a directory: not "." or "..", and not only a version,
\* for which quote_fname reads in front of its buffer.
File(u) == u \notin {<<".">>, <<".", ".">>} /\ separate_version(u).name # << >>

Dot(s, j) == Ch(s, j) = "."

\* The files whose name in a listing is another file's: two dots come first, the
\* first of which is skipped; an extension ends in a dot, which is dropped, or, when
\* a version follows, in an apostrophe, which quotes the semicolon; and a version
\* has leading zeros, so that no Lisp name stands for the file.
ListedAstray(u) ==
    LET sv == separate_version(u)
        n  == sv.name
        extension == \E j \in 1..Len(n) - 1 : Dot(n, j)
    IN  \/ Dot(n, 1) /\ Dot(n, 2)
        \/ extension /\ Dot(n, Len(n))
        \/ extension /\ sv.ver # << >> /\ Ch(n, Len(n)) = Quote
        \/ conc_name_and_version(n, sv.ver) # u

\* A file opens by the name a directory listing shows for it, but for those
\* (quote_fname, unixpathname).
RoundTrip == File(name) => (unixpathname(quote_fname(name)) = <<name>> <=> ~ListedAstray(name))

\* The file that a proper name means: what is left in the name proper without the
\* quotes, and the number after the semicolon.
Means(l) ==
    LET kept == {j \in NameStart(l, 1, 1)..NameEnd(l) :
                    j \in Unquoted(l) => l[j] # Quote /\ ~(l[j] = "." /\ j = NameEnd(l))}
        n    == SetToSortSeq(kept, <)
    IN  conc_name_and_version([k \in DOMAIN n |-> l[n[k]]],
                              DropZeros(SubSeq(l, NameEnd(l) + 2, Len(l))))

\* The proper names that open another file: before the semicolon, or before a quoted
\* dot at the end, is an apostrophe that itself is quoted.
OpensAstray(l) ==
    \/ Semicolons(l) # {} /\ Ch(l, NameEnd(l)) = Quote
    \/ /\ Dot(l, NameEnd(l)) /\ NameEnd(l) \notin Unquoted(l)
       /\ Ch(l, NameEnd(l) - 2) = Quote /\ NameEnd(l) - 2 \notin Unquoted(l)

\* A proper name opens the file that it means, but for those (unixpathname).
NameOpens ==
    Proper(name) /\ File(Means(name))
    => (Last(unixpathname(name)) = Means(name) <=> ~OpensAstray(name))

\* The version that Lisp is told, once a name was recognized.
Recognized(l) ==
    conc_name_and_version(separate_version(Last(unixpathname(l))).name, <<"1">>)

\* The proper names for which recognition gives back another file's: the extension
\* ends in an apostrophe, which quotes the semicolon; and the name starts with the
\* dot of its extension and ends in a quoted one, for which the first is taken, since
\* the dots are counted from the second character on.
GivenBackAstray(l) ==
    LET n == separate_version(Recognized(l)).name
    IN  \E j \in NameDots(l) \cap Unquoted(l) :
           \/ Ch(l, j - 1) # Quote /\ Ch(n, Len(n)) = Quote
           \/ j = NameStart(l, 1, 1) /\ Dot(n, Len(n))

\* The name that recognition gives back for a version of a file stands for the
\* same file, whatever way Lisp had quoted it, but for those (unixpathname,
\* lisppathname).
NameComesBack ==
    Proper(name) /\ ~OpensAstray(name) /\ File(Recognized(name))
    => (unixpathname(lisppathname(Recognized(name), name)) = <<Recognized(name)>>
        <=> ~GivenBackAstray(name))

===========================================================================
