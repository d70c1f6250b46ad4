-------------------------- MODULE VersionedFiles --------------------------
(* What the DSK file device promises Lisp, apart from how the host's        *)
(* directory holds it: every file name is a family of numbered versions,   *)
(* and an operation touches the one version it names.  The newest version  *)
(* of a family may be "loose": it has no number of its own yet and counts   *)
(* as one more than the highest number (src/dsk.c, get_old and friends).    *)
EXTENDS Naturals, Functions, FiniteSets, FiniteSetsExt

CONSTANTS Family,   \* file names without version
          Contents, \* what a file may hold
          None,     \* no contents
          MaxVersion \* bound on version numbers

VARIABLES files,    \* Family -> (version -> contents), a partial function
          loose,    \* the families whose newest version is loose
          hit,      \* the contents the last step wrote into, or None
          actor     \* who took the last step: "lisp" or "host"

vars == <<files, loose, hit, actor>>

Highest(f) == Max(DOMAIN f \cup {0})

\* The family f without version v; a loose version that is not v keeps its
\* contents and counts one above the versions that remain.
Without(f, v, isLoose) ==
    LET top  == Highest(f)
        rest == Restrict(f, DOMAIN f \ {v})
    IN  IF isLoose /\ v # top
        THEN LET low == Restrict(rest, DOMAIN rest \ {top})
             IN  [w \in DOMAIN low \cup {Highest(low) + 1} |->
                     IF w \in DOMAIN low THEN low[w] ELSE f[top]]
        ELSE rest

With(f, v, c) == [w \in DOMAIN f \cup {v} |-> IF w = v THEN c ELSE f[w]]

Set(fs, f, new) == [g \in Family |-> IF g = f THEN new ELSE fs[g]]

InUse == UNION {Range(files[f]) : f \in Family}

Init == /\ files = [f \in Family |-> << >>]
        /\ loose = {}
        /\ hit = None
        /\ actor = "lisp"

\* A new version; every other version of the family is numbered from now on.
Add(f, v, c) ==
    /\ v \notin DOMAIN files[f]
    /\ c \notin InUse
    /\ files' = Set(files, f, With(files[f], v, c))
    /\ loose' \in {loose \ {f}} \cup
                   IF DOMAIN files[f] = {} /\ v = 1 THEN {loose \cup {f}} ELSE {}
    /\ hit' = c

\* Writing into a version that exists.
Overwrite(f, v) ==
    /\ v \in DOMAIN files[f]
    /\ hit' = files[f][v]
    /\ UNCHANGED files
    /\ loose' \in {loose, loose \ {f}}

Delete(f, v) ==
    /\ v \in DOMAIN files[f]
    /\ files' = Set(files, f, Without(files[f], v, f \in loose))
    /\ loose' = IF v = Highest(files[f]) THEN loose \ {f} ELSE loose
    /\ hit' = None

\* Version v of f becomes version w of g; what g had there is gone.
Move(f, v, g, w) ==
    /\ v \in DOMAIN files[f]
    /\ LET taken == IF v = Highest(files[f]) THEN loose \ {f} ELSE loose
           out   == Set(files, f, Without(files[f], v, f \in loose \ {g}))
       IN  /\ files' = Set(out, g, With(out[g], w, files[f][v]))
           /\ loose' \in {taken, taken \ {g}, taken \cup {g}}
           /\ g \in loose' \ taken => DOMAIN out[g] = {} /\ w = 1
    /\ hit' = None

\* The loose version gets the number it already counts as.
Settle(f) == /\ f \in loose
             /\ loose' = loose \ {f}
             /\ hit' = None
             /\ UNCHANGED files

\* An operation that fails, or that only reads.
NoEffect == hit' = None /\ UNCHANGED <<files, loose>>

\* Another program of the host changes one family behind Lisp's back.
Host == /\ actor' = "host"
        /\ hit' = None
        /\ \E f \in Family : \A g \in Family \ {f} :
              files'[g] = files[g] /\ (g \in loose' <=> g \in loose)

Next == \/ /\ actor' = "lisp"
           /\ \/ \E f \in Family : \E v \in 1..MaxVersion :
                    \/ \E c \in Contents : Add(f, v, c)
                    \/ Overwrite(f, v)
                    \/ Delete(f, v)
                    \/ \E g \in Family : \E w \in 1..MaxVersion :
                          Move(f, v, g, w)
              \/ \E f \in Family : Settle(f)
              \/ NoEffect
        \/ Host

Spec == Init /\ [][Next]_vars
===========================================================================
