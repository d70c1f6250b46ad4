---------------------------- MODULE MCDiskFiles ----------------------------
(* Instance of DiskFiles (part "files") beside Pathnames (part "names") for  *)
(* TLC.  A behaviour belongs to one part; the variables of the other stay as *)
(* they are at the start.  No step reads hit or actor, a version array that  *)
(* is out of date, or the number of an inode: states that differ only there  *)
(* are one state (which names are the same file is all that matters of the    *)
(* inodes).                                                                 *)
EXTENDS DiskFiles
CONSTANTS Chars, Versions, MaxLength
VARIABLES part, name

P == INSTANCE Pathnames
\* as Unix has them, one with a leading zero, and as Lisp has them
MCVersions == {<<".", "~", "1", "~">>, <<".", "~", "0", "1", "~">>, <<";", "1">>}

allvars == <<part, vars, name>>
AllInit == part \in {"files", "names"} /\ Init /\ P!Init
AllNext == \/ part = "files" /\ Next /\ UNCHANGED <<part, name>>
           \/ part = "names" /\ P!Next /\ UNCHANGED <<part, vars>>
AllSpec == AllInit /\ [][AllNext]_allvars

SameFile == {{m \in Name : ent[m] = ent[n]} : n \in {n \in Name : ent[n] # None}}
StateView == <<SameFile, IF va.fresh THEN va ELSE FALSE, settled, part, name>>

===========================================================================
