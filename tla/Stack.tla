------------------------------- MODULE Stack -------------------------------
(***************************************************************************)
(* The Lisp stack (llstk.c, hardrtn.c, return.c, stack.h, and the call and  *)
(* return of tosfns.h and tosret.h).  The stack is one area cut into         *)
(* blocks: free blocks, the guard at the end, basic frames (BF: arguments    *)
(* and a word that says where they start) and frame extensions (FX: links,   *)
(* variables, temporaries).  A frame is normally BF and FX side by side,     *)
(* right above its caller; then it is fast and its return is a few           *)
(* assignments.  Once a frame is used from several places, or was moved for  *)
(* lack of room, use counts, residual BFs and copies come in.                *)
(*                                                                         *)
(* Offsets count cells, where the code counts words.  The content of a free  *)
(* block beyond its header, and of the running frame's free area, is Junk:   *)
(* nothing may read it.  A cell that belongs to a function is a Word with    *)
(* the identity of the call that wrote it.                                  *)
(***************************************************************************)
EXTENDS Integers, FiniteSets

CONSTANTS
  FirstArea,      \* cells free above the running frame at the start
  OtherArea,      \* cells free above the other context's frame at the start
  Page,           \* cells by which the stack grows (DLWORDSPER_PAGE)
  LastStackAddr, GuardStackAddr,
  MinExtra,       \* MINEXTRASTACKWORDS: left free before a block taken elsewhere
  AreaSize,       \* STACKAREA_SIZE: room wanted beyond the frame itself
  StkMin,         \* stkmin: cells a function wants before it is called
  ArgCounts,      \* numbers of arguments
  NameTables,     \* may a frame have its name table on the stack
  MaxFrames,      \* bound: frames alive at a time
  MaxHolds,       \* bound: STACKPs alive at a time
  MaxLisp,        \* bound: times Lisp makes a STACKP, sets a link or switches contexts
  Resumed         \* may Lisp return to a frame only a STACKP holds

Vars == 1                  \* cells of an FX that follow its header
FRAMESIZE == 1             \* its header
StackBase == 1
NoFrame == 0
NoTable == -1

ASSUME StackAssumption ==
  /\ {FirstArea, OtherArea, Page, LastStackAddr, GuardStackAddr, MinExtra, AreaSize, StkMin} \subseteq Nat
  /\ ArgCounts \subseteq {0, 1} /\ NameTables \subseteq BOOLEAN
  /\ MinExtra % 2 = 0 /\ MinExtra >= 2 /\ AreaSize >= 3
  /\ StkMin >= 1 + 1 + FRAMESIZE + Vars + 2
  /\ FirstArea >= 2 /\ OtherArea >= 1

VARIABLES
  st,        \* m: the stack; easp: InterfacePage->endofstack; ovf: STACKOVERFLOW
  cur, ivar, \* CURRENTFX and IVar
  sp, esp,   \* CurrentStackPTR (where the next push goes) and EndSTKP
  other,     \* InterfacePage's slot with the frame of the other context
  holds,     \* STACKP -> the frame it holds
  lisp,      \* how often Lisp may still do so
  check,     \* check_interrupt comes next: a return found little room
  err        \* history: what the emulator gave up with, or did wrong for good
vars == <<st, cur, ivar, sp, esp, other, holds, lisp, check, err>>

Fsb(n) == [k |-> "fsb", size |-> n]
Guard(n) == [k |-> "guard", size |-> n]
Bf(iv, res) == [k |-> "bf", ivar |-> iv, residual |-> res, usecnt |-> 0]
Word(id) == [k |-> "word", id |-> id]
Junk == [k |-> "junk"]
\* A fast FX has no blink and clink yet; next is 0 while the frame runs; nt (history) is
\* the offset modulo 2 that a name table in the frame was laid out for.
Fx(id, alink, nt) ==
  [k |-> "fx", id |-> id, usecount |-> 0, alink |-> alink, slow |-> FALSE, blink |-> 0, clink |-> 0,
   next |-> 0, nopush |-> FALSE, nt |-> nt]

\* The cells from a up to b, b not included, become x.
Fill(m, a, b, x) == [i \in DOMAIN m |-> IF i \in a..(b - 1) THEN x ELSE m[i]]
\* MAKEFREEBLOCK
Free(m, a, n) == [Fill(m, a, a + n, Junk) EXCEPT ![a] = Fsb(n)]
FSBP(m, a) == m[a].k = "fsb"

(***************************************************************************)
(* Links of a frame.                                                       *)
(***************************************************************************)
DUMMYBF(f) == f - 1
GETALINK(m, f) == m[f].alink
GETBLINK(m, f) == IF m[f].slow THEN m[f].blink ELSE DUMMYBF(f)
GETCLINK(m, f) == IF m[f].slow THEN m[f].clink ELSE m[f].alink
\* SET_FASTP_NIL: the links of a fast frame are written out.
SlowFx(m, f) == [m[f] EXCEPT !.blink = GETBLINK(m, f), !.clink = GETCLINK(m, f), !.slow = TRUE]
SET_FASTP_NIL(m, f) == [m EXCEPT ![f] = SlowFx(m, f)]
SETALINK(m, f, v) == [m EXCEPT ![f] = [SlowFx(m, f) EXCEPT !.alink = v]]
SETBLINK(m, f, v) == [m EXCEPT ![f] = [SlowFx(m, f) EXCEPT !.blink = v]]
SETACLINK(m, f, v) == [m EXCEPT ![f] = [SlowFx(m, f) EXCEPT !.alink = v, !.clink = v]]

Least(S) == CHOOSE x \in S : \A y \in S : x <= y
\* The first BF word from a on: what follows a run of arguments.
BfFrom(m, a) == Least({b \in DOMAIN m : b >= a /\ m[b].k = "bf"})
\* Where the free blocks that start at a end.
RECURSIVE EndOfFree(_, _)
EndOfFree(m, a) == IF FSBP(m, a) THEN EndOfFree(m, a + m[a].size) ELSE a

(***************************************************************************)
(* Use counts.                                                             *)
(***************************************************************************)
\* Variant of incusecount68k: the frame above stays fast.
incusecount68kFast(m, f) == IF f = NoFrame THEN m ELSE [m EXCEPT ![f].usecount = @ + 1]

\* The frame right above becomes slow: it will have to look at the count.
incusecount68k(m, f) ==
  IF f = NoFrame THEN m
  ELSE LET up == [m EXCEPT ![f].usecount = @ + 1]
           next == m[f].next
           fx == BfFrom(m, next) + 1
       IN IF m[next].k \in {"word", "bf"} /\ m[fx].k = "fx" THEN SET_FASTP_NIL(up, fx) ELSE up

\* The FX and, when it is not beside its BF, the dummy BF before it.
FreeFX(m, f) ==
  LET dummy == m[DUMMYBF(f)].residual
      from == IF dummy THEN DUMMYBF(f) ELSE f
  IN Free(m, from, m[f].next - from)
FreeBF(m, b) ==
  IF m[b].usecnt # 0 THEN [m EXCEPT ![b].usecnt = @ - 1] ELSE Free(m, m[b].ivar, b - m[b].ivar + 1)

\* Variant of decusecount68k: only the control link is given up.
RECURSIVE decusecount68kOneLink(_, _)
decusecount68kOneLink(m, f) ==
  IF f = NoFrame THEN m
  ELSE IF m[f].usecount # 0 THEN [m EXCEPT ![f].usecount = @ - 1]
  ELSE decusecount68kOneLink(FreeBF(FreeFX(m, f), GETBLINK(m, f)), GETCLINK(m, f))

RECURSIVE decusecount68k(_, _)
decusecount68k(m, f) ==
  IF f = NoFrame THEN m
  ELSE IF m[f].usecount # 0 THEN [m EXCEPT ![f].usecount = @ - 1]
  ELSE LET a == GETALINK(m, f)
           c == GETCLINK(m, f)
           freed == FreeBF(FreeFX(m, f), GETBLINK(m, f))
       IN decusecount68k(IF a # c THEN decusecount68k(freed, a) ELSE freed, c)

(***************************************************************************)
(* Room.  s is a value of st.                                              *)
(***************************************************************************)
CanExtend(s) == s.easp < LastStackAddr
NearEnd(s, a) == a > GuardStackAddr /\ ~s.ovf
\* The guard becomes a free block of one cell, the new page another.
extendstack(s) ==
  LET end == s.easp + Page
      wide == [i \in StackBase..end |-> IF i \in DOMAIN s.m THEN s.m[i] ELSE Junk]
      full == Free(Free(wide, s.easp + 1, Page - 1), s.easp, 1)
  IN [m |-> [full EXCEPT ![end] = Guard(1)], easp |-> end, ovf |-> s.ovf \/ NearEnd(s, s.easp)]

\* Variant of Carve: the free block after is sized as if a cell had been skipped to align.
CarveShort(s, a, size, n, align) ==
  LET skip == IF align < 0 \/ align = a % 2 THEN MinExtra ELSE MinExtra + 1
      m1 == Free(Free(s.m, a, skip), a + skip + n, size - (MinExtra + 1) - n)
  IN [s |-> [s EXCEPT !.m = [m1 EXCEPT ![a + skip] = Guard(n)]], addr |-> a + skip]
\* Variant of Carve: nothing is left free before the block, beyond what aligns it.
CarveTight(s, a, size, n, align) ==
  LET m1 == Free(Free(s.m, a, 1), a + 1 + n, size - 1 - n)
  IN [s |-> [s EXCEPT !.m = [m1 EXCEPT ![a + 1] = Guard(n)]], addr |-> a + 1]

\* n cells at the start of the free run at a, which has size cells; MinExtra stay free before them.
Carve(s, a, size, n, align) ==
  LET skip == IF align < 0 \/ align = a % 2 THEN MinExtra ELSE MinExtra + 1
      at == a + skip
      m1 == Free(Free(s.m, a, skip), at + n, size - skip - n)
  IN [s |-> [s EXCEPT !.m = [m1 EXCEPT ![at] = Guard(n)]], addr |-> at]

\* The blocks from p on, then those from the base, up to start; then a page more.
RECURSIVE ScanBlocks(_, _, _, _, _)
ScanBlocks(s, p, start, n, align) ==
  LET On(t, q) == IF q # start THEN ScanBlocks(t, q, start, n, align)
                  ELSE IF CanExtend(t) THEN ScanBlocks(extendstack(t), start, start, n, align)
                  ELSE [s |-> t, addr |-> NoFrame]
      size == EndOfFree(s.m, p) - p
  IN CASE s.m[p].k = "guard" -> ScanBlocks(s, StackBase, start, n, align)
       [] FSBP(s.m, p) ->
            IF size >= n + AreaSize + MinExtra THEN Carve(s, p, size, n, align)
            ELSE On([s EXCEPT !.m = Free(@, p, size)], p + size)
       [] s.m[p].k = "fx" -> On(s, s.m[p].next)
       [] OTHER -> On(s, BfFrom(s.m, p) + 1)
freestackblock(s, n, start, align) == ScanBlocks(s, start, start, n, align)

\* A name table on the stack must stay on the same kind of offset.
Align(m, f) == IF m[f].nt # NoTable THEN DUMMYBF(f) % 2 ELSE -1
\* The frame f with the BF word before it is copied to at; its BF stays where it is.
CopyFX(m, f, at) ==
  LET n == m[f].next - DUMMYBF(f)
      blt == [i \in DOMAIN m |-> IF i \in at..(at + n - 1) THEN m[DUMMYBF(f) + i - at] ELSE m[i]]
      new == at + 1
      m1 == [blt EXCEPT ![at].residual = TRUE, ![new].next = at + n]
  IN SETBLINK(m1, new, GETBLINK(m, f))

(***************************************************************************)
(* The running frame stops and goes on.                                    *)
(***************************************************************************)
\* BEFORE_CONTEXTSW: the running frame ends at next, up to e is a free block.
Suspend(m, next, e) == Free([m EXCEPT ![cur].next = next], next, e - next)
\* AFTER_CONTEXTSW, and the end of contextsw and slowreturn: f runs with the free blocks above it.
Continue(s, f, p) ==
  LET e == EndOfFree(s.m, s.m[f].next)
  IN /\ st' = [s EXCEPT !.m = [Fill(@, p, e, Junk) EXCEPT ![f].next = 0, ![f].nopush = FALSE]]
     /\ cur' = f /\ sp' = p /\ esp' = e
\* Where f pushes next: with nopush its top of stack is taken from the stack again.
Top(m, f) == IF m[f].nopush THEN m[f].next - 1 ELSE m[f].next
GiveUp(what) == err' = what /\ UNCHANGED <<st, cur, ivar, sp, esp, other, holds, lisp, check>>
\* An operation of the program starts.
Running == err = "none" /\ ~check

(***************************************************************************)
(* Overflow: the running frame gets more room, where it is or elsewhere.    *)
(***************************************************************************)
RECURSIVE moveframe(_, _)
RECURSIVE MoveTo(_, _, _)
\* The frame goes to the block b, unless it is at the end of the stack and b is behind it.
MoveTo(b, f, at_eos) ==
  IF b.addr = NoFrame THEN [s |-> b.s, fx |-> NoFrame]
  ELSE IF at_eos /\ b.addr > f THEN moveframe([b.s EXCEPT !.m = Free(@, b.addr, @[b.addr].size)], f)
  ELSE [s |-> [b.s EXCEPT !.m = FreeFX(CopyFX(@, f, b.addr), f)], fx |-> b.addr + 1]
moveframe(s, f) ==
  LET next == s.m[f].next
      end == next + s.m[next].size
      at_eos == end = s.easp /\ NearEnd(s, end)
  IN IF FSBP(s.m, end) THEN [s |-> [s EXCEPT !.m = Free(@, next, EndOfFree(@, next) - next)], fx |-> f]
     ELSE IF end = s.easp /\ ~at_eos
          THEN IF CanExtend(s) THEN [s |-> extendstack(s), fx |-> f] ELSE [s |-> s, fx |-> NoFrame]
     ELSE MoveTo(freestackblock(s, next - DUMMYBF(f), f, Align(s.m, f)), f, at_eos)

\* re_check_stack of xc.c.
LittleRoom == sp + 1 > esp - StkMin
GoOnMoved(moved) ==
  IF moved.fx = NoFrame THEN GiveUp("stack full")
  ELSE /\ Continue(moved.s, moved.fx, moved.s.m[moved.fx].next - 1)
       /\ check' = FALSE
       /\ UNCHANGED <<ivar, other, holds, lisp, err>>
\* The top of stack is pushed for the move, and popped again.
do_stackoverflow ==
  LET pushed == [st.m EXCEPT ![sp] = Word(st.m[cur].id)]
  IN /\ err = "none" /\ LittleRoom
     /\ IF esp - (sp + 1) <= 0 THEN GiveUp("0-long free block")
        ELSE GoOnMoved(moveframe([st EXCEPT !.m = Suspend(pushed, sp + 1, esp)], cur))

(***************************************************************************)
(* Calls and returns.                                                      *)
(***************************************************************************)
FXs(m) == {f \in DOMAIN m : m[f].k = "fx"}
NewId == Least((1..(MaxFrames + 1)) \ {st.m[f].id : f \in FXs(st.m)})
\* OPFN: the arguments are on the stack, BF and FX are built above them.
Call(n, nt) ==
  LET fx == sp + 2
      top == fx + FRAMESIZE + Vars
      arg == [st.m EXCEPT ![cur].next = sp - n + 1,
                          ![sp] = Word(IF n = 0 THEN st.m[cur].id ELSE NewId),
                          ![sp + 1] = Bf(sp - n + 1, FALSE), ![fx] = Fx(NewId, cur, IF nt THEN DUMMYBF(fx) % 2 ELSE NoTable)]
  IN /\ Running /\ sp <= esp - StkMin
     /\ Cardinality(FXs(st.m)) < MaxFrames
     /\ st' = [st EXCEPT !.m = Fill(arg, fx + FRAMESIZE, top, Word(NewId))]
     /\ cur' = fx /\ ivar' = sp - n + 1 /\ sp' = top
     /\ UNCHANGED <<esp, other, holds, lisp, check, err>>

\* OPRETURN of a fast frame: the caller goes on where the arguments started.
FastReturn ==
  LET r == st.m[cur].alink
  IN /\ Running /\ ~st.m[cur].slow /\ r # NoFrame
     /\ st' = [st EXCEPT !.m = [Fill(@, ivar, esp, Junk) EXCEPT ![r].next = 0]]
     /\ cur' = r /\ ivar' = st.m[DUMMYBF(r)].ivar /\ sp' = ivar
     /\ check' = (ivar >= esp - StkMin)
     /\ UNCHANGED <<esp, other, holds, lisp, err>>

\* The frames that f links to have one more user, and so has its BF.
ShareLinks(m, f) ==
  LET c == GETCLINK(m, f)
      a == GETALINK(m, f)
      m1 == incusecount68k([m EXCEPT ![f] = SlowFx(m, f), ![GETBLINK(m, f)].usecnt = @ + 1], c)
  IN IF a # c THEN incusecount68k(m1, a) ELSE m1
CopyTo(b, f) ==
  LET new == b.addr + 1
      copied == [CopyFX(b.s.m, f, b.addr) EXCEPT ![new].usecount = 0]
  IN IF b.addr = NoFrame THEN [s |-> b.s, fx |-> NoFrame]
     ELSE [s |-> [b.s EXCEPT !.m = SETACLINK(decusecount68k(ShareLinks(copied, f), f), cur, new)], fx |-> new]
\* f gets a copy that the running frame returns to instead; f stays for its other users.
make_FXcopy(s, f) == CopyTo(freestackblock(s, s.m[f].next - DUMMYBF(f), cur, Align(s.m, f)), f)

\* MAKE_FXCOPY: the running frame is suspended around it.
Copied(c) ==
  IF c.fx = NoFrame THEN [why |-> "stack full"]
  ELSE [s |-> c.s, esp |-> EndOfFree(c.s.m, c.s.m[cur].next), fx |-> c.fx, why |-> "none"]
MAKE_FXCOPY(s, e, f) ==
  IF e - sp <= 0 THEN [why |-> "0-long free block"]
  ELSE Copied(make_FXcopy([s EXCEPT !.m = Suspend(@, sp, e)], f))

\* retry: the frame to return to is copied until there is free room above it.
RECURSIVE Returnee(_)
Returnee(c) ==
  LET next == c.s.m[c.fx].next
      bf == c.s.m[cur].blink
  IN IF c.why # "none" \/ FSBP(c.s.m, next) \/ (next = ivar /\ c.s.m[bf].usecnt = 0) THEN c
     ELSE Returnee(MAKE_FXCOPY(c.s, c.esp, c.fx))

\* another: the running frame is freed with its BF, or with its dummy BF.
FreeRunning(c) ==
  LET bf == c.s.m[cur].blink
      residual == c.s.m[DUMMYBF(cur)].residual
      from == IF residual THEN DUMMYBF(cur) ELSE ivar
      m1 == IF ~residual THEN c.s.m
            ELSE IF c.s.m[bf].usecnt = 0 THEN Free(c.s.m, ivar, bf - ivar + 1)
            ELSE [c.s.m EXCEPT ![bf].usecnt = @ - 1]
  IN [c.s EXCEPT !.m = Free(m1, from, c.esp - from)]

\* A BF beside its FX goes with it, even when other frames still have it.
FreesShared(c) == ~c.s.m[DUMMYBF(cur)].residual /\ c.s.m[c.s.m[cur].blink].usecnt # 0

\* The access link goes first; the offset left in alink is read by nobody.
DropAccess(s) ==
  LET a == s.m[cur].alink
      c == s.m[cur].clink
  IN IF a = c THEN s ELSE [s EXCEPT !.m = decusecount68k(SETALINK(@, cur, c + FRAMESIZE), a)]
\* The frame f goes on in s, once the running frame is gone.
ReturnTo(s, f, shared) ==
  IF ~FSBP(s.m, s.m[f].next) THEN GiveUp("MP9316")
  ELSE /\ Continue(s, f, Top(s.m, f))
       /\ ivar' = s.m[DUMMYBF(f)].ivar
       /\ check' = (sp' >= esp' - StkMin)
       /\ err' = IF shared THEN "shared BF freed" ELSE err
       /\ UNCHANGED <<other, holds, lisp>>
EndReturn(c) ==
  IF c.why # "none" THEN GiveUp(c.why) ELSE ReturnTo(FreeRunning(c), c.fx, FreesShared(c))
FirstReturnee(s, r) ==
  IF s.m[r].usecount # 0 THEN MAKE_FXCOPY(s, esp, r) ELSE [s |-> s, esp |-> esp, fx |-> r, why |-> "none"]
slowreturn ==
  LET r == GETCLINK(st.m, cur)
  IN /\ Running /\ st.m[cur].slow /\ r # NoFrame
     /\ EndReturn(Returnee(FirstReturnee(DropAccess(st), r)))

(***************************************************************************)
(* Context switch, and what Lisp does to frames.                            *)
(***************************************************************************)
\* OP_contextsw, contextsw and Midpunt with the slot of the other context.
ContextSwitch ==
  LET pushed == [st.m EXCEPT ![sp] = Word(st.m[cur].id), ![cur].nopush = TRUE]
      out == [st EXCEPT !.m = Suspend(pushed, sp + 1, esp)]
  IN /\ Running /\ lisp > 0
     /\ IF esp - (sp + 1) <= 0 THEN GiveUp("0-long free block")
        ELSE IF ~FSBP(out.m, out.m[other].next) THEN GiveUp("MP9316")
        ELSE /\ Continue(out, other, Top(out.m, other))
             /\ ivar' = out.m[DUMMYBF(other)].ivar
             /\ other' = cur /\ lisp' = lisp - 1
             /\ UNCHANGED <<holds, check, err>>

RECURSIVE Chain(_, _)
Chain(m, f) == IF f = NoFrame THEN {} ELSE {f} \cup Chain(m, GETCLINK(m, f))
Callers == Chain(st.m, GETCLINK(st.m, cur))
Stackps == 1..MaxHolds

LispActs == Running /\ lisp > 0 /\ lisp' = lisp - 1

\* Lisp makes a STACKP to a frame below the running one (\INCUSECOUNT).
Hold(f) ==
  /\ LispActs
  /\ \E h \in Stackps \ DOMAIN holds :
       /\ \A i \in Stackps \ DOMAIN holds : h <= i
       /\ holds' = [i \in DOMAIN holds \cup {h} |-> IF i = h THEN f ELSE holds[i]]
  /\ st' = [st EXCEPT !.m = incusecount68k(@, f)]
  /\ UNCHANGED <<cur, ivar, sp, esp, other, check, err>>
\* The reclaimer gives a STACKP back.
reclaimstackp(h) ==
  /\ Running
  /\ st' = [st EXCEPT !.m = decusecount68k(@, holds[h])]
  /\ holds' = [i \in DOMAIN holds \ {h} |-> holds[i]]
  /\ UNCHANGED <<cur, ivar, sp, esp, other, lisp, check, err>>
\* Lisp gives the running frame another access link (ENVEVAL), or another frame to return to (RETFROM, RETTO).
SetAccess(h) ==
  /\ LispActs /\ GETCLINK(st.m, cur) # NoFrame
  /\ GETALINK(st.m, cur) = GETCLINK(st.m, cur) /\ holds[h] # GETCLINK(st.m, cur)
  /\ st' = [st EXCEPT !.m = SETALINK(incusecount68k(@, holds[h]), cur, holds[h])]
  /\ UNCHANGED <<cur, ivar, sp, esp, other, holds, check, err>>
Targets == Callers \cup IF Resumed THEN {holds[h] : h \in DOMAIN holds} ELSE {}
SetReturn(f) ==
  LET old == GETCLINK(st.m, cur)
  IN /\ LispActs /\ old # NoFrame /\ f # old
     /\ GETALINK(st.m, cur) = old
     /\ st' = [st EXCEPT !.m = decusecount68k(SETACLINK(incusecount68k(@, f), cur, f), old)]
     /\ UNCHANGED <<cur, ivar, sp, esp, other, holds, check, err>>
\* Lisp has dealt with the stack overflow interrupt.
ClearOverflow ==
  /\ Running /\ st.ovf
  /\ st' = [st EXCEPT !.ovf = FALSE]
  /\ UNCHANGED <<cur, ivar, sp, esp, other, holds, lisp, check, err>>

(***************************************************************************)
(* Specification.                                                          *)
(***************************************************************************)
\* Two contexts, each in its outermost frame: one runs, the other was switched away from.
Frame(m, at, id, next) ==
  Fill([m EXCEPT ![at] = Bf(at, FALSE), ![at + 1] = [Fx(id, NoFrame, NoTable) EXCEPT !.next = next, !.nopush = next # 0]],
       at + 1 + FRAMESIZE, at + 1 + FRAMESIZE + Vars, Word(id))
InitTop == StackBase + 1 + FRAMESIZE + Vars
InitEnd == InitTop + FirstArea
InitNext == InitEnd + 1 + FRAMESIZE + Vars + 1
InitEasp == InitNext + OtherArea
InitStack ==
  LET m0 == [i \in StackBase..InitEasp |-> Junk]
      m1 == Frame(Frame(m0, StackBase, 1, 0), InitEnd, 2, InitNext)
  IN [Free(m1, InitNext, OtherArea) EXCEPT ![InitNext - 1] = Word(2), ![InitEasp] = Guard(1)]
Init ==
  /\ st = [m |-> InitStack, easp |-> InitEasp, ovf |-> FALSE]
  /\ cur = StackBase + 1 /\ ivar = StackBase
  /\ sp = InitTop /\ esp = InitEnd
  /\ other = InitEnd + 1
  /\ holds = << >> /\ lisp = MaxLisp /\ check = FALSE /\ err = "none"

Next ==
  \/ \E n \in ArgCounts, nt \in NameTables : Call(n, nt)
  \/ FastReturn
  \/ slowreturn
  \/ do_stackoverflow
  \/ ContextSwitch
  \/ \E f \in Callers : Hold(f)
  \/ \E h \in DOMAIN holds : reclaimstackp(h)
  \/ \E h \in DOMAIN holds : SetAccess(h)
  \/ \E f \in Targets : SetReturn(f)
  \/ ClearOverflow
Spec == Init /\ [][Next]_vars

(***************************************************************************)
(* Properties.                                                             *)
(***************************************************************************)
\* What BlinksAreBFs finds wrong has not happened.
Sound == err # "shared BF freed"
Roots == {cur, other}
RECURSIVE Reach(_, _)
Reach(m, S) ==
  LET more == (UNION {{GETALINK(m, f), GETCLINK(m, f)} : f \in S \cap FXs(m)} \cup S) \ {NoFrame}
  IN IF more = S THEN S ELSE Reach(m, more)
Used == Reach(st.m, Roots \cup {holds[h] : h \in DOMAIN holds})
\* The links, roots and STACKPs that lead to f; a frame's two links count once when they agree.
Uses(f) ==
  LET m == st.m
  IN Cardinality({r \in Roots : r = f}) + Cardinality({h \in DOMAIN holds : holds[h] = f})
     + Cardinality({g \in FXs(m) : GETCLINK(m, g) = f})
     + Cardinality({g \in FXs(m) : GETALINK(m, g) = f /\ GETCLINK(m, g) # f})

\* The blocks from p on, each by its first cell, up to something that is no block.
RECURSIVE Blocks(_)
Blocks(p) ==
  LET c == st.m[p]
      b == BfFrom(st.m, p)
      end == CASE c.k \in {"fsb", "guard"} -> p + c.size
               [] c.k = "fx" -> IF p = cur THEN esp ELSE c.next
               [] OTHER -> b + 1
      bad == c.k = "junk" \/ (c.k \in {"word", "bf"} /\ st.m[b].ivar # p /\ ~st.m[b].residual)
  IN IF p = st.easp THEN {p} ELSE IF bad THEN {} ELSE {p} \cup Blocks(end)

\* The blocks tile the stack from its base to the guard, as stack_check() of llstk.c walks
\* it, and every frame is one of them, whatever was moved, copied, freed and extended.
StackTiles ==
  Sound =>
  /\ st.m[st.easp] = Guard(1) /\ DOMAIN st.m = StackBase..st.easp
  /\ Roots \cup FXs(st.m) \cup {st.easp} \subseteq Blocks(StackBase)

\* Use counts: a frame's is one less than the links, contexts and STACKPs that lead to it,
\* a BF's one less than the frames that have it, and no frame outlives its last user.
UseCountsExact ==
  Sound =>
  /\ FXs(st.m) = Used
  /\ \A f \in FXs(st.m) : st.m[f].usecount + 1 = Uses(f)
  /\ \A b \in DOMAIN st.m : st.m[b].k = "bf" /\ ~st.m[b].residual =>
       st.m[b].usecnt + 1 = Cardinality({f \in FXs(st.m) : GETBLINK(st.m, f) = b})

\* Whatever is still used is as its function left it: the frame, its arguments, its
\* variables and temporaries, on an offset its name table can have.
FrameIntact(f) ==
  LET m == st.m
      b == GETBLINK(m, f)
      Mine(i) == m[i] = Word(m[f].id)
  IN /\ m[f].k = "fx" /\ m[b].k = "bf" /\ ~m[b].residual
     /\ m[DUMMYBF(f)].k = "bf" /\ m[DUMMYBF(f)].ivar = m[b].ivar
     /\ m[DUMMYBF(f)].residual <=> (b # DUMMYBF(f))
     /\ m[f].nt \in {NoTable, DUMMYBF(f) % 2}
     /\ \A i \in m[b].ivar..(b - 1) : Mine(i)
     /\ \A i \in (f + FRAMESIZE)..((IF f = cur THEN sp ELSE m[f].next) - 1) : Mine(i)
FramesIntact == Sound => \A f \in Used : FrameIntact(f)

\* The emulator never finds the stack inconsistent: the frame that runs is nobody else's
\* (S_CHECK in moveframe), there is room for a free block above it (0-long free block), and
\* what it continues with has free room above (MP9316).
NoStackError == Sound => err \in {"none", "stack full"} /\ st.m[cur].usecount = 0 /\ sp < esp

\* CHECK_BF in moveframe and make_FXcopy: the blink of a frame is a basic frame.
BlinksAreBFs == \A f \in FXs(st.m) : st.m[GETBLINK(st.m, f)].k = "bf"
=============================================================================
