----------------------------- MODULE MCLiveness -----------------------------
(***************************************************************************)
(* What must happen in the end: a reclaimer (part "gc") and the interrupt  *)
(* machinery (part "irq") beside each other.  A behaviour belongs to one   *)
(* part; the variables of the other stay as they are at the start.         *)
(***************************************************************************)
EXTENDS Integers, Sequences, FiniteSets, TLC
CONSTANTS root, list, arr, NIL, ATOM_T
VARIABLES part,
  ht, fld, stack, free, rpc, probe, marked, cell, ix, val, donext, to_do, lost, spilled,
  irq, pc, disabled, display, typed, ring, read, write, KBDEventFlg, KEYBUFFERING, URaid_req,
  reclaim, reclaims, PENDINGINTERRUPT, pendingmask, handledmask, readable, packet, calls,
  period_cnt, late, seen, dropped

R == INSTANCE Reclaimer WITH
  pc <- rpc, Ptr <- {list, arr}, Root <- {root},
  Hash <- (list :> 0) @@ (arr :> 1),
  Kind <- (root :> "RECORD") @@ (list :> "LISTP") @@ (arr :> "PTRBLOCK"),
  Arity <- (root :> 1) @@ (arr :> 1) @@ (list :> 2),
  MaxArity <- 2, FarField <- {2}, TODO_LIMIT <- 1, MaxStack <- 2, MaxEdges <- 3, MaxObjects <- 2,
  HTMAIN_ENTRY_COUNT <- 2, HTCOLLMAX <- 2, MAX_GCCOUNT <- 3, ReclaimMin <- 1
I == INSTANCE Interrupts WITH
  NSlots <- 1, MaxKeys <- 2, Emergency <- {}, MaxCalls <- 3, MaxReclaims <- 1,
  Socket <- FALSE, MayDisable <- TRUE, Period <- 0

rvars == <<ht, fld, stack, free, rpc, probe, marked, cell, ix, val, donext, to_do, lost, spilled>>
ivars == <<irq, pc, disabled, display, typed, ring, read, write, KBDEventFlg, KEYBUFFERING, URaid_req,
           reclaim, reclaims, PENDINGINTERRUPT, pendingmask, handledmask, readable, packet, calls,
           period_cnt, late, seen, dropped>>
vars == <<part, rvars, ivars>>

Init == part \in {"gc", "irq"} /\ R!Init /\ I!Init

Gc(A) == part = "gc" /\ A /\ UNCHANGED <<part, ivars>>
Irq(A) == part = "irq" /\ A /\ UNCHANGED <<part, rvars>>

Next == Gc(R!Next) \/ Irq(I!Next)

\* The fairness of Reclaimer and of Interrupts, each for its own part.
Spec ==
  /\ Init /\ [][Next]_vars
  /\ WF_vars(Gc(R!Collector)) /\ WF_vars(Gc(R!BeginReclaim))
  /\ WF_vars(Irq(I!Check))
  /\ SF_vars(Irq(I!TakeKey)) /\ SF_vars(Irq(I!EndKeys)) /\ SF_vars(Irq(I!EndCall))
  /\ SF_vars(Irq(I!Serve))
  /\ SF_vars(Irq(I!Signal /\ pc = "op" /\ ~disabled)) /\ SF_vars(Irq(I!EnterCheck /\ ~disabled))
  /\ SF_vars(Irq(I!ContextSwitch /\ disabled))

-----------------------------------------------------------------------------
\* Every reclamation ends and gives control back to the program.
ReclaimEnds == R!ReclaimEnds

\* Garbage that is not part of a cycle is freed in the end, although arrays
\* leave zero counts in buckets that the sweep has passed.
GarbageIsFreed == R!GarbageIsFreed

\* Keys, packets, due reclamations and posted interrupts get to Lisp, although
\* OPRETURN and CLR_IRQ lose ticks and a context below stackbase loses requests.
InputServed == I!KeysReachLisp /\ I!ReclaimStarts /\ I!InterruptDelivered

\* A check that begins with interrupts disabled clears the request and ends,
\* as long as no Lisp descriptor is readable.
CheckEnds == I!CheckEnds
=============================================================================
