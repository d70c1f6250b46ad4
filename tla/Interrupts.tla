------------------------------ MODULE Interrupts ------------------------------
(***************************************************************************)
(* How the emulator notices the outside world (xc.c check_interrupt,       *)
(* timer.c, keyevent.c, xlspwin.c, xwinman.c): signal handlers request a   *)
(* check by zeroing Irq_Stk_End, the dispatch loop tests it at calls and   *)
(* returns, polls the display and the file descriptors, and turns what it  *)
(* finds into calls of at most one Lisp interrupt function.                *)
(*                                                                         *)
(* irq is TRUE while Irq_Stk_End and Irq_Stk_Check are zero.  pc is where  *)
(* the dispatch loop is: "op" between instructions, "ret" in OPRETURN      *)
(* between the test of Irq_Stk_End and its assignment, "poll" at           *)
(* re_check_stack, "io" before process_io_events, "decide" after it, "clr" *)
(* before CLR_IRQ and "clrd" before the CLR_IRQ of disabled interrupts.    *)
(***************************************************************************)
EXTENDS Integers, Sequences, FiniteSets

CONSTANTS
  NSlots,      \* events the key ring holds
  MaxKeys,     \* bound: key transitions the user makes
  Emergency,   \* the ones that are Ctrl-Shift-DEL
  MaxReclaims, \* bound: reclamations that become due
  MaxCalls,    \* bound: interrupt functions running on top of each other
  Socket,      \* TRUE if Lisp has a descriptor open for input, and the Ethernet
  MayDisable,  \* TRUE if Lisp runs in contexts below stackbase
  Period       \* checks between periodic interrupts; 0 if there are none

ASSUME InterruptAssumption ==
  /\ NSlots \in Nat \ {0} /\ MaxKeys \in Nat /\ MaxReclaims \in Nat /\ MaxCalls \in Nat \ {0, 1}
  /\ Emergency \subseteq 1 .. MaxKeys
  /\ Socket \in BOOLEAN /\ MayDisable \in BOOLEAN /\ Period \in Nat

VARIABLES
  irq, pc,
  disabled,    \* the stack pointer is not above stackbase
  display,     \* key transitions the display server has for us
  typed,       \* number of transitions made
  ring,        \* keyboard event ring: slot -> event
  read, write, \* its indices; read = 0 means empty, read = write full
  KBDEventFlg, KEYBUFFERING, URaid_req,
  reclaim,     \* Reclaim_cnt is S_POSITIVE
  reclaims,    \* how often it has been
  PENDINGINTERRUPT, pendingmask, handledmask,
  readable,    \* the socket has input
  packet,      \* "none", "arrived", or "read" by check_ether
  calls,       \* interrupt functions called and not returned
  period_cnt,
  late,        \* a tick has come during this check or return
  seen,        \* key transitions Lisp has taken from the ring
  dropped      \* those a full ring or an emergency reset lost

keyvars == <<ring, read, write, KBDEventFlg, KEYBUFFERING, URaid_req, seen, dropped>>
ioVars == <<PENDINGINTERRUPT, pendingmask, handledmask, readable, packet>>
vars == <<irq, pc, disabled, display, typed, keyvars, ioVars, reclaim, reclaims, calls, period_cnt, late>>

Slot == 1 .. NSlots
MIN == 1
Sources == {"ETHER", "IO", "gcdisabled"}
Functions == {"DOBUFFEREDTRANSITION", "DORECLAIM", "INTERRUPTED", "PERIODIC"}

Init ==
  /\ irq = FALSE /\ pc = "op" /\ disabled = FALSE
  /\ display = <<>> /\ typed = 0
  /\ ring = [s \in Slot |-> 0] /\ read = 0 /\ write = MIN
  /\ KBDEventFlg = 0 /\ KEYBUFFERING = "NIL" /\ URaid_req = FALSE
  /\ reclaim = FALSE /\ reclaims = 0
  /\ PENDINGINTERRUPT = FALSE /\ pendingmask = {} /\ handledmask = {}
  /\ readable = FALSE /\ packet = "none"
  /\ calls = <<>> /\ period_cnt = Period /\ late = FALSE /\ seen = <<>> /\ dropped = {}

-----------------------------------------------------------------------------
(* Signals and the outside world, at any time.                             *)

\* int_timer_service, int_io_service.  A tick takes longer than a check, so at
\* most one comes during one.
Signal ==
  /\ ~late /\ late' = (pc # "op")
  /\ irq' = TRUE
  /\ UNCHANGED <<pc, disabled, display, typed, keyvars, ioVars, reclaim, reclaims, calls, period_cnt>>

Type ==
  /\ typed < MaxKeys
  /\ typed' = typed + 1 /\ display' = Append(display, typed + 1)
  /\ UNCHANGED <<irq, pc, disabled, keyvars, ioVars, reclaim, reclaims, calls, period_cnt, late>>

SocketInput ==
  /\ Socket /\ ~readable /\ readable' = TRUE
  /\ UNCHANGED <<irq, pc, disabled, display, typed, keyvars, reclaim, reclaims, calls, period_cnt, late,
                 PENDINGINTERRUPT, pendingmask, handledmask, packet>>

PacketArrives ==
  /\ Socket /\ packet = "none" /\ packet' = "arrived"
  /\ UNCHANGED <<irq, pc, disabled, display, typed, keyvars, reclaim, reclaims, calls, period_cnt, late,
                 PENDINGINTERRUPT, pendingmask, handledmask, readable>>

-----------------------------------------------------------------------------
(* Instructions.                                                           *)

\* A call, a return or a jump finds Irq_Stk_End zero.
EnterCheck ==
  /\ pc = "op" /\ irq /\ Len(calls) + 1 < MaxCalls
  /\ pc' = "poll"
  /\ UNCHANGED <<irq, disabled, display, typed, keyvars, ioVars, reclaim, reclaims, calls, period_cnt, late>>

\* OPRETURN tests Irq_Stk_End and then stores EndSTKP in it.
ReturnTest ==
  /\ pc = "op" /\ ~irq /\ pc' = "ret"
  /\ UNCHANGED <<irq, disabled, display, typed, keyvars, ioVars, reclaim, reclaims, calls, period_cnt, late>>

ReturnStore ==
  /\ pc = "ret" /\ pc' = "op" /\ irq' = FALSE /\ late' = FALSE
  /\ UNCHANGED <<disabled, display, typed, keyvars, ioVars, reclaim, reclaims, calls, period_cnt>>

\* CONTEXTSWITCH, to a context below stackbase or back, ends with CLR_IRQ.
ContextSwitch ==
  /\ pc = "op" /\ MayDisable
  /\ disabled' = ~disabled /\ irq' = FALSE
  /\ UNCHANGED <<pc, display, typed, keyvars, ioVars, reclaim, reclaims, calls, period_cnt, late>>

\* The countdown of the reference counts runs out (IncAllocCnt).
ReclaimDue ==
  /\ pc = "op" /\ ~reclaim /\ "DORECLAIM" \notin {calls[i] : i \in DOMAIN calls}
  /\ reclaims < MaxReclaims /\ reclaims' = reclaims + 1
  /\ reclaim' = TRUE /\ irq' = TRUE
  /\ UNCHANGED <<pc, disabled, display, typed, keyvars, ioVars, calls, period_cnt, late>>

\* disablegc1 and checkfor_storagefull post an interrupt without asking for a check.
PostInterrupt ==
  /\ pc = "op" /\ "gcdisabled" \notin pendingmask
  /\ pendingmask' = pendingmask \cup {"gcdisabled"} /\ PENDINGINTERRUPT' = TRUE
  /\ UNCHANGED <<irq, pc, disabled, display, typed, keyvars, reclaim, reclaims, calls, period_cnt, late,
                 handledmask, readable, packet>>

-----------------------------------------------------------------------------
(* check_interrupt.                                                        *)

NextWrite(w) == IF w >= NSlots THEN MIN ELSE w + 1

\* Slots that hold events, oldest first.
RingSeq ==
  IF read = 0 THEN <<>>
  ELSE LET n == IF write > read THEN write - read ELSE NSlots - read + write
       IN  [i \in 1 .. n |-> ring[((read - 1 + i - 1) % NSlots) + 1]]

FullRing(r, w) == r = w

\* Variants of Latched: the state is set although the handler is running; it is
\* set for the first event only.
LatchedAlways == "T"
LatchedOnce == IF KEYBUFFERING = "NIL" /\ KBDEventFlg = 0 THEN "T" ELSE KEYBUFFERING

Latched == IF KEYBUFFERING = "NIL" THEN "T" ELSE KEYBUFFERING

\* An emergency key empties the ring first; an event finds the ring full or
\* goes into slot write.
DoRing(k) ==
  LET reset == k \in Emergency
      r == IF reset THEN 0 ELSE read
      w == IF reset THEN MIN ELSE write
      lost == IF reset THEN {RingSeq[i] : i \in DOMAIN RingSeq} ELSE {}
  IN
  /\ URaid_req' = (URaid_req \/ reset)
  /\ IF FullRing(r, w)
     THEN /\ dropped' = dropped \cup lost \cup {k}
          /\ read' = r /\ write' = w /\ UNCHANGED ring
     ELSE /\ ring' = [ring EXCEPT ![w] = k]
          /\ read' = IF r = 0 THEN w ELSE r
          /\ write' = NextWrite(w)
          /\ dropped' = dropped \cup lost
  /\ KEYBUFFERING' = Latched

\* process_Display_events: one KeyPress, KeyRelease or button event.
process_Display_event ==
  /\ pc = "poll" /\ display # <<>>
  /\ DoRing(Head(display)) /\ display' = Tail(display)
  /\ KBDEventFlg' = KBDEventFlg + 1 /\ irq' = TRUE
  /\ UNCHANGED <<pc, disabled, typed, ioVars, reclaim, reclaims, calls, period_cnt, late, seen>>

EndDisplay ==
  /\ pc = "poll" /\ display = <<>> /\ pc' = "io"
  /\ UNCHANGED <<irq, disabled, display, typed, keyvars, ioVars, reclaim, reclaims, calls, period_cnt, late>>

\* No Ethernet interrupt is being processed and check_ether reads a packet.
EtherChecked == "ETHER" \notin handledmask /\ packet = "arrived"

process_io_events ==
  LET found == (IF EtherChecked THEN {"ETHER"} ELSE {}) \cup (IF readable THEN {"IO"} ELSE {}) IN
  /\ pc = "io" /\ pc' = "decide"
  /\ packet' = IF EtherChecked THEN "read" ELSE packet
  /\ pendingmask' = pendingmask \cup found
  /\ PENDINGINTERRUPT' = (PENDINGINTERRUPT \/ found # {})
  /\ irq' = (irq \/ found # {})
  /\ UNCHANGED <<disabled, display, typed, keyvars, reclaim, reclaims, calls, period_cnt, late, handledmask, readable>>

\* No request after all: on with the next instruction.
NoRequest ==
  /\ pc = "decide" /\ ~irq /\ pc' = "op" /\ late' = FALSE
  /\ UNCHANGED <<irq, disabled, display, typed, keyvars, ioVars, reclaim, reclaims, calls, period_cnt>>

Periodic == IF Period > 0 /\ period_cnt = 0 THEN <<"PERIODIC">> ELSE <<>>

\* Variant of KeyWaiting: off by one.
KeyWaitingLate == KBDEventFlg > 1 /\ KEYBUFFERING = "T"

KeyWaiting == KBDEventFlg > 0 /\ KEYBUFFERING = "T"

ReclaimWaiting == reclaim

InterruptWaiting == PENDINGINTERRUPT

\* Variant of Handed: the sources are not marked as being processed.
HandedNothing == handledmask

Handed == handledmask \cup pendingmask

\* At most one function is called besides the periodic one: URaid, the key
\* transitions, the reclaimer or the other interrupts, in that order.
Deliver ==
  LET call(f) == calls' = <<f>> \o Periodic \o calls IN
  /\ pc = "decide" /\ irq /\ ~disabled /\ pc' = "clr"
  /\ period_cnt' = IF Period = 0 THEN 0 ELSE IF period_cnt > 0 THEN period_cnt - 1 ELSE Period
  /\ \/ /\ URaid_req
        /\ URaid_req' = FALSE /\ calls' = Periodic \o calls
        /\ UNCHANGED <<KEYBUFFERING, KBDEventFlg, reclaim, PENDINGINTERRUPT, handledmask>>
     \/ /\ ~URaid_req /\ KeyWaiting
        /\ KEYBUFFERING' = "STARTED" /\ KBDEventFlg' = KBDEventFlg - 1
        /\ call("DOBUFFEREDTRANSITION")
        /\ UNCHANGED <<URaid_req, reclaim, PENDINGINTERRUPT, handledmask>>
     \/ /\ ~URaid_req /\ ~KeyWaiting /\ ReclaimWaiting
        /\ reclaim' = FALSE /\ call("DORECLAIM")
        /\ UNCHANGED <<URaid_req, KEYBUFFERING, KBDEventFlg, PENDINGINTERRUPT, handledmask>>
     \/ /\ ~URaid_req /\ ~KeyWaiting /\ ~ReclaimWaiting /\ InterruptWaiting
        /\ handledmask' = Handed /\ PENDINGINTERRUPT' = FALSE
        /\ call("INTERRUPTED")
        /\ UNCHANGED <<URaid_req, KEYBUFFERING, KBDEventFlg, reclaim>>
     \/ /\ ~URaid_req /\ ~KeyWaiting /\ ~ReclaimWaiting /\ ~InterruptWaiting
        /\ calls' = Periodic \o calls
        /\ UNCHANGED <<URaid_req, KEYBUFFERING, KBDEventFlg, reclaim, PENDINGINTERRUPT, handledmask>>
  /\ UNCHANGED <<irq, disabled, display, typed, ring, read, write, seen, dropped,
                 pendingmask, readable, packet, late, reclaims>>

\* CLR_IRQ, and on with the next instruction.
ClearIrq ==
  /\ pc = "clr" /\ pc' = "op" /\ irq' = FALSE /\ late' = FALSE
  /\ UNCHANGED <<disabled, display, typed, keyvars, ioVars, reclaim, reclaims, calls, period_cnt>>

\* With interrupts disabled: CLR_IRQ and back to re_check_stack.
Disabled ==
  /\ pc = "decide" /\ irq /\ disabled /\ pc' = "clrd"
  /\ UNCHANGED <<irq, disabled, display, typed, keyvars, ioVars, reclaim, reclaims, calls, period_cnt, late>>

\* Variant of ReCheck: the request stays.
ReCheckKeepsIrq ==
  /\ pc = "clrd" /\ pc' = "poll"
  /\ UNCHANGED <<irq, disabled, display, typed, keyvars, ioVars, reclaim, reclaims, calls, period_cnt, late>>

ReCheck ==
  /\ pc = "clrd" /\ pc' = "poll" /\ irq' = FALSE
  /\ UNCHANGED <<disabled, display, typed, keyvars, ioVars, reclaim, reclaims, calls, period_cnt, late>>

-----------------------------------------------------------------------------
(* The Lisp interrupt functions, one after the other between instructions. *)

Running(f) == pc = "op" /\ calls # <<>> /\ Head(calls) = f

\* \DOBUFFEREDTRANSITIONS takes the oldest event ...
TakeKey ==
  /\ Running("DOBUFFEREDTRANSITION") /\ read # 0
  /\ seen' = Append(seen, ring[read])
  /\ read' = IF NextWrite(read) = write THEN 0 ELSE NextWrite(read)
  /\ UNCHANGED <<irq, pc, disabled, display, typed, ring, write, KBDEventFlg, KEYBUFFERING,
                 URaid_req, dropped, ioVars, reclaim, reclaims, calls, period_cnt, late>>

\* ... until there is none.
EndKeys ==
  /\ Running("DOBUFFEREDTRANSITION") /\ read = 0
  /\ KEYBUFFERING' = "NIL" /\ calls' = Tail(calls)
  /\ UNCHANGED <<irq, pc, disabled, display, typed, ring, read, write, KBDEventFlg, URaid_req,
                 seen, dropped, ioVars, reclaim, reclaims, period_cnt, late>>

EndCall ==
  /\ Running("DORECLAIM") \/ Running("PERIODIC")
  /\ calls' = Tail(calls)
  /\ UNCHANGED <<irq, pc, disabled, display, typed, keyvars, ioVars, reclaim, reclaims, period_cnt, late>>

\* INTERRUPTED serves everything that was handed to it: it reads the socket
\* and takes the packet.
Serve ==
  /\ Running("INTERRUPTED")
  /\ readable' = (readable /\ "IO" \notin handledmask)
  /\ packet' = IF "ETHER" \in handledmask THEN "none" ELSE packet
  /\ pendingmask' = pendingmask \ handledmask /\ handledmask' = {}
  /\ calls' = Tail(calls)
  /\ UNCHANGED <<irq, pc, disabled, display, typed, keyvars, PENDINGINTERRUPT, reclaim, reclaims, period_cnt, late>>

\* Inside uninterruptible code it asks to be called again: CAUSE-INTERRUPT.
CauseInterrupt ==
  /\ Running("INTERRUPTED")
  /\ PENDINGINTERRUPT' = TRUE /\ irq' = TRUE /\ calls' = Tail(calls)
  /\ UNCHANGED <<pc, disabled, display, typed, keyvars, pendingmask, handledmask, readable, packet,
                 reclaim, reclaims, period_cnt, late>>

Check ==
  \/ process_Display_event \/ EndDisplay \/ process_io_events \/ NoRequest
  \/ Deliver \/ ClearIrq \/ Disabled \/ ReCheck \/ ReturnStore

Lisp == TakeKey \/ EndKeys \/ EndCall \/ Serve

Next ==
  \/ Signal \/ Type \/ SocketInput \/ PacketArrives
  \/ EnterCheck \/ ReturnTest \/ ContextSwitch \/ ReclaimDue \/ PostInterrupt
  \/ Check \/ Lisp \/ CauseInterrupt

Spec == Init /\ [][Next]_vars

\* The emulator keeps executing: a check it has begun goes on, the interrupt
\* functions make progress, and a context below stackbase is left again.  The
\* timer is not synchronised with the instructions, so a tick falls between
\* two of them, above stackbase, again and again, and the call or return after
\* it makes a check.
FairSpec ==
  /\ Spec
  /\ WF_vars(Check)
  /\ SF_vars(TakeKey) /\ SF_vars(EndKeys) /\ SF_vars(EndCall) /\ SF_vars(Serve)
  /\ SF_vars(Signal /\ pc = "op" /\ ~disabled) /\ SF_vars(EnterCheck /\ ~disabled)
  /\ SF_vars(ContextSwitch /\ disabled)

-----------------------------------------------------------------------------
TypeOK ==
  /\ irq \in BOOLEAN /\ disabled \in BOOLEAN /\ late \in BOOLEAN
  /\ pc \in {"op", "ret", "poll", "io", "decide", "clr", "clrd"}
  /\ read \in 0 .. NSlots /\ write \in Slot /\ ring \in [Slot -> 0 .. MaxKeys]
  /\ KBDEventFlg \in 0 .. MaxKeys /\ KEYBUFFERING \in {"NIL", "T", "STARTED"}
  /\ pendingmask \subseteq Sources /\ handledmask \subseteq Sources
  /\ calls \in Seq(Functions) /\ Len(calls) <= MaxCalls

Queued == {RingSeq[i] : i \in DOMAIN RingSeq}
Seen == {seen[i] : i \in DOMAIN seen}

\* Every key transition is in exactly one place: with the display server, in
\* the ring, taken by Lisp, or dropped because the ring was full or reset; and
\* Lisp takes them in the order they were made.
KeysAccounted ==
  LET waiting == {display[i] : i \in DOMAIN display} IN
  /\ 1 .. typed = waiting \cup Queued \cup Seen \cup dropped
  /\ Cardinality(waiting) + Cardinality(Queued) + Cardinality(Seen) + Cardinality(dropped) = typed
  /\ Len(RingSeq) = Cardinality(Queued)
  /\ \A i, j \in DOMAIN seen : i < j => seen[i] < seen[j]

\* A transition in the ring never waits unnoticed: either the flag and the
\* state that make check_interrupt call the handler are set, or the handler is
\* running and will find it.
NoStuckKey ==
  read # 0 =>
    \/ KEYBUFFERING = "T" /\ KBDEventFlg > 0
    \/ KEYBUFFERING = "STARTED" /\ "DOBUFFEREDTRANSITION" \in {calls[i] : i \in DOMAIN calls}

\* No key transition is lost unaccounted, reordered or left lying in the ring,
\* whatever signals, overflows and emergency resets do to the ring (DoRing).
KeysInv == TypeOK /\ KeysAccounted /\ NoStuckKey

\* The handler of key transitions is never entered while it is running.
OneTransition ==
  Cardinality({i \in DOMAIN calls : calls[i] = "DOBUFFEREDTRANSITION"})
    = (IF KEYBUFFERING = "STARTED" THEN 1 ELSE 0)

\* A source that is marked as being processed, or that has read a packet, is
\* still known to be pending: nothing handed to Lisp is forgotten.
NothingForgotten ==
  /\ packet = "read" => "ETHER" \in pendingmask
  /\ pendingmask # {} =>
       PENDINGINTERRUPT \/ (pendingmask \subseteq handledmask
                              /\ "INTERRUPTED" \in {calls[i] : i \in DOMAIN calls})

\* Every key transition reaches Lisp or is dropped, although ticks are lost
\* when they come between a test of Irq_Stk_End and its assignment.
KeysReachLisp == \A k \in 1 .. MaxKeys : k <= typed ~> k \in Seen \cup dropped

\* A requested reclamation is started.
ReclaimStarts == reclaim ~> ~reclaim

\* A posted interrupt is handed to Lisp, even if INTERRUPTED is called in
\* uninterruptible code first and puts itself off.
InterruptDelivered == PENDINGINTERRUPT ~> ~PENDINGINTERRUPT

\* A check with interrupts disabled clears the request and execution goes on:
\* "Clear out IRQ (loses pending request if interrupts are disabled)" (xc.c).
CheckEnds == pc # "op" ~> pc = "op"
=============================================================================
