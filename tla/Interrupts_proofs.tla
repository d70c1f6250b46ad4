------------------------- MODULE Interrupts_proofs --------------------------
(* Proofs about Interrupts, for every size of the key ring, every number of *)
(* key transitions and reclamations, every set of emergency keys and every  *)
(* nesting of interrupt functions.                                          *)
EXTENDS Interrupts, FiniteSetTheorems, FunctionTheorems, SequenceTheorems, TLAPS

Member(f, c) == \E i \in 1 .. Len(c) : c[i] = f

\* A check, once entered, may add an interrupt function and the periodic one.
Checking == pc \in {"poll", "io", "decide", "clrd"}

\* Types, and room for what a check may call.
Types ==
  /\ irq \in BOOLEAN /\ disabled \in BOOLEAN /\ late \in BOOLEAN
  /\ pc \in {"op", "ret", "poll", "io", "decide", "clr", "clrd"}
  /\ pendingmask \subseteq Sources /\ handledmask \subseteq Sources
  /\ PENDINGINTERRUPT \in BOOLEAN
  /\ calls \in Seq(Functions) /\ Len(calls) <= MaxCalls
  /\ Checking => Len(calls) + 2 <= MaxCalls

\* At most one call of the handler of key transitions.
AtMostOne(c) ==
  \A i, j \in 1 .. Len(c) :
    c[i] = "DOBUFFEREDTRANSITION" /\ c[j] = "DOBUFFEREDTRANSITION" => i = j

\* The state of the key handler and the calls of it agree.
Latch ==
  /\ KEYBUFFERING \in {"NIL", "T", "STARTED"}
  /\ KBDEventFlg \in Nat
  /\ KEYBUFFERING = "T" => KBDEventFlg > 0
  /\ read # 0 => KEYBUFFERING # "NIL"
  /\ KEYBUFFERING = "STARTED" <=> Member("DOBUFFEREDTRANSITION", calls)
  /\ AtMostOne(calls)

-----------------------------------------------------------------------------
(* Sequences of calls.                                                     *)

\* Returning from the function on top removes it and nothing else.
LEMMA PopCalls ==
  ASSUME NEW S, NEW c \in Seq(S), c # <<>>
  PROVE  /\ Tail(c) \in Seq(S) /\ Len(Tail(c)) = Len(c) - 1 /\ Len(c) \in Nat \ {0}
         /\ Head(c) = c[1]
         /\ \A i \in 1 .. Len(Tail(c)) : Tail(c)[i] = c[i + 1] /\ i + 1 \in 1 .. Len(c)
         /\ \A f : f # Head(c) => (Member(f, Tail(c)) <=> Member(f, c))
<1>1. /\ Tail(c) \in Seq(S) /\ Len(Tail(c)) = Len(c) - 1 /\ Len(c) \in Nat \ {0}
      /\ Head(c) = c[1]
      /\ \A i \in 1 .. Len(Tail(c)) : Tail(c)[i] = c[i + 1] /\ i + 1 \in 1 .. Len(c)
  BY HeadTailProperties, EmptySeq
<1>2. ASSUME NEW f, f # Head(c) PROVE Member(f, Tail(c)) <=> Member(f, c)
  <2>1. ASSUME NEW i \in 1 .. Len(c), c[i] = f PROVE \E j \in 1 .. Len(Tail(c)) : Tail(c)[j] = f
    <3>1. i # 1 /\ i - 1 \in 1 .. Len(Tail(c)) /\ Tail(c)[i - 1] = c[i]
      BY <1>1, <1>2, <2>1
    <3>2. QED
      BY <2>1, <3>1
  <2>2. QED
    BY <1>1, <2>1 DEF Member
<1>3. QED
  BY <1>1, <1>2

\* Deliver puts one function, and the periodic one behind it, on top.
LEMMA PushCalls ==
  ASSUME NEW c \in Seq(Functions), NEW p \in Seq(Functions), Len(p) \in 0 .. 2
  PROVE  /\ p \o c \in Seq(Functions) /\ Len(p \o c) = Len(p) + Len(c)
         /\ \A i \in 1 .. Len(p \o c) : /\ i <= Len(p) => (p \o c)[i] = p[i]
                                        /\ i > Len(p) => (p \o c)[i] = c[i - Len(p)] /\ i - Len(p) \in 1 .. Len(c)
         /\ \A f : Member(f, p \o c) <=> Member(f, p) \/ Member(f, c)
<1>1. /\ p \o c \in Seq(Functions) /\ Len(p \o c) = Len(p) + Len(c) /\ Len(p) \in 0 .. 2 /\ Len(c) \in Nat
      /\ \A i \in 1 .. Len(p) + Len(c) : (p \o c)[i] = IF i <= Len(p) THEN p[i] ELSE c[i - Len(p)]
  <2>1. Len(c) \in Nat
    BY LenProperties
  <2>2. /\ p \o c \in Seq(Functions) /\ Len(p \o c) = Len(p) + Len(c)
        /\ \A i \in 1 .. Len(p) + Len(c) : (p \o c)[i] = IF i <= Len(p) THEN p[i] ELSE c[i - Len(p)]
    BY ConcatProperties
  <2>3. QED
    BY <2>1, <2>2
<1>2. ASSUME NEW i \in 1 .. Len(p \o c)
      PROVE  /\ i <= Len(p) => (p \o c)[i] = p[i]
             /\ i > Len(p) => (p \o c)[i] = c[i - Len(p)] /\ i - Len(p) \in 1 .. Len(c)
  BY <1>1
<1>3. ASSUME NEW f PROVE Member(f, p \o c) <=> Member(f, p) \/ Member(f, c)
  <2>1. ASSUME NEW i \in 1 .. Len(p \o c), (p \o c)[i] = f PROVE Member(f, p) \/ Member(f, c)
    BY <1>1, <1>2, <2>1 DEF Member
  <2>2. ASSUME NEW i \in 1 .. Len(p), p[i] = f PROVE Member(f, p \o c)
    BY <1>1, <1>2, <2>2 DEF Member
  <2>3. ASSUME NEW i \in 1 .. Len(c), c[i] = f PROVE Member(f, p \o c)
    <3>1. i + Len(p) \in 1 .. Len(p \o c) /\ (p \o c)[i + Len(p)] = f
      BY <1>1, <1>2, <2>3
    <3>2. QED
      BY <3>1 DEF Member
  <2>4. QED
    BY <2>1, <2>2, <2>3 DEF Member
<1>4. QED
  BY <1>1, <1>2, <1>3

LEMMA PeriodicProperties ==
  /\ Periodic \in Seq(Functions) /\ Len(Periodic) \in 0 .. 1
  /\ \A f : Member(f, Periodic) => f = "PERIODIC"
  /\ \A f \in Functions :
       /\ <<f>> \o Periodic \in Seq(Functions) /\ Len(<<f>> \o Periodic) \in 1 .. 2
       /\ (<<f>> \o Periodic)[1] = f
       /\ \A i \in 2 .. Len(<<f>> \o Periodic) : (<<f>> \o Periodic)[i] = "PERIODIC"
       /\ \A g : Member(g, <<f>> \o Periodic) => g \in {f, "PERIODIC"}
       /\ Member(f, <<f>> \o Periodic)
<1>1. Periodic = <<>> \/ Periodic = <<"PERIODIC">>
  BY DEF Periodic
<1>2. Periodic \in Seq(Functions) /\ Len(Periodic) \in 0 .. 1
      /\ \A f : Member(f, Periodic) => f = "PERIODIC"
  <2>1. CASE Periodic = <<>>
    BY <2>1, EmptySeq DEF Member
  <2>2. CASE Periodic = <<"PERIODIC">>
    BY <2>2 DEF Functions, Member
  <2>3. QED
    BY <1>1, <2>1, <2>2
<1>3. ASSUME NEW f \in Functions
      PROVE  /\ <<f>> \o Periodic \in Seq(Functions) /\ Len(<<f>> \o Periodic) \in 1 .. 2
             /\ (<<f>> \o Periodic)[1] = f
             /\ \A i \in 2 .. Len(<<f>> \o Periodic) : (<<f>> \o Periodic)[i] = "PERIODIC"
  <2> DEFINE one == <<f>>
  <2>1. one \in Seq(Functions) /\ Len(one) = 1 /\ one[1] = f
    OBVIOUS
  <2> HIDE DEF one
  <2>2. /\ one \o Periodic \in Seq(Functions) /\ Len(one \o Periodic) = 1 + Len(Periodic)
        /\ \A i \in 1 .. 1 + Len(Periodic) : (one \o Periodic)[i] = IF i <= 1 THEN one[i] ELSE Periodic[i - 1]
    BY <1>2, <2>1, ConcatProperties
  <2>3. ASSUME NEW i \in 1 .. Len(Periodic) PROVE Periodic[i] = "PERIODIC"
    BY <1>1, <1>2, <2>3 DEF Member
  <2>4. /\ one \o Periodic \in Seq(Functions) /\ Len(one \o Periodic) \in 1 .. 2
        /\ (one \o Periodic)[1] = f
        /\ \A i \in 2 .. Len(one \o Periodic) : (one \o Periodic)[i] = "PERIODIC"
    BY <1>2, <2>1, <2>2, <2>3
  <2>5. QED
    BY <2>4 DEF one
<1>4. ASSUME NEW f \in Functions
      PROVE  /\ \A g : Member(g, <<f>> \o Periodic) => g \in {f, "PERIODIC"}
             /\ Member(f, <<f>> \o Periodic)
  BY <1>3 DEF Member
<1>5. QED
  BY <1>2, <1>3, <1>4
-----------------------------------------------------------------------------
(* Types, and room for the calls of a check.                               *)

\* What Deliver does to the calls, by the branch it takes.
LEMMA DeliverCalls ==
  ASSUME Types, Deliver
  PROVE  /\ calls' \in Seq(Functions) /\ Len(calls') <= Len(calls) + 2
         /\ \/ calls' = Periodic \o calls
            \/ \E f \in Functions : calls' = (<<f>> \o Periodic) \o calls
<1>1. \/ calls' = Periodic \o calls
      \/ \E f \in Functions : calls' = (<<f>> \o Periodic) \o calls
  BY DEF Deliver, Functions
<1>2. calls \in Seq(Functions) /\ Len(calls) \in Nat
  BY LenProperties DEF Types
<1>3. CASE calls' = Periodic \o calls
  BY <1>2, <1>3, PushCalls, PeriodicProperties
<1>4. ASSUME NEW f \in Functions, calls' = (<<f>> \o Periodic) \o calls
      PROVE  calls' \in Seq(Functions) /\ Len(calls') <= Len(calls) + 2
  <2> DEFINE p == <<f>> \o Periodic
  <2>1. p \in Seq(Functions) /\ Len(p) \in 0 .. 2
    BY PeriodicProperties
  <2> HIDE DEF p
  <2>2. calls' = p \o calls
    BY <1>4 DEF p
  <2>3. p \o calls \in Seq(Functions) /\ Len(p \o calls) = Len(p) + Len(calls)
    BY <1>2, <2>1, PushCalls
  <2>4. QED
    BY <1>2, <2>1, <2>2, <2>3
<1>5. QED
  BY <1>1, <1>3, <1>4

LEMMA TypesStep == Types /\ [Next]_vars => Types'
<1> SUFFICES ASSUME Types, [Next]_vars PROVE Types'
  OBVIOUS
<1> USE InterruptAssumption DEF Types, Checking
<1>0. Len(calls) \in Nat
  BY LenProperties
<1>1. CASE Signal
  BY <1>1 DEF Signal, ioVars
<1>2. CASE Type \/ SocketInput \/ PacketArrives
  BY <1>2 DEF Type, SocketInput, PacketArrives, ioVars
<1>3. CASE EnterCheck
  BY <1>0, <1>3 DEF EnterCheck, ioVars
<1>4. CASE ReturnTest \/ ReturnStore \/ ContextSwitch \/ ReclaimDue
  BY <1>4 DEF ReturnTest, ReturnStore, ContextSwitch, ReclaimDue, ioVars
<1>5. CASE PostInterrupt
  BY <1>5 DEF PostInterrupt, Sources
<1>6. CASE process_Display_event \/ EndDisplay
  BY <1>6 DEF process_Display_event, EndDisplay, ioVars
<1>7. CASE process_io_events
  <2>1. pendingmask' \subseteq Sources
    BY <1>7 DEF process_io_events, Sources
  <2>2. PENDINGINTERRUPT' \in BOOLEAN /\ irq' \in BOOLEAN
    BY <1>7 DEF process_io_events
  <2>3. QED
    BY <1>7, <2>1, <2>2 DEF process_io_events
<1>8. CASE NoRequest \/ ClearIrq \/ Disabled \/ ReCheck
  BY <1>8 DEF NoRequest, ClearIrq, Disabled, ReCheck, ioVars
<1>9. CASE Deliver
  <2>1. calls' \in Seq(Functions) /\ Len(calls') <= MaxCalls
    <3>1. Len(calls) + 2 <= MaxCalls
      BY <1>9 DEF Deliver
    <3>2. calls' \in Seq(Functions) /\ Len(calls') <= Len(calls) + 2 /\ Len(calls') \in Nat
      BY <1>9, DeliverCalls, LenProperties
    <3>3. QED
      BY <1>0, <3>1, <3>2
  <2>2. handledmask' \subseteq Sources /\ PENDINGINTERRUPT' \in BOOLEAN
    BY <1>9 DEF Deliver, Handed
  <2>3. QED
    BY <1>9, <2>1, <2>2 DEF Deliver
<1>10. CASE TakeKey
  BY <1>10 DEF TakeKey, ioVars
<1>11. CASE EndKeys \/ EndCall \/ Serve \/ CauseInterrupt
  <2>1. pc = "op" /\ pc' = "op" /\ calls # <<>> /\ calls' = Tail(calls)
    BY <1>11 DEF EndKeys, EndCall, Serve, CauseInterrupt, Running
  <2>2. calls' \in Seq(Functions) /\ Len(calls') = Len(calls) - 1
    BY <2>1, PopCalls
  <2>3. Len(calls') <= MaxCalls
    BY <1>0, <2>2
  <2>4. /\ irq' \in BOOLEAN /\ disabled' \in BOOLEAN /\ late' \in BOOLEAN /\ PENDINGINTERRUPT' \in BOOLEAN
        /\ pendingmask' \subseteq Sources /\ handledmask' \subseteq Sources
    BY <1>11 DEF EndKeys, EndCall, Serve, CauseInterrupt, ioVars
  <2>5. QED
    BY <2>1, <2>2, <2>3, <2>4
<1>12. CASE UNCHANGED vars
  BY <1>12 DEF vars, ioVars
<1>13. QED
  BY <1>1, <1>2, <1>3, <1>4, <1>5, <1>6, <1>7, <1>8, <1>9, <1>10, <1>11, <1>12 DEF Next, Check, Lisp

-----------------------------------------------------------------------------
(* The handler of key transitions.                                         *)

\* Every step but these five leaves the handler's state and calls alone.
LEMMA LatchFrame ==
  ASSUME [Next]_vars
  PROVE  \/ process_Display_event \/ Deliver \/ TakeKey \/ EndKeys
         \/ EndCall \/ Serve \/ CauseInterrupt
         \/ UNCHANGED <<KEYBUFFERING, KBDEventFlg, read, calls>>
BY DEF Next, Check, Lisp, Signal, Type, SocketInput, PacketArrives, EnterCheck, ReturnTest,
       ContextSwitch, ReclaimDue, PostInterrupt, EndDisplay, process_io_events, NoRequest,
       ClearIrq, Disabled, ReCheck, ReturnStore, vars, keyvars

LEMMA PushOne ==
  ASSUME NEW c \in Seq(Functions), NEW p \in Seq(Functions), Len(p) \in 0 .. 2, AtMostOne(p), AtMostOne(c),
         ~Member("DOBUFFEREDTRANSITION", p) \/ ~Member("DOBUFFEREDTRANSITION", c)
  PROVE  AtMostOne(p \o c)
<1> SUFFICES ASSUME NEW i \in 1 .. Len(p \o c), NEW j \in 1 .. Len(p \o c),
                    (p \o c)[i] = "DOBUFFEREDTRANSITION", (p \o c)[j] = "DOBUFFEREDTRANSITION"
             PROVE  i = j
  BY DEF AtMostOne
<1>1. /\ i <= Len(p) => (p \o c)[i] = p[i]
      /\ i > Len(p) => (p \o c)[i] = c[i - Len(p)] /\ i - Len(p) \in 1 .. Len(c)
      /\ j <= Len(p) => (p \o c)[j] = p[j]
      /\ j > Len(p) => (p \o c)[j] = c[j - Len(p)] /\ j - Len(p) \in 1 .. Len(c)
  BY PushCalls
<1>2. Len(p \o c) \in Nat /\ Len(p) \in Nat /\ Len(c) \in Nat
  BY PushCalls, LenProperties
<1>3. CASE i <= Len(p) /\ j <= Len(p)
  BY <1>1, <1>2, <1>3 DEF AtMostOne
<1>4. CASE i > Len(p) /\ j > Len(p)
  <2>1. i - Len(p) = j - Len(p)
    BY <1>1, <1>2, <1>4 DEF AtMostOne
  <2>2. QED
    BY <1>2, <2>1
<1>5. CASE i <= Len(p) /\ j > Len(p)
  BY <1>1, <1>2, <1>5 DEF Member
<1>6. CASE i > Len(p) /\ j <= Len(p)
  BY <1>1, <1>2, <1>6 DEF Member
<1>7. QED
  BY <1>2, <1>3, <1>4, <1>5, <1>6

LEMMA PopOne ==
  ASSUME NEW c \in Seq(Functions), c # <<>>, AtMostOne(c)
  PROVE  /\ AtMostOne(Tail(c))
         /\ Head(c) = "DOBUFFEREDTRANSITION" => ~Member("DOBUFFEREDTRANSITION", Tail(c))
<1>1. /\ Len(Tail(c)) = Len(c) - 1 /\ Len(c) \in Nat \ {0} /\ Head(c) = c[1]
      /\ \A i \in 1 .. Len(Tail(c)) : Tail(c)[i] = c[i + 1] /\ i + 1 \in 1 .. Len(c)
  BY PopCalls
<1>2. AtMostOne(Tail(c))
  <2> SUFFICES ASSUME NEW i \in 1 .. Len(Tail(c)), NEW j \in 1 .. Len(Tail(c)),
                      Tail(c)[i] = "DOBUFFEREDTRANSITION", Tail(c)[j] = "DOBUFFEREDTRANSITION"
               PROVE  i = j
    BY DEF AtMostOne
  <2>1. i + 1 = j + 1
    BY <1>1 DEF AtMostOne
  <2>2. QED
    BY <2>1
<1>3. ASSUME Head(c) = "DOBUFFEREDTRANSITION", NEW i \in 1 .. Len(Tail(c)),
             Tail(c)[i] = "DOBUFFEREDTRANSITION"
      PROVE  FALSE
  <2>1. 1 \in 1 .. Len(c) /\ i + 1 \in 1 .. Len(c) /\ c[1] = c[i + 1] /\ c[1] = "DOBUFFEREDTRANSITION"
    BY <1>1, <1>3
  <2>2. 1 = i + 1
    BY <2>1 DEF AtMostOne
  <2>3. QED
    BY <2>2
<1>4. QED
  BY <1>2, <1>3 DEF Member

LEMMA LatchStep == Types /\ Latch /\ [Next]_vars => Latch'
<1> SUFFICES ASSUME Types, Latch, [Next]_vars PROVE Latch'
  OBVIOUS
<1>0. calls \in Seq(Functions) /\ AtMostOne(calls)
  BY DEF Types, Latch
<1>1. CASE process_Display_event
  <2>1. KBDEventFlg' = KBDEventFlg + 1 /\ KEYBUFFERING' = Latched /\ UNCHANGED calls
    BY <1>1 DEF process_Display_event, DoRing
  <2>2. QED
    BY <2>1 DEF Latch, Latched
<1>2. CASE Deliver
  <2> DEFINE D == "DOBUFFEREDTRANSITION"
  <2>1. CASE ~URaid_req /\ KeyWaiting
    <3> DEFINE p == <<D>> \o Periodic
    <3>1. /\ KEYBUFFERING' = "STARTED" /\ KBDEventFlg' = KBDEventFlg - 1 /\ KBDEventFlg > 0
          /\ KEYBUFFERING = "T" /\ calls' = p \o calls
      BY <1>2, <2>1 DEF Deliver, KeyWaiting
    <3>2. D \in Functions
      BY DEF Functions
    <3>3. /\ p \in Seq(Functions) /\ Len(p) \in 1 .. 2 /\ p[1] = D
          /\ \A i \in 2 .. Len(p) : p[i] = "PERIODIC"
          /\ Member(D, p)
      BY <3>2, PeriodicProperties
    <3> HIDE DEF p
    <3>4. AtMostOne(p)
      BY <3>3 DEF AtMostOne
    <3>5. ~Member(D, calls)
      BY <3>1 DEF Latch
    <3>6. Member(D, p \o calls) /\ AtMostOne(p \o calls)
      BY <1>0, <3>3, <3>4, <3>5, PushCalls, PushOne
    <3>7. QED
      BY <3>1, <3>6 DEF Latch
  <2>2. CASE ~(~URaid_req /\ KeyWaiting)
    <3>1. /\ UNCHANGED <<KEYBUFFERING, KBDEventFlg, read>>
          /\ \/ calls' = Periodic \o calls
             \/ calls' = (<<"DORECLAIM">> \o Periodic) \o calls
             \/ calls' = (<<"INTERRUPTED">> \o Periodic) \o calls
      BY <1>2, <2>2 DEF Deliver
    <3>2. PICK p \in Seq(Functions) : /\ calls' = p \o calls /\ Len(p) \in 0 .. 2
                                      /\ \A g : Member(g, p) => g # D
      <4>1. {"DORECLAIM", "INTERRUPTED"} \subseteq Functions
        BY DEF Functions
      <4>2. CASE calls' = Periodic \o calls
        BY <4>2, PeriodicProperties
      <4>3. ASSUME NEW f \in {"DORECLAIM", "INTERRUPTED"}, calls' = (<<f>> \o Periodic) \o calls
            PROVE  \E p \in Seq(Functions) : /\ calls' = p \o calls /\ Len(p) \in 0 .. 2
                                             /\ \A g : Member(g, p) => g # D
        <5> DEFINE p == <<f>> \o Periodic
        <5>1. p \in Seq(Functions) /\ Len(p) \in 0 .. 2 /\ \A g : Member(g, p) => g \in {f, "PERIODIC"}
          BY <4>1, PeriodicProperties
        <5>2. \A g : Member(g, p) => g # D
          BY <5>1
        <5> HIDE DEF p
        <5>3. calls' = p \o calls
          BY <4>3 DEF p
        <5>4. QED
          BY <5>1, <5>2, <5>3
      <4>4. QED
        BY <3>1, <4>2, <4>3
    <3>3. ~Member(D, p) /\ AtMostOne(p)
      BY <3>2 DEF AtMostOne, Member
    <3>4. /\ AtMostOne(p \o calls)
          /\ Member(D, p \o calls) <=> Member(D, calls)
      BY <1>0, <3>2, <3>3, PushCalls, PushOne
    <3>5. QED
      BY <3>1, <3>2, <3>4 DEF Latch
  <2>3. QED
    BY <2>1, <2>2
<1>3. CASE TakeKey
  <2>1. read # 0 /\ UNCHANGED <<KEYBUFFERING, KBDEventFlg, calls>>
    BY <1>3 DEF TakeKey
  <2>2. QED
    BY <2>1 DEF Latch
<1>4. CASE EndKeys
  <2>1. /\ KEYBUFFERING' = "NIL" /\ calls' = Tail(calls) /\ calls # <<>> /\ read' = 0
        /\ Head(calls) = "DOBUFFEREDTRANSITION" /\ UNCHANGED KBDEventFlg
    BY <1>4 DEF EndKeys, Running
  <2>2. QED
    BY <1>0, <2>1, PopOne DEF Latch
<1>5. CASE EndCall \/ Serve \/ CauseInterrupt
  <2>1. /\ calls' = Tail(calls) /\ calls # <<>> /\ Head(calls) # "DOBUFFEREDTRANSITION"
        /\ UNCHANGED <<KEYBUFFERING, KBDEventFlg, read>>
    BY <1>5 DEF EndCall, Serve, CauseInterrupt, Running, keyvars
  <2>2. Member("DOBUFFEREDTRANSITION", calls') <=> Member("DOBUFFEREDTRANSITION", calls)
    BY <1>0, <2>1, PopCalls
  <2>3. AtMostOne(calls')
    BY <1>0, <2>1, PopOne
  <2>4. QED
    BY <2>1, <2>2, <2>3 DEF Latch
<1>6. CASE UNCHANGED <<KEYBUFFERING, KBDEventFlg, read, calls>>
  BY <1>6 DEF Latch
<1>7. QED
  BY <1>1, <1>2, <1>3, <1>4, <1>5, <1>6, LatchFrame

LEMMA InitTypesLatch == Init => Types /\ Latch
<1> SUFFICES ASSUME Init PROVE Types /\ Latch
  OBVIOUS
<1>1. calls \in Seq(Functions) /\ Len(calls) = 0
  BY DEF Init
<1>2. Types
  <2>1. Len(calls) <= MaxCalls
    BY <1>1, InterruptAssumption
  <2>2. ~Checking
    BY DEF Init, Checking
  <2>3. QED
    BY <1>1, <2>1, <2>2 DEF Init, Types
<1>3. ~Member("DOBUFFEREDTRANSITION", calls) /\ AtMostOne(calls)
  BY <1>1 DEF Member, AtMostOne
<1>4. QED
  BY <1>2, <1>3 DEF Init, Latch

\* check_interrupt never enters the handler of key transitions while a call of
\* it is running, however interrupt functions nest.
THEOREM HandlerNotReentered == Spec => []OneTransition
<1>1. Types /\ Latch => OneTransition
  <2> SUFFICES ASSUME Types, Latch PROVE OneTransition
    OBVIOUS
  <2> DEFINE D == {i \in DOMAIN calls : calls[i] = "DOBUFFEREDTRANSITION"}
  <2>1. DOMAIN calls = 1 .. Len(calls)
    BY LenProperties DEF Types
  <2>2. CASE KEYBUFFERING = "STARTED"
    <3>1. PICK i \in 1 .. Len(calls) : calls[i] = "DOBUFFEREDTRANSITION"
      BY <2>2 DEF Latch, Member
    <3>2. D = {i}
      BY <2>1, <3>1 DEF Latch, AtMostOne
    <3>3. Cardinality(D) = 1
      BY <3>2, FS_Singleton
    <3>4. QED
      BY <2>2, <3>3 DEF OneTransition
  <2>3. CASE KEYBUFFERING # "STARTED"
    <3>1. D = {}
      BY <2>1, <2>3 DEF Latch, Member
    <3>2. Cardinality(D) = 0
      BY <3>1, FS_EmptySet
    <3>3. QED
      BY <2>3, <3>2 DEF OneTransition
  <2>4. QED
    BY <2>2, <2>3
<1>2. QED
  BY <1>1, InitTypesLatch, TypesStep, LatchStep, PTL DEF Spec

-----------------------------------------------------------------------------
(* Interrupts other than keys.                                             *)

\* NothingForgotten, with the calls as a sequence.
Remembered ==
  /\ packet = "read" => "ETHER" \in pendingmask
  /\ pendingmask # {} => PENDINGINTERRUPT \/ (pendingmask \subseteq handledmask /\ Member("INTERRUPTED", calls))

LEMMA RememberedStep == Types /\ Remembered /\ [Next]_vars => Remembered'
<1> SUFFICES ASSUME Types, Remembered, [Next]_vars PROVE Remembered'
  OBVIOUS
<1>0. calls \in Seq(Functions)
  BY DEF Types
<1>1. CASE PacketArrives \/ PostInterrupt
  BY <1>1 DEF PacketArrives, PostInterrupt, Remembered
<1>2. CASE process_io_events
  <2>1. CASE PENDINGINTERRUPT'
    <3>1. packet' = "read" => "ETHER" \in pendingmask'
      BY <1>2 DEF process_io_events, Remembered, EtherChecked
    <3>2. QED
      BY <2>1, <3>1 DEF Remembered
  <2>2. CASE ~PENDINGINTERRUPT'
    <3>1. /\ ~PENDINGINTERRUPT /\ UNCHANGED <<packet, pendingmask, handledmask, calls>>
      BY <1>2, <2>2 DEF process_io_events
    <3>2. QED
      BY <3>1 DEF Remembered
  <2>3. QED
    BY <2>1, <2>2
<1>3. CASE Deliver
  <2>1. CASE PENDINGINTERRUPT /\ ~PENDINGINTERRUPT'
    <3> DEFINE p == <<"INTERRUPTED">> \o Periodic
    <3>1. /\ handledmask' = Handed /\ calls' = p \o calls /\ UNCHANGED <<packet, pendingmask>>
      BY <1>3, <2>1 DEF Deliver
    <3>2. p \in Seq(Functions) /\ Len(p) \in 0 .. 2 /\ Member("INTERRUPTED", p)
      BY PeriodicProperties DEF Functions
    <3> HIDE DEF p
    <3>3. Member("INTERRUPTED", p \o calls)
      BY <1>0, <3>2, PushCalls
    <3>4. QED
      BY <3>1, <3>3 DEF Remembered, Handed
  <2>2. CASE ~(PENDINGINTERRUPT /\ ~PENDINGINTERRUPT')
    <3>1. UNCHANGED <<packet, pendingmask, handledmask, PENDINGINTERRUPT>>
      BY <1>3, <2>2 DEF Deliver, InterruptWaiting
    <3>2. Member("INTERRUPTED", calls) => Member("INTERRUPTED", calls')
      <4>1. CASE calls' = Periodic \o calls
        BY <1>0, <4>1, PushCalls, PeriodicProperties
      <4>2. ASSUME NEW f \in Functions, calls' = (<<f>> \o Periodic) \o calls
            PROVE  Member("INTERRUPTED", calls) => Member("INTERRUPTED", calls')
        <5> DEFINE p == <<f>> \o Periodic
        <5>1. p \in Seq(Functions) /\ Len(p) \in 0 .. 2
          BY PeriodicProperties
        <5> HIDE DEF p
        <5>2. calls' = p \o calls
          BY <4>2 DEF p
        <5>3. QED
          BY <1>0, <5>1, <5>2, PushCalls
      <4>3. QED
        BY <1>3, <4>1, <4>2, DeliverCalls
    <3>3. QED
      BY <3>1, <3>2 DEF Remembered
  <2>3. QED
    BY <2>1, <2>2
<1>4. CASE EndKeys \/ EndCall
  <2>1. /\ calls' = Tail(calls) /\ calls # <<>> /\ Head(calls) # "INTERRUPTED"
        /\ UNCHANGED <<packet, pendingmask, handledmask, PENDINGINTERRUPT>>
    BY <1>4 DEF EndKeys, EndCall, Running, ioVars
  <2>2. Member("INTERRUPTED", calls') <=> Member("INTERRUPTED", calls)
    BY <1>0, <2>1, PopCalls
  <2>3. QED
    BY <2>1, <2>2 DEF Remembered
<1>5. CASE Serve
  <2>1. packet' = "read" => "ETHER" \in pendingmask'
    BY <1>5 DEF Serve, Remembered
  <2>2. pendingmask' # {} => PENDINGINTERRUPT'
    BY <1>5 DEF Serve, Remembered
  <2>3. QED
    BY <2>1, <2>2 DEF Remembered
<1>6. CASE CauseInterrupt
  BY <1>6 DEF CauseInterrupt, Remembered
<1>7. CASE UNCHANGED <<packet, pendingmask, handledmask, PENDINGINTERRUPT, calls>>
  BY <1>7 DEF Remembered
<1>8. QED
  BY <1>1, <1>2, <1>3, <1>4, <1>5, <1>6, <1>7
     DEF Next, Check, Lisp, Signal, Type, SocketInput, EnterCheck, ReturnTest, ContextSwitch, ReclaimDue,
         process_Display_event, EndDisplay, NoRequest, ClearIrq, Disabled, ReCheck, ReturnStore, TakeKey,
         vars, ioVars

\* An interrupt that was posted, or a packet that was read, stays known to be
\* pending until INTERRUPTED has served it, however interrupts nest and however
\* often INTERRUPTED puts itself off.
THEOREM InterruptsRemembered == Spec => []NothingForgotten
<1>1. Init => Remembered
  BY DEF Init, Remembered
<1>2. Types /\ Remembered => NothingForgotten
  <2> SUFFICES ASSUME Types, Remembered PROVE NothingForgotten
    OBVIOUS
  <2>1. DOMAIN calls = 1 .. Len(calls)
    BY LenProperties DEF Types
  <2>2. Member("INTERRUPTED", calls) => "INTERRUPTED" \in {calls[i] : i \in DOMAIN calls}
    BY <2>1 DEF Member
  <2>3. QED
    BY <2>2 DEF Remembered, NothingForgotten
<1>3. QED
  BY <1>1, <1>2, InitTypesLatch, TypesStep, RememberedStep, PTL DEF Spec

-----------------------------------------------------------------------------
(* The key ring.  q, s, d are the transitions in the ring, those Lisp has  *)
(* taken and those dropped; t is the number of the last one that left the   *)
(* display server.                                                          *)

Increasing(s) == \A i, j \in 1 .. Len(s) : i < j => s[i] < s[j]

Accounted(q, s, d, t) ==
  /\ q \in Seq(1 .. t) /\ s \in Seq(1 .. t) /\ d \subseteq 1 .. t
  /\ Increasing(q) /\ Increasing(s)
  /\ \A i \in 1 .. Len(s), j \in 1 .. Len(q) : s[i] < q[j]
  /\ \A k \in 1 .. t : Member(k, q) \/ Member(k, s) \/ k \in d
  /\ \A k \in d : ~Member(k, q) /\ ~Member(k, s)

LEMMA AppendedNumber ==
  ASSUME NEW S, NEW q \in Seq(S), NEW k \in S, NEW a, a = Append(q, k)
  PROVE  /\ a \in Seq(S) /\ Len(a) = Len(q) + 1 /\ Len(q) \in Nat
         /\ \A i \in 1 .. Len(q) : a[i] = q[i]
         /\ a[Len(q) + 1] = k
OBVIOUS

LEMMA AppendMembers ==
  ASSUME NEW q, NEW a, NEW k, Len(a) = Len(q) + 1, Len(q) \in Nat,
         \A i \in 1 .. Len(q) : a[i] = q[i], a[Len(q) + 1] = k
  PROVE  \A f : Member(f, a) <=> Member(f, q) \/ f = k
<1>1. /\ Len(a) = Len(q) + 1 /\ Len(q) \in Nat
      /\ \A i \in 1 .. Len(q) : a[i] = q[i]
      /\ a[Len(q) + 1] = k
  OBVIOUS
<1>2. ASSUME NEW f, NEW i \in 1 .. Len(q), q[i] = f PROVE Member(f, a)
  <2>1. i \in 1 .. Len(a) /\ a[i] = f
    BY <1>1, <1>2
  <2>2. QED
    BY <2>1 DEF Member
<1>3. Member(k, a)
  <2>1. Len(q) + 1 \in 1 .. Len(a)
    BY <1>1
  <2>2. QED
    BY <1>1, <2>1 DEF Member
<1>4. ASSUME NEW f, NEW i \in 1 .. Len(a), a[i] = f, f # k PROVE Member(f, q)
  <2>1. i \in 1 .. Len(q) /\ q[i] = f
    BY <1>1, <1>4
  <2>2. QED
    BY <2>1 DEF Member
<1>5. QED
  BY <1>2, <1>3, <1>4 DEF Member

\* An event goes into the ring.
LEMMA AccountedPut ==
  ASSUME NEW t \in Nat, NEW n \in Nat, n = t + 1, NEW q, NEW s, NEW d, Accounted(q, s, d, t)
  PROVE  Accounted(Append(q, n), s, d, n)
<1> DEFINE r == Append(q, n)
<1>1. q \in Seq(1 .. n) /\ s \in Seq(1 .. n) /\ q \in Seq(1 .. t) /\ s \in Seq(1 .. t) /\ n \in 1 .. n
  <2>1. 1 .. t \subseteq 1 .. n
    OBVIOUS
  <2>2. QED
    BY <2>1, SeqMonotonic DEF Accounted
<1>2. /\ r \in Seq(1 .. n) /\ Len(r) = Len(q) + 1 /\ Len(q) \in Nat
      /\ \A i \in 1 .. Len(q) : r[i] = q[i]
      /\ r[Len(q) + 1] = n
  BY <1>1, AppendedNumber
<1>3. /\ \A i \in 1 .. Len(q) : q[i] \in 1 .. t
      /\ \A i \in 1 .. Len(s) : s[i] \in 1 .. t
  BY <1>1, ElementOfSeq
<1> HIDE DEF r
<1>2x. \A f : Member(f, r) <=> Member(f, q) \/ f = n
  BY <1>2, AppendMembers
<1>4. Increasing(r)
  <2> SUFFICES ASSUME NEW i \in 1 .. Len(r), NEW j \in 1 .. Len(r), i < j PROVE r[i] < r[j]
    BY DEF Increasing
  <2>1. i \in 1 .. Len(q) /\ r[i] = q[i] /\ q[i] \in 1 .. t
    BY <1>2, <1>3
  <2>2. CASE j \in 1 .. Len(q)
    <3>1. Increasing(q)
      BY DEF Accounted
    <3>2. q[i] < q[j]
      BY <2>1, <2>2, <3>1 DEF Increasing
    <3>3. r[j] = q[j]
      BY <1>2, <2>2
    <3>4. QED
      BY <2>1, <3>2, <3>3
  <2>3. CASE j = Len(q) + 1
    BY <1>2, <2>1, <2>3
  <2>4. QED
    BY <1>2, <2>2, <2>3
<1>5. \A i \in 1 .. Len(s), j \in 1 .. Len(r) : s[i] < r[j]
  <2> SUFFICES ASSUME NEW i \in 1 .. Len(s), NEW j \in 1 .. Len(r) PROVE s[i] < r[j]
    OBVIOUS
  <2>1. CASE j \in 1 .. Len(q)
    BY <1>2, <2>1 DEF Accounted
  <2>2. CASE j = Len(q) + 1
    BY <1>2, <1>3, <2>2
  <2>3. QED
    BY <1>2, <2>1, <2>2
<1>6. \A k \in 1 .. n : Member(k, r) \/ Member(k, s) \/ k \in d
  BY <1>2x DEF Accounted
<1>7. \A k \in d : ~Member(k, r) /\ ~Member(k, s)
  <2>1. n \notin d
    BY DEF Accounted
  <2>2. QED
    BY <1>2x, <2>1 DEF Accounted
<1>8. d \subseteq 1 .. n /\ Increasing(s)
  BY DEF Accounted
<1>9. Accounted(r, s, d, n)
  BY <1>1, <1>2, <1>4, <1>5, <1>6, <1>7, <1>8 DEF Accounted
<1>10. QED
  BY <1>9 DEF r

\* An event finds the ring full.
LEMMA AccountedDrop ==
  ASSUME NEW t \in Nat, NEW q, NEW s, NEW d, Accounted(q, s, d, t)
  PROVE  Accounted(q, s, d \cup {t + 1}, t + 1)
<1>1. q \in Seq(1 .. t + 1) /\ s \in Seq(1 .. t + 1) /\ q \in Seq(1 .. t) /\ s \in Seq(1 .. t) /\ t + 1 \in 1 .. t + 1
  <2>1. 1 .. t \subseteq 1 .. t + 1
    OBVIOUS
  <2>2. QED
    BY <2>1, SeqMonotonic DEF Accounted
<1>2. ~Member(t + 1, q) /\ ~Member(t + 1, s)
  <2>1. /\ \A i \in 1 .. Len(q) : q[i] \in 1 .. t
        /\ \A i \in 1 .. Len(s) : s[i] \in 1 .. t
    BY <1>1, ElementOfSeq
  <2>2. QED
    BY <2>1 DEF Member
<1>3. QED
  BY <1>1, <1>2 DEF Accounted

\* An emergency key empties the ring.
LEMMA AccountedReset ==
  ASSUME NEW t \in Nat, NEW q, NEW s, NEW d, NEW lost, Accounted(q, s, d, t),
         \A k : k \in lost <=> Member(k, q)
  PROVE  Accounted(<<>>, s, d \cup lost, t)
<1>1. /\ q \in Seq(1 .. t) /\ s \in Seq(1 .. t) /\ \A i \in 1 .. Len(q) : q[i] \in 1 .. t
      /\ \A i \in 1 .. Len(s) : s[i] \in 1 .. t
  BY ElementOfSeq DEF Accounted
<1>2. <<>> \in Seq(1 .. t) /\ Increasing(<<>>) /\ (\A k : ~Member(k, <<>>))
      /\ \A i \in 1 .. Len(s), j \in 1 .. Len(<<>>) : s[i] < <<>>[j]
  BY DEF Increasing, Member
<1>3. lost \subseteq 1 .. t
  BY <1>1 DEF Member
<1>4. ASSUME NEW k \in lost PROVE ~Member(k, s)
  <2> SUFFICES ASSUME NEW i \in 1 .. Len(s), s[i] = k PROVE FALSE
    BY DEF Member
  <2>1. PICK j \in 1 .. Len(q) : q[j] = k
    BY DEF Member
  <2>2. s[i] < q[j]
    BY DEF Accounted
  <2>3. QED
    BY <1>1, <2>1, <2>2
<1>5. QED
  BY <1>1, <1>2, <1>3, <1>4 DEF Accounted

\* Lisp takes the oldest event.
LEMMA AccountedTake ==
  ASSUME NEW t \in Nat, NEW q, NEW s, NEW d, Accounted(q, s, d, t), q # <<>>
  PROVE  Accounted(Tail(q), Append(s, Head(q)), d, t)
<1> DEFINE u == Tail(q)
           v == Append(s, Head(q))
<1>1. /\ q \in Seq(1 .. t) /\ s \in Seq(1 .. t) /\ Head(q) \in 1 .. t
      /\ \A i \in 1 .. Len(q) : q[i] \in 1 .. t
      /\ \A i \in 1 .. Len(s) : s[i] \in 1 .. t
  BY ElementOfSeq, HeadTailProperties DEF Accounted
<1>2. /\ u \in Seq(1 .. t) /\ Len(u) = Len(q) - 1 /\ Len(q) \in Nat \ {0}
      /\ Head(q) = q[1]
      /\ \A i \in 1 .. Len(u) : u[i] = q[i + 1] /\ i + 1 \in 1 .. Len(q)
      /\ \A f : f # Head(q) => (Member(f, u) <=> Member(f, q))
  BY <1>1, PopCalls
<1>3. /\ v \in Seq(1 .. t) /\ Len(v) = Len(s) + 1 /\ Len(s) \in Nat
      /\ \A i \in 1 .. Len(s) : v[i] = s[i]
      /\ v[Len(s) + 1] = Head(q)
  BY <1>1, AppendedNumber
<1> HIDE DEF u, v
<1>3x. \A f : Member(f, v) <=> Member(f, s) \/ f = Head(q)
  BY <1>3, AppendMembers
<1>4. Increasing(u)
  <2> SUFFICES ASSUME NEW i \in 1 .. Len(u), NEW j \in 1 .. Len(u), i < j PROVE u[i] < u[j]
    BY DEF Increasing
  <2>1. i + 1 < j + 1 /\ q[i + 1] < q[j + 1]
    <3>1. Increasing(q)
      BY DEF Accounted
    <3>2. i + 1 \in 1 .. Len(q) /\ j + 1 \in 1 .. Len(q) /\ i + 1 < j + 1
      BY <1>2
    <3>3. QED
      BY <3>1, <3>2 DEF Increasing
  <2>2. QED
    BY <1>2, <2>1
<1>5. Increasing(v)
  <2> SUFFICES ASSUME NEW i \in 1 .. Len(v), NEW j \in 1 .. Len(v), i < j PROVE v[i] < v[j]
    BY DEF Increasing
  <2>1. i \in 1 .. Len(s) /\ v[i] = s[i]
    BY <1>3
  <2>2. CASE j \in 1 .. Len(s)
    BY <1>3, <2>1, <2>2 DEF Accounted, Increasing
  <2>3. CASE j = Len(s) + 1
    <3>1. 1 \in 1 .. Len(q) /\ v[j] = q[1]
      BY <1>2, <1>3, <2>3
    <3>2. QED
      BY <2>1, <3>1 DEF Accounted
  <2>4. QED
    <3>1. j \in 1 .. Len(s) \/ j = Len(s) + 1
      BY <1>3
    <3>2. QED
      BY <2>2, <2>3, <3>1
<1>6. \A i \in 1 .. Len(v), j \in 1 .. Len(u) : v[i] < u[j]
  <2> SUFFICES ASSUME NEW i \in 1 .. Len(v), NEW j \in 1 .. Len(u) PROVE v[i] < u[j]
    OBVIOUS
  <2>1. u[j] = q[j + 1] /\ j + 1 \in 1 .. Len(q) /\ q[1] < q[j + 1]
    <3>1. u[j] = q[j + 1] /\ j + 1 \in 1 .. Len(q) /\ 1 \in 1 .. Len(q) /\ 1 < j + 1
      BY <1>2
    <3>2. q[1] < q[j + 1]
      BY <3>1 DEF Accounted, Increasing
    <3>3. QED
      BY <3>1, <3>2
  <2>2. CASE i \in 1 .. Len(s)
    BY <1>3, <2>1, <2>2 DEF Accounted
  <2>3. CASE i = Len(s) + 1
    BY <1>2, <1>3, <2>1, <2>3
  <2>4. QED
    BY <1>3, <2>2, <2>3
<1>7. \A k \in 1 .. t : Member(k, u) \/ Member(k, v) \/ k \in d
  BY <1>2, <1>3x DEF Accounted
<1>8. \A k \in d : ~Member(k, u) /\ ~Member(k, v)
  <2>1. Member(Head(q), q)
    BY <1>2 DEF Member
  <2>2. Head(q) \notin d
    BY <2>1 DEF Accounted
  <2>3. QED
    BY <1>2, <1>3x, <2>2 DEF Accounted
<1>9. Accounted(u, v, d, t)
  BY <1>2, <1>3, <1>4, <1>5, <1>6, <1>7, <1>8 DEF Accounted
<1>10. QED
  BY <1>9 DEF u, v

-----------------------------------------------------------------------------
(* The ring is a window of N slots that starts at slot r; At(r, i) is the   *)
(* slot of its i-th event.                                                  *)

N(r, w) == IF r = 0 THEN 0 ELSE IF w > r THEN w - r ELSE NSlots - r + w
At(r, i) == IF r + i - 1 <= NSlots THEN r + i - 1 ELSE r + i - 1 - NSlots

Events(g, r, w) == [i \in 1 .. N(r, w) |-> g[At(r, i)]]

RingTypes == read \in 0 .. NSlots /\ write \in Slot /\ ring \in [Slot -> 0 .. MaxKeys]

\* RingSeq, without the arithmetic modulo NSlots.
LEMMA RingSeqIs ==
  ASSUME RingTypes
  PROVE  RingSeq = Events(ring, read, write)
<1> USE InterruptAssumption DEF Events
<1>1. CASE read = 0
  <2>1. N(read, write) = 0
    BY <1>1 DEF N
  <2>2. RingSeq = <<>>
    BY <1>1 DEF RingSeq
  <2>3. [i \in 1 .. 0 |-> ring[At(read, i)]] = <<>>
    OBVIOUS
  <2>4. QED
    BY <2>1, <2>2, <2>3
<1>2. CASE read # 0
  <2>1. N(read, write) \in 1 .. NSlots /\ read \in Slot
    BY <1>2 DEF RingTypes, Slot, N
  <2>2. ASSUME NEW i \in 1 .. N(read, write) PROVE ((read - 1 + i - 1) % NSlots) + 1 = At(read, i)
    <3>1. i \in 1 .. NSlots
      BY <2>1
    <3> DEFINE x == read - 1 + i - 1
    <3>2. CASE read + i - 1 <= NSlots
      <4>1. x \in 0 .. NSlots - 1
        BY <2>1, <3>1, <3>2 DEF Slot
      <4> HIDE DEF x
      <4>2. x % NSlots = x
        BY <4>1
      <4>3. QED
        BY <2>1, <3>1, <3>2, <4>2 DEF At, x, Slot
    <3>3. CASE read + i - 1 > NSlots
      <4>1. x \in NSlots .. 2 * NSlots - 1
        BY <2>1, <3>1, <3>3 DEF Slot
      <4> HIDE DEF x
      <4>2. x % NSlots = x - NSlots
        BY <4>1
      <4>3. QED
        BY <2>1, <3>1, <3>3, <4>2 DEF At, x, Slot
    <3>4. QED
      BY <2>1, <3>1, <3>2, <3>3 DEF Slot
  <2>3. RingSeq = [i \in 1 .. N(read, write) |-> ring[((read - 1 + i - 1) % NSlots) + 1]]
    BY <1>2 DEF RingSeq, N
  <2>4. QED
    BY <2>2, <2>3
<1>3. QED
  BY <1>1, <1>2

\* Arithmetic of the window: an event put at w, an event taken from r.
LEMMA WindowArithmetic ==
  ASSUME NEW r \in 0 .. NSlots, NEW w \in Slot
  PROVE  /\ N(r, w) \in 0 .. NSlots /\ NextWrite(w) \in Slot
         /\ r # 0 => N(r, w) >= 1 /\ At(r, 1) = r /\ \A i \in 1 .. N(r, w) : At(r, i) \in Slot
         /\ r # 0 /\ r # w => /\ N(r, NextWrite(w)) = N(r, w) + 1 /\ At(r, N(r, w) + 1) = w
                             /\ \A i \in 1 .. N(r, w) : At(r, i) # w
         /\ N(w, NextWrite(w)) = 1 /\ At(w, 1) = w
         /\ r # 0 /\ NextWrite(r) = w => N(r, w) = 1
         /\ r # 0 /\ NextWrite(r) # w =>
              /\ N(NextWrite(r), w) = N(r, w) - 1 /\ NextWrite(r) \in 1 .. NSlots
              /\ \A i \in 1 .. N(r, w) - 1 : At(NextWrite(r), i) = At(r, i + 1)
<1> USE InterruptAssumption DEF N, At, Slot, NextWrite, MIN
<1>1. N(r, w) \in 0 .. NSlots /\ NextWrite(w) \in Slot
  OBVIOUS
<1>2. r # 0 => N(r, w) >= 1 /\ At(r, 1) = r /\ \A i \in 1 .. N(r, w) : At(r, i) \in Slot
  OBVIOUS
<1>3. r # 0 /\ r # w => /\ N(r, NextWrite(w)) = N(r, w) + 1 /\ At(r, N(r, w) + 1) = w
                       /\ \A i \in 1 .. N(r, w) : At(r, i) # w
  OBVIOUS
<1>4. N(w, NextWrite(w)) = 1 /\ At(w, 1) = w
  OBVIOUS
<1>5. r # 0 /\ NextWrite(r) = w => N(r, w) = 1
  OBVIOUS
<1>6. r # 0 /\ NextWrite(r) # w =>
        /\ N(NextWrite(r), w) = N(r, w) - 1 /\ NextWrite(r) \in 1 .. NSlots
        /\ \A i \in 1 .. N(r, w) - 1 : At(NextWrite(r), i) = At(r, i + 1)
  OBVIOUS
<1>7. QED
  BY <1>1, <1>2, <1>3, <1>4, <1>5, <1>6

LEMMA EventsType ==
  ASSUME NEW g \in [Slot -> 0 .. MaxKeys], NEW r \in 0 .. NSlots, NEW w \in Slot
  PROVE  /\ Events(g, r, w) \in Seq(0 .. MaxKeys) /\ Len(Events(g, r, w)) = N(r, w)
         /\ \A i \in 1 .. N(r, w) : Events(g, r, w)[i] = g[At(r, i)]
<1>1. N(r, w) \in Nat
  BY InterruptAssumption, WindowArithmetic
<1>2. ASSUME NEW i \in 1 .. N(r, w) PROVE g[At(r, i)] \in 0 .. MaxKeys
  <2>1. r # 0
    BY <1>2 DEF N
  <2>2. At(r, i) \in Slot
    BY <2>1, WindowArithmetic
  <2>3. QED
    BY <2>2
<1> DEFINE n == N(r, w)
           f == Events(g, r, w)
           S == 0 .. MaxKeys
<1>3. f \in [1 .. n -> S] /\ \A i \in 1 .. n : f[i] = g[At(r, i)]
  BY <1>2 DEF Events
<1> HIDE DEF n, f, S
<1>4. f \in Seq(S)
  BY <1>1, <1>3, SeqDef DEF n
<1>5. Len(f) = n
  BY <1>1, <1>3 DEF n
<1>6. QED
  BY <1>3, <1>4, <1>5 DEF n, f, S

\* DoRing, unless the ring is full.
LEMMA EventsPut ==
  ASSUME NEW g \in [Slot -> 0 .. MaxKeys], NEW r \in 0 .. NSlots, NEW w \in Slot, r # w, NEW k \in 0 .. MaxKeys
  PROVE  Events([g EXCEPT ![w] = k], IF r = 0 THEN w ELSE r, NextWrite(w)) = Append(Events(g, r, w), k)
<1> DEFINE h == [g EXCEPT ![w] = k]
           r1 == IF r = 0 THEN w ELSE r
           q == Events(g, r, w)
           e == Events(h, r1, NextWrite(w))
           a == Append(q, k)
<1>1. h \in [Slot -> 0 .. MaxKeys] /\ r1 \in 0 .. NSlots /\ NextWrite(w) \in Slot
  <2>1. h \in [Slot -> 0 .. MaxKeys]
    OBVIOUS
  <2>2. r1 \in 0 .. NSlots
    BY InterruptAssumption DEF Slot
  <2>3. QED
    BY <2>1, <2>2, WindowArithmetic
<1>2. /\ q \in Seq(0 .. MaxKeys) /\ Len(q) = N(r, w) /\ \A i \in 1 .. N(r, w) : q[i] = g[At(r, i)]
  BY EventsType
<1>3. /\ e \in Seq(0 .. MaxKeys) /\ Len(e) = N(r1, NextWrite(w))
      /\ \A i \in 1 .. N(r1, NextWrite(w)) : e[i] = h[At(r1, i)]
  BY <1>1, EventsType
<1>4. N(r1, NextWrite(w)) = N(r, w) + 1 /\ N(r, w) \in Nat /\ At(r1, N(r, w) + 1) = w
  <2>1. CASE r = 0
    <3>1. N(r, w) = 0
      BY <2>1 DEF N
    <3>2. QED
      BY <2>1, <3>1, WindowArithmetic
  <2>2. CASE r # 0
    BY <2>2, InterruptAssumption, WindowArithmetic
  <2>3. QED
    BY <2>1, <2>2
<1>5. ASSUME NEW i \in 1 .. N(r, w) PROVE h[At(r1, i)] = g[At(r, i)]
  <2>1. r # 0
    BY <1>5 DEF N
  <2>2. At(r, i) # w /\ At(r, i) \in Slot
    BY <2>1, WindowArithmetic
  <2>3. QED
    BY <2>1, <2>2
<1>6. h[w] = k
  OBVIOUS
<1> HIDE DEF h, r1, q, e
<1>7. /\ a \in Seq(0 .. MaxKeys) /\ Len(a) = Len(q) + 1 /\ Len(q) \in Nat
      /\ \A i \in 1 .. Len(q) : a[i] = q[i]
      /\ a[Len(q) + 1] = k
  BY <1>2, AppendedNumber
<1> HIDE DEF a
<1>8. Len(e) = Len(a) /\ Len(e) = N(r, w) + 1
  BY <1>2, <1>3, <1>4, <1>7
<1>9. ASSUME NEW i \in 1 .. Len(e) PROVE e[i] = a[i]
  <2>1. CASE i \in 1 .. N(r, w)
    BY <1>2, <1>3, <1>4, <1>5, <1>7, <2>1
  <2>2. CASE i = N(r, w) + 1
    BY <1>2, <1>3, <1>4, <1>6, <1>7, <2>2
  <2>3. QED
    BY <1>4, <1>8, <2>1, <2>2
<1>10. e = a
  BY <1>3, <1>7, <1>8, <1>9, SeqEqual
<1>11. QED
  BY <1>10 DEF e, a, h, r1, q

\* \DOBUFFEREDTRANSITIONS takes the oldest event.
LEMMA EventsTake ==
  ASSUME NEW g \in [Slot -> 0 .. MaxKeys], NEW r \in 0 .. NSlots, NEW w \in Slot, r # 0
  PROVE  /\ Events(g, r, w) # <<>> /\ Head(Events(g, r, w)) = g[r]
         /\ Events(g, IF NextWrite(r) = w THEN 0 ELSE NextWrite(r), w) = Tail(Events(g, r, w))
<1> DEFINE q == Events(g, r, w)
           r1 == IF NextWrite(r) = w THEN 0 ELSE NextWrite(r)
           e == Events(g, r1, w)
           u == Tail(q)
<1>1. /\ q \in Seq(0 .. MaxKeys) /\ Len(q) = N(r, w) /\ \A i \in 1 .. N(r, w) : q[i] = g[At(r, i)]
  BY EventsType
<1>2. N(r, w) \in Nat \ {0} /\ At(r, 1) = r
  BY InterruptAssumption, WindowArithmetic
<1>3. r1 \in 0 .. NSlots /\ N(r1, w) = N(r, w) - 1
  BY InterruptAssumption, WindowArithmetic DEF N
<1>4. \A i \in 1 .. N(r, w) - 1 : At(r1, i) = At(r, i + 1)
  <2>1. CASE NextWrite(r) = w
    <3>1. N(r, w) - 1 = 0
      BY <2>1, WindowArithmetic
    <3>2. QED
      BY <3>1
  <2>2. CASE NextWrite(r) # w
    BY <2>2, WindowArithmetic
  <2>3. QED
    BY <2>1, <2>2
<1>5. /\ e \in Seq(0 .. MaxKeys) /\ Len(e) = N(r1, w) /\ \A i \in 1 .. N(r1, w) : e[i] = g[At(r1, i)]
  BY <1>3, EventsType
<1> HIDE DEF q, r1, e
<1>6. q # <<>>
  BY <1>1, <1>2
<1>7. /\ u \in Seq(0 .. MaxKeys) /\ Len(u) = Len(q) - 1 /\ Head(q) = q[1]
      /\ \A i \in 1 .. Len(u) : u[i] = q[i + 1] /\ i + 1 \in 1 .. Len(q)
  BY <1>1, <1>6, PopCalls
<1> HIDE DEF u
<1>8. Head(q) = g[r]
  BY <1>1, <1>2, <1>7
<1>9. e = u
  <2>1. Len(e) = Len(u) /\ Len(u) = N(r, w) - 1
    BY <1>1, <1>3, <1>5, <1>7
  <2>2. ASSUME NEW i \in 1 .. Len(e) PROVE e[i] = u[i]
    <3>1. e[i] = g[At(r1, i)] /\ At(r1, i) = At(r, i + 1)
      BY <1>3, <1>4, <1>5, <2>1
    <3>2. u[i] = q[i + 1] /\ i + 1 \in 1 .. N(r, w)
      BY <1>1, <1>7, <2>1
    <3>3. QED
      BY <1>1, <3>1, <3>2
  <2>3. QED
    BY <1>5, <1>7, <2>1, <2>2, SeqEqual
<1>10. QED
  BY <1>6, <1>8, <1>9 DEF q, r1, e, u

-----------------------------------------------------------------------------
(* Every key transition is somewhere, once.                                *)

\* The last transition that has left the display server.
Taken == typed - Len(display)

Keys ==
  /\ RingTypes
  /\ typed \in 0 .. MaxKeys /\ display \in Seq(Nat) /\ Len(display) <= typed
  /\ \A i \in 1 .. Len(display) : display[i] = Taken + i
  /\ KBDEventFlg <= Taken
  /\ Accounted(Events(ring, read, write), seen, dropped, Taken)

LEMMA InitKeys == Init => Keys
<1> SUFFICES ASSUME Init PROVE Keys
  OBVIOUS
<1>1. RingTypes
  BY InterruptAssumption DEF Init, RingTypes, Slot, MIN
<1>2. display \in Seq(Nat) /\ Len(display) = 0 /\ Taken = 0 /\ typed = 0 /\ KBDEventFlg = 0
  <2>1. display \in Seq(Nat) /\ Len(display) = 0
    BY DEF Init
  <2>2. typed = 0 /\ KBDEventFlg = 0
    BY DEF Init
  <2>3. QED
    BY <2>1, <2>2 DEF Taken
<1>3. Events(ring, read, write) = <<>>
  <2>1. RingSeq = <<>>
    BY DEF Init, RingSeq
  <2>2. QED
    BY <1>1, <2>1, RingSeqIs
<1>4. Accounted(<<>>, <<>>, {}, 0)
  BY DEF Accounted, Increasing, Member
<1>5. Accounted(Events(ring, read, write), seen, dropped, Taken)
  BY <1>2, <1>3, <1>4 DEF Init
<1>6. QED
  BY <1>1, <1>2, <1>5, InterruptAssumption DEF Keys

\* A transition leaves the display server for the ring, or is dropped.
LEMMA DisplayKeys ==
  ASSUME Latch, Keys, process_Display_event
  PROVE  Keys'
<1> DEFINE t == Taken
           k == Head(display)
           q == Events(ring, read, write)
           lost == {RingSeq[i] : i \in DOMAIN RingSeq}
<1>1. /\ display # <<>> /\ display \in Seq(Nat) /\ Len(display) <= typed /\ typed \in 0 .. MaxKeys
      /\ DoRing(k) /\ display' = Tail(display) /\ KBDEventFlg' = KBDEventFlg + 1 /\ UNCHANGED <<typed, seen>>
      /\ \A i \in 1 .. Len(display) : display[i] = t + i
      /\ KBDEventFlg <= t /\ KBDEventFlg \in Nat
      /\ ring \in [Slot -> 0 .. MaxKeys] /\ read \in 0 .. NSlots /\ write \in Slot
      /\ Accounted(q, seen, dropped, t)
  BY DEF Keys, RingTypes, Latch, process_Display_event
<1>2. /\ display' \in Seq(Nat) /\ Len(display') = Len(display) - 1 /\ Len(display) \in Nat \ {0}
      /\ k = display[1]
      /\ \A i \in 1 .. Len(display') : display'[i] = display[i + 1] /\ i + 1 \in 1 .. Len(display)
  BY <1>1, PopCalls
<1>3. t \in Nat /\ Taken' = t + 1 /\ k = t + 1 /\ k \in 1 .. MaxKeys /\ k \in 0 .. MaxKeys
  BY <1>1, <1>2, InterruptAssumption DEF Taken
<1>4. /\ typed' \in 0 .. MaxKeys /\ Len(display') <= typed' /\ KBDEventFlg' <= Taken'
      /\ \A i \in 1 .. Len(display') : display'[i] = Taken' + i
  BY <1>1, <1>2, <1>3
<1>5. \A x : x \in lost <=> Member(x, q)
  <2>1. q \in Seq(0 .. MaxKeys) /\ RingSeq = q
    BY <1>1, EventsType, RingSeqIs DEF RingTypes
  <2>2. DOMAIN q = 1 .. Len(q)
    BY <2>1
  <2>3. QED
    BY <2>1, <2>2 DEF Member
<1> HIDE DEF t, k, q
<1>6. CASE k \in Emergency
  <2>1. MIN \in Slot /\ 0 # MIN /\ 0 \in 0 .. NSlots
    BY InterruptAssumption DEF Slot, MIN
  <2>2. /\ ring' = [ring EXCEPT ![MIN] = k] /\ read' = (IF 0 = 0 THEN MIN ELSE 0) /\ write' = NextWrite(MIN)
        /\ dropped' = dropped \cup lost
    BY <1>1, <1>6, <2>1 DEF DoRing, FullRing
  <2>3. Events(ring', read', write') = Append(Events(ring, 0, MIN), k)
    BY <1>1, <1>3, <2>1, <2>2, EventsPut
  <2>4. Events(ring, 0, MIN) = <<>>
    <3>1. N(0, MIN) = 0
      BY DEF N
    <3>2. [i \in 1 .. 0 |-> ring[At(0, i)]] = <<>>
      OBVIOUS
    <3>3. QED
      BY <3>1, <3>2 DEF Events
  <2>5. Accounted(<<>>, seen, dropped', t)
    BY <1>1, <1>3, <1>5, <2>2, AccountedReset
  <2>6. Accounted(Append(<<>>, k), seen', dropped', Taken')
    <3> DEFINE e == <<>>
    <3> HIDE DEF e
    <3>1. Accounted(e, seen, dropped', t)
      BY <2>5 DEF e
    <3>2. Accounted(Append(e, k), seen, dropped', k)
      BY <1>3, <3>1, AccountedPut
    <3>3. Accounted(Append(e, k), seen', dropped', Taken')
      BY <1>1, <1>3, <3>2
    <3>4. QED
      BY <3>3 DEF e
  <2>7. RingTypes'
    <3>1. ring' \in [Slot -> 0 .. MaxKeys]
      BY <1>1, <1>3, <2>2
    <3>2. read' \in 0 .. NSlots /\ write' \in Slot
      BY <2>1, <2>2, InterruptAssumption, WindowArithmetic DEF Slot
    <3>3. QED
      BY <3>1, <3>2 DEF RingTypes
  <2>8. QED
    BY <1>2, <1>4, <2>3, <2>4, <2>6, <2>7 DEF Keys
<1>7. CASE k \notin Emergency /\ read = write
  <2>1. /\ UNCHANGED <<ring, read, write>> /\ dropped' = dropped \cup {k}
    BY <1>1, <1>7 DEF DoRing, FullRing
  <2>2. Accounted(q, seen, dropped \cup {k}, k)
    BY <1>1, <1>3, AccountedDrop
  <2>3. Accounted(Events(ring', read', write'), seen', dropped', Taken')
    BY <1>1, <1>3, <2>1, <2>2 DEF q
  <2>4. QED
    BY <1>1, <1>2, <1>4, <2>1, <2>3 DEF Keys, RingTypes
<1>8. CASE k \notin Emergency /\ read # write
  <2>1. /\ ring' = [ring EXCEPT ![write] = k] /\ read' = (IF read = 0 THEN write ELSE read)
        /\ write' = NextWrite(write) /\ dropped' = dropped
    BY <1>1, <1>8 DEF DoRing, FullRing
  <2>2. Events(ring', read', write') = Append(q, k)
    BY <1>1, <1>3, <1>8, <2>1, EventsPut DEF q
  <2>3. Accounted(Append(q, k), seen, dropped, k)
    BY <1>1, <1>3, AccountedPut
  <2>4. RingTypes'
    <3>1. ring' \in [Slot -> 0 .. MaxKeys]
      BY <1>1, <1>3, <2>1
    <3>2. read' \in 0 .. NSlots /\ write' \in Slot
      BY <1>1, <2>1, InterruptAssumption, WindowArithmetic DEF Slot
    <3>3. QED
      BY <3>1, <3>2 DEF RingTypes
  <2>5. Accounted(Events(ring', read', write'), seen', dropped', Taken')
    BY <1>1, <1>3, <2>1, <2>2, <2>3
  <2>6. QED
    BY <1>2, <1>4, <2>4, <2>5 DEF Keys
<1>9. QED
  BY <1>6, <1>7, <1>8

LEMMA KeysStep == Latch /\ Keys /\ [Next]_vars => Keys'
<1> SUFFICES ASSUME Latch, Keys, [Next]_vars PROVE Keys'
  OBVIOUS
<1>1. CASE Type
  <2>1. /\ typed' = typed + 1 /\ display' = Append(display, typed + 1) /\ typed' \in 0 .. MaxKeys
        /\ display \in Seq(Nat) /\ typed + 1 \in Nat /\ typed \in Nat /\ Len(display) <= typed
        /\ UNCHANGED keyvars
    BY <1>1, InterruptAssumption DEF Type, Keys
  <2>2. /\ display' \in Seq(Nat) /\ Len(display') = Len(display) + 1 /\ Len(display) \in Nat
        /\ \A i \in 1 .. Len(display) : display'[i] = display[i]
        /\ display'[Len(display) + 1] = typed + 1
    BY <2>1, AppendedNumber
  <2>3. Taken' = Taken /\ Taken \in Nat /\ Len(display') <= typed'
    BY <2>1, <2>2 DEF Taken
  <2>4. ASSUME NEW i \in 1 .. Len(display') PROVE display'[i] = Taken' + i
    <3>1. CASE i \in 1 .. Len(display)
      BY <2>2, <2>3, <3>1 DEF Keys
    <3>2. CASE i = Len(display) + 1
      BY <2>1, <2>2, <2>3, <3>2 DEF Taken
    <3>3. QED
      BY <2>2, <3>1, <3>2
  <2>5. QED
    BY <2>1, <2>2, <2>3, <2>4 DEF Keys, RingTypes, keyvars
<1>2. CASE process_Display_event
  BY <1>2, DisplayKeys
<1>3. CASE Deliver
  <2>1. KBDEventFlg' \in {KBDEventFlg, KBDEventFlg - 1} /\ UNCHANGED <<display, typed, ring, read, write, seen, dropped>>
    BY <1>3 DEF Deliver
  <2>2. Taken' = Taken /\ Taken \in Nat /\ KBDEventFlg' <= Taken
    <3>1. Len(display) \in Nat
      BY LenProperties DEF Keys
    <3>2. Taken' = Taken /\ Taken \in Nat
      BY <2>1, <3>1, InterruptAssumption DEF Taken, Keys
    <3>3. QED
      BY <2>1, <3>2 DEF Keys, Latch
  <2>3. QED
    BY <2>1, <2>2 DEF Keys, RingTypes
<1>4. CASE TakeKey
  <2> DEFINE q == Events(ring, read, write)
  <2>1. /\ read # 0 /\ seen' = Append(seen, ring[read])
        /\ read' = IF NextWrite(read) = write THEN 0 ELSE NextWrite(read)
        /\ UNCHANGED <<display, typed, ring, write, KBDEventFlg, dropped>>
    BY <1>4 DEF TakeKey
  <2>2. /\ q # <<>> /\ Head(q) = ring[read]
        /\ Events(ring', read', write') = Tail(q)
    BY <2>1, EventsTake DEF Keys, RingTypes
  <2>3. Taken \in Nat /\ Taken' = Taken
    <3>1. Len(display) \in Nat
      BY LenProperties DEF Keys
    <3>2. QED
      BY <2>1, <3>1, InterruptAssumption DEF Taken, Keys
  <2>4. Accounted(q, seen, dropped, Taken)
    BY DEF Keys
  <2> HIDE DEF q
  <2>5. Accounted(Tail(q), Append(seen, Head(q)), dropped, Taken)
    BY <2>2, <2>3, <2>4, AccountedTake
  <2>6. RingTypes'
    <3>1. read \in 1 .. NSlots
      BY <2>1, InterruptAssumption DEF Keys, RingTypes
    <3>2. NextWrite(read) \in 0 .. NSlots
      BY <3>1, InterruptAssumption, WindowArithmetic DEF Slot, NextWrite, MIN
    <3>3. QED
      BY <2>1, <3>2, InterruptAssumption DEF Keys, RingTypes
  <2>7. QED
    BY <2>1, <2>2, <2>3, <2>5, <2>6 DEF Keys
<1>5. CASE UNCHANGED <<display, typed, ring, read, write, KBDEventFlg, seen, dropped>>
  BY <1>5 DEF Keys, RingTypes, Taken
<1>6. QED
  BY <1>1, <1>2, <1>3, <1>4, <1>5
     DEF Next, Check, Lisp, Signal, SocketInput, PacketArrives, EnterCheck, ReturnTest, ContextSwitch,
         ReclaimDue, PostInterrupt, EndDisplay, process_io_events, NoRequest, ClearIrq, Disabled, ReCheck,
         ReturnStore, EndKeys, EndCall, Serve, CauseInterrupt, vars, keyvars

\* An increasing sequence has as many members as elements.
LEMMA IncreasingCount ==
  ASSUME NEW t \in Nat, NEW q \in Seq(1 .. t), Increasing(q), NEW Q, Q = {q[i] : i \in DOMAIN q}
  PROVE  IsFiniteSet(Q) /\ Cardinality(Q) = Len(q) /\ Q \subseteq 1 .. t /\ \A k : k \in Q <=> Member(k, q)
<1>1. q \in [1 .. Len(q) -> 1 .. t] /\ Len(q) \in Nat /\ DOMAIN q = 1 .. Len(q)
  BY LenProperties
<1>2. Q \subseteq 1 .. t /\ \A k : k \in Q <=> Member(k, q)
  BY <1>1 DEF Member
<1>3. q \in Bijection(1 .. Len(q), Q)
  <2>1. q \in [1 .. Len(q) -> Q]
    BY <1>1
  <2>2. ASSUME NEW i \in 1 .. Len(q), NEW j \in 1 .. Len(q), q[i] = q[j] PROVE i = j
    <3>1. q[i] \in 1 .. t /\ q[j] \in 1 .. t
      BY <1>1
    <3>2. ~(i < j) /\ ~(j < i)
      BY <2>2, <3>1 DEF Increasing
    <3>3. QED
      BY <1>1, <3>2
  <2>3. ASSUME NEW k \in Q PROVE \E i \in 1 .. Len(q) : q[i] = k
    BY <1>1
  <2>4. q \in Injection(1 .. Len(q), Q)
    BY <2>1, <2>2, Fun_IsInj
  <2>5. q \in Surjection(1 .. Len(q), Q)
    BY <2>1, <2>3, Fun_IsSurj
  <2>6. QED
    BY <2>4, <2>5 DEF Bijection
<1>4. ExistsBijection(1 .. Len(q), Q)
  BY <1>3 DEF ExistsBijection
<1>5. Cardinality(Q) = Len(q)
  BY <1>1, <1>4, FS_CountingElements
<1>6. IsFiniteSet(Q)
  BY <1>1, <1>4, FS_NatBijection
<1>7. QED
  BY <1>2, <1>5, <1>6

\* Three disjoint sets that cover 1 .. t.
LEMMA CountParts ==
  ASSUME NEW t \in Nat, NEW Q, NEW S, NEW d, IsFiniteSet(Q), IsFiniteSet(S), d \subseteq 1 .. t,
         Q \cup S \cup d = 1 .. t, Q \cap S = {}, (Q \cup S) \cap d = {}
  PROVE  Cardinality(Q) + Cardinality(S) + Cardinality(d) = t /\ Cardinality(Q) \in Nat /\ Cardinality(S) \in Nat
         /\ Cardinality(d) \in Nat
<1>1. IsFiniteSet(1 .. t) /\ Cardinality(1 .. t) = t
  BY FS_Interval
<1>2. IsFiniteSet(d)
  BY <1>1, FS_Subset
<1>3. Cardinality({}) = 0
  BY FS_EmptySet
<1>4. IsFiniteSet(Q \cup S) /\ Cardinality(Q \cup S) = Cardinality(Q) + Cardinality(S) - Cardinality(Q \cap S)
  BY FS_Union
<1>5. Cardinality((Q \cup S) \cup d) = Cardinality(Q \cup S) + Cardinality(d) - Cardinality((Q \cup S) \cap d)
  BY <1>2, <1>4, FS_Union
<1>6. Cardinality(Q) \in Nat /\ Cardinality(S) \in Nat /\ Cardinality(d) \in Nat
  BY <1>2, FS_CardinalityType
<1>7. Cardinality(Q \cap S) = 0 /\ Cardinality((Q \cup S) \cap d) = 0 /\ Cardinality((Q \cup S) \cup d) = t
  BY <1>1, <1>3
<1>8. QED
  BY <1>4, <1>5, <1>6, <1>7

LEMMA KeysImplyAccounted == Keys => KeysAccounted
<1> SUFFICES ASSUME Keys PROVE KeysAccounted
  OBVIOUS
<1> DEFINE t == Taken
           q == RingSeq
           W == {display[i] : i \in DOMAIN display}
<1>1. /\ display \in Seq(Nat) /\ Len(display) \in Nat /\ DOMAIN display = 1 .. Len(display)
      /\ typed \in Nat /\ Len(display) <= typed
  BY LenProperties, InterruptAssumption DEF Keys
<1>2. t \in Nat /\ typed = t + Len(display) /\ \A i \in 1 .. Len(display) : display[i] = t + i
  BY <1>1 DEF Keys, Taken
<1>3. Accounted(q, seen, dropped, t)
  BY RingSeqIs DEF Keys
<1> HIDE DEF t, q
<1>4. W = t + 1 .. typed
  <2>1. ASSUME NEW k \in t + 1 .. typed PROVE k \in W
    <3>1. k - t \in 1 .. Len(display) /\ display[k - t] = k
      BY <1>2, <1>1
    <3>2. QED
      BY <1>1, <3>1
  <2>2. ASSUME NEW k \in W PROVE k \in t + 1 .. typed
    BY <1>1, <1>2
  <2>3. QED
    BY <2>1, <2>2
<1> HIDE DEF W
<1>5. Cardinality(W) = typed - t
  <2> DEFINE a == t + 1
  <2>1. a \in Int /\ typed \in Int /\ W = a .. typed
    BY <1>1, <1>2, <1>4
  <2> HIDE DEF a
  <2>2. Cardinality(a .. typed) = IF a > typed THEN 0 ELSE typed - a + 1
    BY <2>1, FS_Interval
  <2>3. Cardinality(W) = IF a > typed THEN 0 ELSE typed - a + 1
    BY <2>1, <2>2
  <2>4. QED
    BY <1>1, <1>2, <2>3 DEF a
<1>6. Queued = {q[i] : i \in DOMAIN q} /\ Seen = {seen[i] : i \in DOMAIN seen}
  BY DEF Queued, Seen, q
<1>7. /\ IsFiniteSet(Queued) /\ Cardinality(Queued) = Len(q) /\ Queued \subseteq 1 .. t
      /\ \A k : k \in Queued <=> Member(k, q)
  BY <1>2, <1>3, <1>6, IncreasingCount DEF Accounted
<1>8. /\ IsFiniteSet(Seen) /\ Seen \subseteq 1 .. t
      /\ \A k : k \in Seen <=> Member(k, seen)
  BY <1>2, <1>3, <1>6, IncreasingCount DEF Accounted
<1>9. Queued \cap Seen = {}
  <2> SUFFICES ASSUME NEW k \in Queued, k \in Seen PROVE FALSE
    OBVIOUS
  <2>1. PICK i \in 1 .. Len(seen), j \in 1 .. Len(q) : seen[i] = k /\ q[j] = k
    BY <1>7, <1>8 DEF Member
  <2>2. seen[i] < q[j] /\ k \in Nat
    BY <1>3, <1>7 DEF Accounted
  <2>3. QED
    BY <2>1, <2>2
<1>10. /\ Queued \cup Seen \cup dropped = 1 .. t /\ (Queued \cup Seen) \cap dropped = {} /\ dropped \subseteq 1 .. t
  BY <1>3, <1>7, <1>8 DEF Accounted
<1>11. Cardinality(Queued) + Cardinality(Seen) + Cardinality(dropped) = t
       /\ Cardinality(Queued) \in Nat /\ Cardinality(Seen) \in Nat /\ Cardinality(dropped) \in Nat
  BY <1>2, <1>7, <1>8, <1>9, <1>10, CountParts
<1>12. 1 .. typed = W \cup Queued \cup Seen \cup dropped
  BY <1>1, <1>2, <1>4, <1>10
<1>13. Cardinality(W) + Cardinality(Queued) + Cardinality(Seen) + Cardinality(dropped) = typed
  BY <1>1, <1>2, <1>5, <1>11
<1>14. \A i, j \in DOMAIN seen : i < j => seen[i] < seen[j]
  BY <1>3, LenProperties DEF Accounted, Increasing
<1>15. Len(RingSeq) = Cardinality(Queued)
  BY <1>7 DEF q
<1>16. QED
  BY <1>12, <1>13, <1>14, <1>15 DEF KeysAccounted, W

\* Whatever signals, overflows of the ring and emergency resets do, every key
\* transition is at exactly one place, Lisp takes them in order, and one in the
\* ring is never left unnoticed; the ring's indices and the nesting of calls
\* stay in range.
THEOREM KeysNeverLost == Spec => []KeysInv
<1>1. Types /\ Latch /\ Keys => KeysInv
  <2> SUFFICES ASSUME Types, Latch, Keys PROVE KeysInv
    OBVIOUS
  <2>1. KeysAccounted
    BY KeysImplyAccounted
  <2>2. KBDEventFlg \in 0 .. MaxKeys
    <3>1. Len(display) \in Nat
      BY LenProperties DEF Keys
    <3>2. Taken <= MaxKeys /\ Taken \in Int
      BY <3>1, InterruptAssumption DEF Keys, Taken
    <3>3. QED
      BY <3>2, InterruptAssumption DEF Keys, Latch
  <2>3. TypeOK
    BY <2>2 DEF Types, Latch, Keys, RingTypes, TypeOK
  <2>4. NoStuckKey
    <3>1. DOMAIN calls = 1 .. Len(calls)
      BY LenProperties DEF Types
    <3>2. Member("DOBUFFEREDTRANSITION", calls) => "DOBUFFEREDTRANSITION" \in {calls[i] : i \in DOMAIN calls}
      BY <3>1 DEF Member
    <3>3. QED
      BY <3>2 DEF Latch, NoStuckKey
  <2>5. QED
    BY <2>1, <2>3, <2>4 DEF KeysInv
<1>2. QED
  BY <1>1, InitTypesLatch, InitKeys, TypesStep, LatchStep, KeysStep, PTL DEF Spec
=============================================================================
