-------------------------- MODULE UartDriverProofs --------------------------
(***************************************************************************)
(* The driver of the RS485 line for every size of the ring, every length   *)
(* of frames and responses, every timer and every round of the loop.       *)
(*                                                                         *)
(* The line is released because the flags that ask for it survive until an *)
(* interrupt looks at them: the last but one byte raises the flag of DMA,  *)
(* its interrupt enables the one of the transmission, and no other         *)
(* interrupt clears that enable before the last byte has left.             *)
(*                                                                         *)
(* A frame that comes to a driver at rest is followed from its first byte: *)
(* it is Collecting until the loop fetches it and Handed from then on.     *)
(* While it comes, each of the three parties that could announce it is     *)
(* kept from doing so by a reason of its own; once it is over, whichever   *)
(* announces first finds the mark where the frame ends.                    *)
(***************************************************************************)
EXTENDS UartDriver, TLAPS

(* Constants as plain numbers.                                             *)
LEMMA SizesFit ==
    /\ RxSize \in Nat /\ RxSize >= 1
    /\ PollSilence \in Nat /\ PollSilence >= 1
    /\ T35Steps \in Nat /\ T35Steps >= 1
    /\ MinGap \in Nat /\ MinGap >= 1
    /\ MaxRound \in Nat /\ MaxRound >= 1
    /\ ResponseLen \in Nat /\ ResponseLen >= 2
    /\ \A n \in FrameLens : n \in Nat /\ n >= 2 /\ n < RxSize
BY UartConstants

(* Positions in the ring wrap.                                             *)
LEMMA SlotsFit ==
    /\ 0 \in Slots
    /\ \A s \in Slots : (s + 1) % RxSize \in Slots
BY SizesFit DEF Slots

-----------------------------------------------------------------------------
(* What the interrupts make of the shared record is such a record, and     *)
(* they do not touch what the line still waits for.                        *)
LEMMA UsartHandler ==
    ASSUME NEW u \in Usart, NEW h \in Slots
    PROVE  /\ USART1_IRQHandler(u, h) \in Usart
           /\ USART1_IRQHandler(u, h).left = u.left
           /\ USART1_IRQHandler(u, h).tc = u.tc
           /\ USART1_IRQHandler(u, h).tcif7 = u.tcif7
           /\ ~u.tc => /\ USART1_IRQHandler(u, h).de = u.de
                       /\ USART1_IRQHandler(u, h).tcie = u.tcie
           /\ u.tc /\ u.tcie => ~USART1_IRQHandler(u, h).de
           /\ ~u.de => ~USART1_IRQHandler(u, h).de
           /\ USART1_IRQHandler(u, h).de => USART1_IRQHandler(u, h).tcie = u.tcie
<1> DEFINE v == IdleServed(u, h)
<1>1. /\ v \in Usart
      /\ v.left = u.left /\ v.tc = u.tc /\ v.tcif7 = u.tcif7
      /\ v.de = u.de /\ v.tcie = u.tcie
  BY DEF IdleServed, Usart
<1> HIDE DEF v
<1>2. /\ TcServed(v) \in Usart
      /\ TcServed(v).left = v.left /\ TcServed(v).tc = v.tc /\ TcServed(v).tcif7 = v.tcif7
      /\ v.tc => ~TcServed(v).de
      /\ ~v.tc => TcServed(v) = v
  BY <1>1 DEF TcServed, Usart
<1>3. CASE u.idle \/ (u.tc /\ u.tcie)
  <2>1. USART1_IRQHandler(u, h) = TcServed(v)
    BY <1>3 DEF USART1_IRQHandler, v
  <2>2. QED
    BY <1>1, <1>2, <2>1
<1>4. CASE ~(u.idle \/ (u.tc /\ u.tcie))
  <2>1. USART1_IRQHandler(u, h) = u
    BY <1>4 DEF USART1_IRQHandler
  <2>2. QED
    BY <1>4, <2>1
<1>5. QED
  BY <1>3, <1>4

(* The interrupt of DMA hands the flag over.                               *)
LEMMA DmaHandler ==
    ASSUME NEW u \in Usart
    PROVE  LET v == DMA2_Stream7_IRQHandler(u) IN
           /\ v \in Usart
           /\ v.left = u.left /\ v.tc = u.tc /\ v.de = u.de
           /\ v.tcie = (u.tcie \/ u.tcif7)
           /\ ~v.tcif7
BY DEF DMA2_Stream7_IRQHandler, Usart

(* After the interrupts a transmission that is over has released the line, *)
(* and one that goes on has kept its flags and the line.                   *)
LEMMA InterruptsRelease ==
    ASSUME NEW u \in Usart, NEW h \in Slots
    PROVE  LET w == InterruptsServed(u, h) IN
           /\ w \in Usart
           /\ w.left = u.left /\ w.tc = u.tc
           /\ u.tc /\ (u.tcie \/ u.tcif7) => ~w.de
           /\ ~u.tc => w.de = u.de /\ w.tcie = (u.tcie \/ u.tcif7)
           /\ ~u.de => ~w.de
<1> DEFINE a == USART1_IRQHandler(u, h)
           b == DMA2_Stream7_IRQHandler(a)
           w == USART1_IRQHandler(b, h)
<1>1. InterruptsServed(u, h) = w
  BY DEF InterruptsServed
<1>2. /\ a \in Usart
      /\ a.left = u.left /\ a.tc = u.tc /\ a.tcif7 = u.tcif7
      /\ ~u.tc => a.de = u.de /\ a.tcie = u.tcie
      /\ u.tc /\ u.tcie => ~a.de
      /\ ~u.de => ~a.de
      /\ a.de => a.tcie = u.tcie
  BY UsartHandler
<1> HIDE DEF a
<1>3. /\ b \in Usart
      /\ b.left = a.left /\ b.tc = a.tc /\ b.de = a.de
      /\ b.tcie = (a.tcie \/ a.tcif7)
  BY <1>2, DmaHandler
<1> HIDE DEF b
<1>4. /\ w \in Usart
      /\ w.left = b.left /\ w.tc = b.tc
      /\ ~b.tc => w.de = b.de /\ w.tcie = b.tcie
      /\ b.tc /\ b.tcie => ~w.de
      /\ ~b.de => ~w.de
  BY <1>3, UsartHandler
<1> HIDE DEF w
<1>5. u.tc /\ (u.tcie \/ u.tcif7) => ~w.de
  <2>1. CASE u.tc /\ u.tcie
    BY <1>2, <1>3, <1>4, <2>1
  <2>2. CASE u.tc /\ u.tcif7
    BY <1>2, <1>3, <1>4, <2>2
  <2>3. QED
    BY <2>1, <2>2
<1>6. QED
  BY <1>1, <1>2, <1>3, <1>4, <1>5

(* The silence timer touches its own fields and the announcement only.     *)
LEMMA SilenceKeeps ==
    ASSUME NEW u \in Usart
    PROVE  LET c == SilenceCounted(u) IN
           /\ c \in Usart
           /\ c.left = u.left /\ c.tc = u.tc /\ c.de = u.de
           /\ c.tcie = u.tcie /\ c.tcif7 = u.tcif7
<1>1. u.counter + 1 < T35Steps => u.counter + 1 \in 0 .. T35Steps - 1
  BY SizesFit DEF Usart
<1>2. u.counter \in Int /\ 0 \in 0 .. T35Steps - 1
  BY SizesFit DEF Usart
<1>3. CASE ~u.running
  BY <1>3 DEF SilenceCounted
<1>4. CASE u.running /\ u.counter + 1 >= T35Steps
  BY <1>2, <1>4 DEF SilenceCounted, Usart
<1>5. CASE u.running /\ u.counter + 1 < T35Steps
  <2>1. ~(u.counter + 1 >= T35Steps)
    BY <1>2, <1>5, SizesFit
  <2>2. SilenceCounted(u) = [u EXCEPT !.counter = u.counter + 1]
    BY <1>5, <2>1 DEF SilenceCounted
  <2>3. QED
    BY <1>1, <1>5, <2>2 DEF Usart
<1>6. QED
  BY <1>2, <1>3, <1>4, <1>5, SizesFit

(* The tick touches timers only.                                           *)
LEMMA SysTickKeeps ==
    ASSUME NEW u \in Usart
    PROVE  LET v == SysTickServed(u) IN
           /\ v \in Usart
           /\ v.left = u.left /\ v.tc = u.tc /\ v.de = u.de
           /\ v.tcie = u.tcie /\ v.tcif7 = u.tcif7
<1> DEFINE c == SilenceCounted(u)
<1>1. /\ c \in Usart
      /\ c.left = u.left /\ c.tc = u.tc /\ c.de = u.de
      /\ c.tcie = u.tcie /\ c.tcif7 = u.tcif7
  BY SilenceKeeps
<1> HIDE DEF c
<1>2. (IF c.wait > 0 THEN c.wait - 1 ELSE 0) \in 0 .. PollSilence
  BY <1>1, SizesFit DEF Usart
<1>3. SysTickServed(u) = [c EXCEPT !.wait = IF c.wait > 0 THEN c.wait - 1 ELSE 0]
  BY DEF SysTickServed, c
<1>4. QED
  BY <1>1, <1>2, <1>3 DEF Usart

(* A transmission under way has not raised its flag, and the last byte is  *)
(* expected by one of the two interrupts.                                  *)
Flagged(u) == /\ u.left > 0 => ~u.tc
              /\ u.left = 1 => u.tcif7 \/ u.tcie

(* The line is driven with nothing to send.                                *)
Overdue(u) == u.de /\ u.left = 0

(* An interrupt will find that the line can be released.                   *)
Releasable(u) == u.tc /\ (u.tcif7 \/ u.tcie)

(* A byte that leaves keeps the flags in order, and the last one asks for  *)
(* the release.                                                            *)
LEMMA ByteLeaves ==
    ASSUME NEW u \in Usart, Flagged(u), NEW heard \in BOOLEAN
    PROVE  LET v == LineHeard(ByteLeft(u), heard) IN
           /\ v \in Usart
           /\ Flagged(v)
           /\ v.de = u.de
           /\ v.left = 0 => \/ Releasable(v)
                            \/ u.left = 0 /\ (Releasable(u) => Releasable(v))
<1> DEFINE b == ByteLeft(u)
<1>1. u.left \in Nat /\ u.left <= ResponseLen
  BY SizesFit DEF Usart
<1>2. CASE u.left = 0
  <2>1. b = u
    BY <1>2 DEF ByteLeft
  <2>2. /\ LineHeard(u, heard) \in Usart
        /\ LineHeard(u, heard).de = u.de /\ LineHeard(u, heard).left = u.left
        /\ LineHeard(u, heard).tc = u.tc /\ LineHeard(u, heard).tcie = u.tcie
        /\ LineHeard(u, heard).tcif7 = u.tcif7
    BY DEF LineHeard, Usart
  <2>3. QED
    BY <1>2, <2>1, <2>2 DEF Flagged, Releasable
<1>3. CASE u.left > 0
  <2>1. b = [u EXCEPT !.left = u.left - 1,
                      !.tcif7 = u.tcif7 \/ u.left = 2,
                      !.tc = u.tc \/ u.left = 1]
    BY <1>1, <1>3 DEF ByteLeft
  <2>2. u.left - 1 \in 0 .. ResponseLen
    BY <1>1, <1>3, SizesFit
  <2>3. /\ b \in Usart
        /\ b.left = u.left - 1 /\ b.de = u.de /\ b.tcie = u.tcie
        /\ b.tcif7 = (u.tcif7 \/ u.left = 2)
        /\ b.tc = (u.tc \/ u.left = 1)
    BY <2>1, <2>2 DEF Usart
  <2> HIDE DEF b
  <2>4. /\ LineHeard(b, heard) \in Usart
        /\ LineHeard(b, heard).de = b.de /\ LineHeard(b, heard).left = b.left
        /\ LineHeard(b, heard).tc = b.tc /\ LineHeard(b, heard).tcie = b.tcie
        /\ LineHeard(b, heard).tcif7 = b.tcif7
    BY <2>3 DEF LineHeard, Usart
  <2>5. Flagged(LineHeard(b, heard))
    <3>1. /\ b.left > 0 => u.left # 1
          /\ b.left = 1 => u.left = 2
      BY <1>1, <2>3
    <3>2. ~u.tc
      BY <1>3 DEF Flagged
    <3>3. b.left > 0 => ~b.tc
      BY <2>3, <3>1, <3>2, Zenon
    <3>4. b.left = 1 => b.tcif7
      BY <2>3, <3>1, Zenon
    <3>5. QED
      BY <2>4, <3>3, <3>4 DEF Flagged
  <2>6. b.left = 0 => Releasable(LineHeard(b, heard))
    <3>1. b.left = 0 => u.left = 1
      BY <1>1, <2>3
    <3>2. QED
      BY <2>3, <2>4, <3>1 DEF Flagged, Releasable
  <2>7. QED
    BY <2>3, <2>4, <2>5, <2>6 DEF b
<1>4. QED
  BY <1>1, <1>2, <1>3

(* A slot of the line, whether or not the CPU runs.                        *)
LEMMA SlotReleases ==
    ASSUME usart \in Usart, stalled \in BOOLEAN, Flagged(usart),
           NEW heard \in BOOLEAN, NEW h \in Slots,
           Overdue(usart) => pc = "driving" \/ (stalled /\ Releasable(usart)),
           stalled => pc = "served"
    PROVE  LET w == AfterSlot(usart, heard, h) IN
           /\ w \in Usart
           /\ Flagged(w)
           /\ Overdue(w) => pc = "driving" \/ (stalled /\ Releasable(w))
<1> DEFINE v == LineHeard(ByteLeft(usart), heard)
           i == InterruptsServed(v, h)
           s == SysTickServed(i)
<1>1. /\ v \in Usart
      /\ Flagged(v)
      /\ v.de = usart.de
      /\ v.left = 0 => \/ Releasable(v)
                       \/ usart.left = 0 /\ (Releasable(usart) => Releasable(v))
  BY ByteLeaves
<1>2. AfterSlot(usart, heard, h) = IF stalled THEN v ELSE s
  BY DEF AfterSlot
<1> HIDE DEF v
<1>3. CASE stalled
  <2>1. Overdue(v) => Releasable(v)
    BY <1>1, <1>3 DEF Overdue
  <2>2. QED
    BY <1>1, <1>2, <1>3, <2>1
<1>4. CASE ~stalled
  <2>1. /\ i \in Usart
        /\ i.left = v.left /\ i.tc = v.tc
        /\ v.tc /\ (v.tcie \/ v.tcif7) => ~i.de
        /\ ~v.tc => i.tcie = (v.tcie \/ v.tcif7)
        /\ ~v.de => ~i.de
    BY <1>1, InterruptsRelease
  <2> HIDE DEF i
  <2>2. /\ s \in Usart
        /\ s.left = i.left /\ s.tc = i.tc /\ s.de = i.de
        /\ s.tcie = i.tcie /\ s.tcif7 = i.tcif7
    BY <2>1, SysTickKeeps
  <2> HIDE DEF s
  <2>3. Flagged(s)
    <3>1. s.left = 1 => s.left > 0
      OBVIOUS
    <3>2. s.left > 0 => ~v.tc
      BY <1>1, <2>1, <2>2 DEF Flagged
    <3>3. s.left > 0 => ~s.tc
      BY <2>1, <2>2, <3>2
    <3>4. s.left = 1 => s.tcie
      BY <1>1, <2>1, <2>2, <3>1, <3>2, Zenon DEF Flagged
    <3>5. QED
      BY <3>3, <3>4 DEF Flagged
  <2>4. Overdue(s) => pc = "driving"
    BY <1>1, <1>4, <2>1, <2>2 DEF Overdue, Releasable
  <2>5. QED
    BY <1>2, <1>4, <2>2, <2>3, <2>4
<1>5. QED
  BY <1>3, <1>4

-----------------------------------------------------------------------------
(* The line is driven without need only before the transmission begins, or *)
(* while the CPU is stalled and the release is due.                        *)
LineInv == /\ Flagged(usart)
           /\ stalled => pc = "served"
           /\ Overdue(usart) => pc = "driving" \/ (stalled /\ Releasable(usart))

(* The rest of the state, usart aside.                                     *)
LEMMA ByteSent ==
    ASSUME TypeOK, NEW byte \in Byte, Arrives(byte)
    PROVE  /\ lastByte' \in Byte
           /\ gap' \in 0 .. MinGap
           /\ ring' \in [Slots -> Byte \union {Blank}]
           /\ head' \in Slots
           /\ alone' \in BOOLEAN
<1>1. lastByte' = byte /\ gap' = 0 /\ 0 \in 0 .. MinGap
  BY SizesFit DEF Arrives
<1>2. alone' \in BOOLEAN
  BY DEF Arrives, AtRest, TypeOK, Usart
<1>3. CASE usart.de
  BY <1>1, <1>2, <1>3 DEF Arrives, reception, TypeOK
<1>4. CASE ~usart.de
  <2>1. ring' = [ring EXCEPT ![head] = byte] /\ head' = (head + 1) % RxSize
    BY <1>4 DEF Arrives
  <2>2. QED
    BY <1>1, <1>2, <2>1, SlotsFit DEF TypeOK
<1>5. QED
  BY <1>3, <1>4

(* The bytes a sender sends are bytes of frames.                           *)
LEMMA BytesFit ==
    /\ \A n \in FrameLens : <<n, 1>> \in Byte
    /\ TypeOK /\ InFrame => <<lastByte[1], lastByte[2] + 1>> \in Byte
<1>1. ASSUME NEW n \in FrameLens
      PROVE  <<n, 1>> \in Byte
  <2>1. 1 \in 1 .. RxSize /\ 1 <= n
    BY SizesFit
  <2>2. QED
    BY <2>1 DEF Byte
<1>2. ASSUME TypeOK, InFrame
      PROVE  <<lastByte[1], lastByte[2] + 1>> \in Byte
  <2>1. lastByte # Blank
    BY <1>2 DEF InFrame, Blank
  <2>2. lastByte[1] \in FrameLens /\ lastByte[2] \in 1 .. RxSize
    BY <1>2, <2>1 DEF TypeOK, Byte
  <2>3. lastByte[2] + 1 \in 1 .. RxSize /\ lastByte[2] + 1 <= lastByte[1]
    BY <1>2, <2>2, SizesFit DEF InFrame
  <2>4. QED
    BY <2>2, <2>3 DEF Byte
<1>3. QED
  BY <1>1, <1>2

(* What the poll makes of its head and the shared record.                  *)
LEMMA PollKeeps ==
    ASSUME TypeOK
    PROVE  /\ Polled[1] \in Slots \union {None}
           /\ Polled[2] \in Usart
           /\ Polled[2].left = usart.left /\ Polled[2].tc = usart.tc
           /\ Polled[2].de = usart.de /\ Polled[2].tcie = usart.tcie
           /\ Polled[2].tcif7 = usart.tcif7
<1>1. /\ head \in Slots /\ rtuLastHead \in Slots \union {None} /\ usart \in Usart
      /\ PollSilence \in 0 .. PollSilence
  BY SizesFit DEF TypeOK
<1>2. /\ [usart EXCEPT !.wait = PollSilence] \in Usart
      /\ [usart EXCEPT !.frameHead = head, !.ready = TRUE] \in Usart
  BY <1>1 DEF Usart
<1>3. PICK w \in {usart, [usart EXCEPT !.wait = PollSilence],
                  [usart EXCEPT !.frameHead = head, !.ready = TRUE]} :
          Polled[2] = w /\ Polled[1] \in {head, rtuLastHead, None}
  BY DEF Polled
<1>4. w.left = usart.left /\ w.tc = usart.tc /\ w.de = usart.de
      /\ w.tcie = usart.tcie /\ w.tcif7 = usart.tcif7
  BY <1>1, <1>3 DEF Usart
<1>5. QED
  BY <1>1, <1>2, <1>3, <1>4

-----------------------------------------------------------------------------
(* Types and flags are one induction: the flags are bits of the record.    *)
LEMMA LineHolds == Spec => [](TypeOK /\ LineInv)
<1>1. Init => TypeOK /\ LineInv
  <2> SUFFICES ASSUME Init PROVE TypeOK /\ LineInv
    OBVIOUS
  <2>1. /\ 0 \in 0 .. T35Steps - 1 /\ 0 \in 0 .. PollSilence /\ 0 \in 0 .. ResponseLen
        /\ 0 \in 0 .. MaxRound /\ MinGap \in 0 .. MinGap
    BY SizesFit
  <2>2. UsartInit \in Usart
    BY <2>1, SlotsFit DEF UsartInit, Usart
  <2>3. TypeOK
    BY <2>1, <2>2, SlotsFit DEF Init, TypeOK
  <2>4. LineInv
    BY DEF Init, LineInv, UsartInit, Flagged, Overdue
  <2>5. QED
    BY <2>3, <2>4
<1>2. TypeOK /\ LineInv /\ [Next]_vars => TypeOK' /\ LineInv'
  <2> SUFFICES ASSUME TypeOK, LineInv, [Next]_vars
               PROVE  TypeOK' /\ LineInv'
    OBVIOUS
  <2>1. /\ usart \in Usart /\ stalled \in BOOLEAN /\ head \in Slots /\ tail \in Slots
        /\ Flagged(usart)
        /\ stalled => pc = "served"
        /\ Overdue(usart) => pc = "driving" \/ (stalled /\ Releasable(usart))
        /\ usart.de \in BOOLEAN
    BY DEF TypeOK, LineInv, Usart
  <2>2. ASSUME TimePasses
        PROVE  round' \in 0 .. MaxRound
    BY <2>2, SizesFit DEF TimePasses, TypeOK
  <2>3. ASSUME TimePasses, NEW byte \in Byte, Arrives(byte),
               UNCHANGED <<poll, stalled, pc, got>>
        PROVE  TypeOK' /\ LineInv'
    <3>1. /\ lastByte' \in Byte /\ gap' \in 0 .. MinGap
          /\ ring' \in [Slots -> Byte \union {Blank}]
          /\ head' \in Slots /\ alone' \in BOOLEAN
      BY <2>3, ByteSent
    <3>2. usart' = AfterSlot(usart, ~usart.de, head') /\ (~usart.de) \in BOOLEAN
      BY <2>3 DEF Arrives
    <3>3. /\ usart' \in Usart
          /\ Flagged(usart')
          /\ Overdue(usart') => pc = "driving" \/ (stalled /\ Releasable(usart'))
      BY <2>1, <3>1, <3>2, SlotReleases
    <3>4. TypeOK'
      BY <2>2, <2>3, <3>1, <3>3 DEF TypeOK, poll
    <3>5. LineInv'
      BY <2>1, <2>3, <3>3 DEF LineInv
    <3>6. QED
      BY <3>4, <3>5
  <2>4. CASE FrameStarts
    <3>1. PICK n \in FrameLens : Arrives(<<n, 1>>)
      BY <2>4 DEF FrameStarts
    <3>2. QED
      BY <2>3, <2>4, <3>1, BytesFit DEF FrameStarts
  <2>5. CASE FrameGoesOn
    BY <2>3, <2>5, BytesFit DEF FrameGoesOn
  <2>6. CASE Silence
    <3>1. gap' \in 0 .. MinGap /\ alone' \in BOOLEAN
      <4>1. CASE Pause
        BY <4>1, SizesFit DEF Pause, TypeOK, Usart
      <4>2. CASE BetweenFrames
        BY <4>2, SizesFit DEF BetweenFrames, TypeOK
      <4>3. QED
        BY <2>6, <4>1, <4>2 DEF Silence
    <3>2. usart' = AfterSlot(usart, FALSE, head)
      BY <2>6 DEF Silence
    <3>3. /\ usart' \in Usart
          /\ Flagged(usart')
          /\ Overdue(usart') => pc = "driving" \/ (stalled /\ Releasable(usart'))
      BY <2>1, <3>2, SlotReleases
    <3>4. TypeOK'
      BY <2>2, <2>6, <3>1, <3>3 DEF Silence, TypeOK, reception, poll
    <3>5. LineInv'
      BY <2>1, <2>6, <3>3 DEF LineInv, Silence
    <3>6. QED
      BY <3>4, <3>5
  <2>7. CASE StallBegins
    <3>1. TypeOK'
      BY <2>7 DEF StallBegins, TypeOK, line, reception, poll
    <3>2. LineInv'
      BY <2>1, <2>7 DEF StallBegins, LineInv
    <3>3. QED
      BY <3>1, <3>2
  <2>8. CASE StallEnds
    <3>1. usart' = InterruptsServed(usart, head)
      BY <2>8 DEF StallEnds
    <3>2. /\ usart' \in Usart
          /\ usart'.left = usart.left /\ usart'.tc = usart.tc
          /\ usart.tc /\ (usart.tcie \/ usart.tcif7) => ~usart'.de
          /\ ~usart.tc => usart'.de = usart.de
                           /\ usart'.tcie = (usart.tcie \/ usart.tcif7)
          /\ ~usart.de => ~usart'.de
      BY <2>1, <3>1, InterruptsRelease
    <3>3. Flagged(usart')
      <4>1. usart.left = 1 => usart.left > 0
        OBVIOUS
      <4>2. QED
        BY <2>1, <3>2, <4>1, Zenon DEF Flagged
    <3>4. ~Overdue(usart')
      BY <2>1, <2>8, <3>2 DEF Overdue, Releasable, StallEnds
    <3>5. TypeOK'
      BY <2>8, <3>2 DEF StallEnds, TypeOK, line, reception, poll
    <3>6. LineInv'
      BY <2>8, <3>3, <3>4 DEF StallEnds, LineInv
    <3>7. QED
      BY <3>5, <3>6
  <2>9. ASSUME LoopRuns
        PROVE  ~stalled /\ round' \in 0 .. MaxRound
    BY <2>9, SizesFit DEF LoopRuns
  <2>10. CASE PollAndFetch
    <3>1. ~stalled /\ stalled' = stalled /\ pc # "driving" /\ pc' \in {"loop", "fetched"}
      BY <2>9, <2>10 DEF PollAndFetch, InLoop
    <3>2. /\ usart' \in Usart
          /\ usart'.left = usart.left /\ usart'.tc = usart.tc
          /\ usart'.de = usart.de /\ usart'.tcie = usart.tcie
          /\ usart'.tcif7 = usart.tcif7
          /\ rtuLastHead' \in Slots \union {None}
      BY <2>10, PollKeeps DEF PollAndFetch
    <3>3. usart'.frameHead \in Slots
      BY <3>2 DEF Usart
    <3>4. /\ tail' \in Slots
          /\ ring' \in [Slots -> Byte \union {Blank}]
          /\ got' \in {"nothing", "frame", "pieces"}
      BY <2>10, <3>3 DEF PollAndFetch, TypeOK
    <3>5. TypeOK'
      BY <2>9, <2>10, <3>1, <3>2, <3>4 DEF PollAndFetch, TypeOK, line
    <3>6. LineInv'
      BY <2>1, <3>1, <3>2 DEF LineInv, Flagged, Overdue
    <3>7. QED
      BY <3>5, <3>6
  <2>11. CASE UART_ClearFrameFlag \/ ServeSilently \/ SendRefused
    <3>1. /\ ~stalled /\ stalled' = stalled /\ pc # "driving"
          /\ pc' \in {"loop", "serving", "served"}
          /\ got' \in {"nothing", "frame", "pieces"}
      BY <2>9, <2>11 DEF UART_ClearFrameFlag, ServeSilently, SendRefused, TypeOK
    <3>2. /\ usart' \in Usart
          /\ usart'.left = usart.left /\ usart'.tc = usart.tc
          /\ usart'.de = usart.de /\ usart'.tcie = usart.tcie
          /\ usart'.tcif7 = usart.tcif7
      BY <2>1, <2>11 DEF UART_ClearFrameFlag, ServeSilently, SendRefused, Usart
    <3>3. TypeOK'
      BY <2>9, <2>11, <3>1, <3>2
      DEF UART_ClearFrameFlag, ServeSilently, SendRefused, TypeOK, line, reception, poll
    <3>4. LineInv'
      BY <2>1, <3>1, <3>2 DEF LineInv, Flagged, Overdue
    <3>5. QED
      BY <3>3, <3>4
  <2>12. CASE SendBegins
    <3>1. /\ ~stalled /\ stalled' = stalled /\ pc = "serving" /\ pc' = "copying"
          /\ usart' = [usart EXCEPT !.busy = TRUE]
      BY <2>9, <2>12 DEF SendBegins
    <3>2. /\ usart' \in Usart
          /\ usart'.left = usart.left /\ usart'.tc = usart.tc
          /\ usart'.de = usart.de /\ usart'.tcie = usart.tcie
          /\ usart'.tcif7 = usart.tcif7
      BY <2>1, <3>1 DEF Usart
    <3>3. TypeOK'
      BY <2>9, <2>12, <3>1, <3>2 DEF SendBegins, TypeOK, line, reception, poll
    <3>4. LineInv'
      BY <2>1, <3>1, <3>2 DEF LineInv, Flagged, Overdue
    <3>5. QED
      BY <3>3, <3>4
  <2>13. CASE DriverOn
    <3>1. /\ ~stalled /\ stalled' = stalled /\ pc' = "driving"
          /\ usart' = [usart EXCEPT !.de = TRUE]
      BY <2>9, <2>13 DEF DriverOn
    <3>2. /\ usart' \in Usart
          /\ usart'.left = usart.left /\ usart'.tc = usart.tc
          /\ usart'.tcie = usart.tcie /\ usart'.tcif7 = usart.tcif7
      BY <2>1, <3>1 DEF Usart
    <3>3. TypeOK'
      BY <2>9, <2>13, <3>1, <3>2 DEF DriverOn, TypeOK, line, reception, poll
    <3>4. LineInv'
      BY <2>1, <3>1, <3>2 DEF LineInv, Flagged
    <3>5. QED
      BY <3>3, <3>4
  <2>14. CASE DmaStarts
    <3>1. /\ ~stalled /\ stalled' = stalled /\ pc' = "served" /\ got' = "nothing"
          /\ usart' = [usart EXCEPT !.left = ResponseLen, !.tcif7 = FALSE, !.tc = FALSE]
          /\ ResponseLen \in 0 .. ResponseLen /\ ResponseLen >= 2 /\ ResponseLen \in Nat
      BY <2>9, <2>14, SizesFit DEF DmaStarts
    <3>2. usart' \in Usart /\ usart'.left = ResponseLen /\ ~usart'.tc
      BY <2>1, <3>1 DEF Usart
    <3>3. TypeOK'
      BY <2>9, <2>14, <3>1, <3>2 DEF DmaStarts, TypeOK, line, reception, poll
    <3>4. LineInv'
      BY <2>1, <3>1, <3>2 DEF LineInv, Flagged, Overdue
    <3>5. QED
      BY <3>3, <3>4
  <2>15. CASE UNCHANGED vars
    BY <2>15 DEF vars, line, reception, poll, TypeOK, LineInv
  <2>16. QED
    BY <2>4, <2>5, <2>6, <2>7, <2>8, <2>10, <2>11, <2>12, <2>13, <2>14, <2>15
    DEF Next, Slot, Loop
<1>3. QED
  BY <1>1, <1>2, PTL DEF Spec

(* Positions stay within the ring, timers and counts within their limits.  *)
THEOREM TypeCorrect == Spec => []TypeOK
BY LineHolds, PTL

(* The line is not held between responses, whatever frames, pauses and     *)
(* stalls come while one is being sent.                                    *)
THEOREM LineIsReleased == Spec => []LineReleased
<1>1. TypeOK /\ LineInv => LineReleased
  <2> SUFFICES ASSUME TypeOK, LineInv, usart.de, ~(usart.left > 0)
               PROVE  stalled \/ pc = "driving"
    BY DEF LineReleased
  <2>1. usart.left \in Nat
    BY SizesFit DEF TypeOK, Usart
  <2>2. QED
    BY <2>1 DEF LineInv, Overdue
<1>2. QED
  BY <1>1, LineHolds, PTL

-----------------------------------------------------------------------------
(* The ring.                                                               *)

(* Where the i-th byte of what was received since t is.                    *)
At(t, i) == (t + i) % RxSize

(* Positions wrap, and two bytes that fit into the ring are at different   *)
(* positions; None is none of them.                                        *)
LEMMA AtFacts ==
    /\ \A t \in Slots, i \in 0 .. RxSize : At(t, i) \in Slots /\ At(t, i) # None
    /\ \A t \in Slots : At(t, 0) = t
    /\ \A t \in Slots, i, j \in 0 .. RxSize - 1 : At(t, i) = At(t, j) => i = j
    /\ \A t \in Slots, i \in 0 .. RxSize - 1 : (At(t, i) + 1) % RxSize = At(t, i + 1)
<1>1. ASSUME NEW t \in Slots, NEW i \in 0 .. RxSize
      PROVE  At(t, i) = IF t + i < RxSize THEN t + i ELSE t + i - RxSize
  BY SizesFit DEF At, Slots
<1>2. ASSUME NEW t \in Slots, NEW i \in 0 .. RxSize
      PROVE  At(t, i) \in Slots /\ At(t, i) # None
  BY <1>1, SizesFit DEF Slots, None
<1>3. ASSUME NEW t \in Slots
      PROVE  At(t, 0) = t
  BY <1>1, SizesFit DEF Slots
<1>4. ASSUME NEW t \in Slots, NEW i \in 0 .. RxSize - 1, NEW j \in 0 .. RxSize - 1,
             At(t, i) = At(t, j)
      PROVE  i = j
  <2>1. /\ i \in 0 .. RxSize /\ j \in 0 .. RxSize
    BY SizesFit
  <2>2. QED
    BY <1>1, <1>4, <2>1, SizesFit DEF Slots
<1>5. ASSUME NEW t \in Slots, NEW i \in 0 .. RxSize - 1
      PROVE  (At(t, i) + 1) % RxSize = At(t, i + 1)
  <2>1. i \in 0 .. RxSize /\ i + 1 \in 0 .. RxSize
    BY SizesFit
  <2>2. \A k \in Nat : k < RxSize => (k + 1) % RxSize = IF k + 1 < RxSize THEN k + 1 ELSE 0
    BY SizesFit
  <2>3. At(t, i) \in Nat /\ At(t, i) < RxSize
    BY <1>2, <2>1, SizesFit DEF Slots
  <2>4. QED
    BY <1>1, <2>1, <2>2, <2>3, SizesFit DEF Slots
<1>6. QED
  BY <1>2, <1>3, <1>4, <1>5

(* How far a position is from the tail.                                    *)
LEMMA ForwardFacts ==
    /\ \A t \in Slots : Forward(t, t) = 0
    /\ \A t, s \in Slots : Forward(t, s) \in 0 .. RxSize - 1
    /\ \A t \in Slots, i \in 0 .. RxSize - 1 : Forward(t, At(t, i)) = i
<1>1. ASSUME NEW t \in Slots, NEW s \in Slots
      PROVE  Forward(t, s) = IF t <= s THEN s - t ELSE s - t + RxSize
  BY SizesFit DEF Forward, Slots
<1>2. ASSUME NEW t \in Slots, NEW i \in 0 .. RxSize - 1
      PROVE  Forward(t, At(t, i)) = i
  <2>1. At(t, i) = IF t + i < RxSize THEN t + i ELSE t + i - RxSize
    BY SizesFit DEF At, Slots
  <2>2. At(t, i) \in Slots
    BY <2>1, SizesFit DEF Slots
  <2>3. QED
    BY <1>1, <2>1, <2>2, SizesFit DEF Slots
<1>3. QED
  BY <1>1, <1>2, SizesFit DEF Slots

(* The bytes of one frame, fetched together, are that frame.               *)
LEMMA SliceIsFrame ==
    ASSUME NEW t \in Slots, NEW n \in Nat \ {0},
           \A i \in 1 .. n : ring[At(t, i - 1)] = <<n, i>>
    PROVE  IsFrame(Slice(t, n))
<1>1. Slice(t, n) = [i \in 1 .. n |-> <<n, i>>]
  <2>1. \A i \in 1 .. n : t + i - 1 = t + (i - 1)
    BY SizesFit DEF Slots
  <2>2. QED
    BY <2>1 DEF Slice, At
<1>2. Len([i \in 1 .. n |-> <<n, i>>]) = n /\ 1 \in 1 .. n
  OBVIOUS
<1>3. QED
  BY <1>1, <1>2 DEF IsFrame

-----------------------------------------------------------------------------
(* Interrupts and the tick once more, for a frame that is being received.  *)

(* The interrupt of USART1 leaves neither of its flags behind, moves the   *)
(* mark to the head if the line fell idle, and touches nothing otherwise.  *)
LEMMA HandlerSettles ==
    ASSUME NEW u \in Usart, NEW h \in Slots
    PROVE  LET w == USART1_IRQHandler(u, h) IN
           /\ w.receiving = u.receiving /\ w.counter = u.counter
           /\ w.ready = u.ready /\ w.wait = u.wait
           /\ ~w.idle
           /\ w.frameHead = IF u.idle THEN h ELSE u.frameHead
           /\ w.tc => ~w.tcie
           /\ ~u.busy => ~w.busy
           /\ ~u.tc => w.busy = u.busy
           /\ ~u.idle /\ ~(u.tc /\ u.tcie) => w = u
<1> DEFINE v == IdleServed(u, h)
<1>1. /\ v \in Usart /\ ~v.idle
      /\ v.receiving = u.receiving /\ v.counter = u.counter
      /\ v.ready = u.ready /\ v.wait = u.wait
      /\ v.frameHead = IF u.idle THEN h ELSE u.frameHead
      /\ v.busy = u.busy /\ v.tc = u.tc
  BY DEF IdleServed, Usart
<1> HIDE DEF v
<1>2. LET w == TcServed(v) IN
      /\ ~w.idle
      /\ w.receiving = v.receiving /\ w.counter = v.counter
      /\ w.ready = v.ready /\ w.wait = v.wait /\ w.frameHead = v.frameHead
      /\ w.tc => ~w.tcie
      /\ ~v.busy => ~w.busy
      /\ ~v.tc => w.busy = v.busy
  BY <1>1 DEF TcServed, Usart
<1>3. CASE u.idle \/ (u.tc /\ u.tcie)
  <2>1. USART1_IRQHandler(u, h) = TcServed(v)
    BY <1>3 DEF USART1_IRQHandler, v
  <2>2. QED
    BY <1>1, <1>2, <1>3, <2>1
<1>4. CASE ~u.idle /\ ~(u.tc /\ u.tcie)
  <2>1. USART1_IRQHandler(u, h) = u
    BY <1>4 DEF USART1_IRQHandler
  <2>2. QED
    BY <1>4, <2>1
<1>5. QED
  BY <1>3, <1>4

(* The interrupt of DMA touches flags only.                                *)
LEMMA DmaSettles ==
    ASSUME NEW u \in Usart
    PROVE  LET w == DMA2_Stream7_IRQHandler(u) IN
           /\ w.idle = u.idle
           /\ w.receiving = u.receiving /\ w.counter = u.counter
           /\ w.ready = u.ready /\ w.wait = u.wait /\ w.frameHead = u.frameHead
           /\ w.busy = u.busy
           /\ ~u.tcif7 => w = u
BY DEF DMA2_Stream7_IRQHandler, Usart

(* Together they leave no interrupt pending, and without one they change   *)
(* nothing.                                                                *)
LEMMA InterruptsSettle ==
    ASSUME NEW u \in Usart, NEW h \in Slots
    PROVE  LET w == InterruptsServed(u, h) IN
           /\ w.receiving = u.receiving /\ w.counter = u.counter
           /\ w.ready = u.ready /\ w.wait = u.wait
           /\ ~w.idle /\ ~w.tcif7 /\ (w.tc => ~w.tcie)
           /\ w.frameHead = IF u.idle THEN h ELSE u.frameHead
           /\ ~u.busy => ~w.busy
           /\ ~u.tc => w.busy = u.busy
           /\ ~u.idle /\ ~u.tcif7 /\ ~(u.tc /\ u.tcie) => w = u
<1> DEFINE a == USART1_IRQHandler(u, h)
           b == DMA2_Stream7_IRQHandler(a)
           w == USART1_IRQHandler(b, h)
<1>1. InterruptsServed(u, h) = w
  BY DEF InterruptsServed
<1>2. /\ a \in Usart
      /\ a.receiving = u.receiving /\ a.counter = u.counter
      /\ a.ready = u.ready /\ a.wait = u.wait
      /\ ~a.idle /\ a.tc = u.tc
      /\ a.frameHead = IF u.idle THEN h ELSE u.frameHead
      /\ ~u.busy => ~a.busy
      /\ ~u.tc => a.busy = u.busy
      /\ ~u.idle /\ ~(u.tc /\ u.tcie) => a = u
  BY HandlerSettles, UsartHandler
<1> HIDE DEF a
<1>3. /\ b \in Usart
      /\ b.receiving = a.receiving /\ b.counter = a.counter
      /\ b.ready = a.ready /\ b.wait = a.wait
      /\ ~b.idle /\ ~b.tcif7 /\ b.tc = a.tc
      /\ b.frameHead = a.frameHead
      /\ b.busy = a.busy
      /\ ~a.tcif7 => b = a
  BY <1>2, DmaSettles, DmaHandler
<1> HIDE DEF b
<1>4. /\ w.receiving = b.receiving /\ w.counter = b.counter
      /\ w.ready = b.ready /\ w.wait = b.wait
      /\ ~w.idle /\ w.tcif7 = b.tcif7 /\ w.tc = b.tc
      /\ w.frameHead = b.frameHead
      /\ w.tc => ~w.tcie
      /\ ~b.busy => ~w.busy
      /\ ~b.tc => w.busy = b.busy
      /\ ~b.idle /\ ~(b.tc /\ b.tcie) => w = b
  BY <1>3, HandlerSettles, UsartHandler
<1> HIDE DEF w
<1>5. QED
  BY <1>1, <1>2, <1>3, <1>4

(* A tick brings the silence timer one step further at most: a frame whose *)
(* last byte comes earlier is not announced.                               *)
LEMMA TickCounts ==
    ASSUME NEW u \in Usart
    PROVE  LET v == SysTickServed(u) IN
           /\ v.idle = u.idle /\ v.receiving = u.receiving
           /\ v.frameHead = u.frameHead /\ v.busy = u.busy
           /\ v.wait = IF u.wait > 0 THEN u.wait - 1 ELSE 0
           /\ \A k \in Nat : ~u.ready /\ u.counter + k + 1 < T35Steps
                             => ~v.ready /\ v.counter + k < T35Steps
<1> DEFINE c == SilenceCounted(u)
<1>1. u.counter \in Nat
  BY SizesFit DEF Usart
<1>2. /\ c.idle = u.idle /\ c.receiving = u.receiving
      /\ c.frameHead = u.frameHead /\ c.busy = u.busy /\ c.wait = u.wait
  BY DEF SilenceCounted, Usart
<1>3. ASSUME NEW k \in Nat, ~u.ready, u.counter + k + 1 < T35Steps
      PROVE  ~c.ready /\ c.counter + k < T35Steps
  <2>1. ~(u.counter + 1 >= T35Steps)
    BY <1>1, <1>3, SizesFit
  <2>2. c = IF ~u.running THEN u ELSE [u EXCEPT !.counter = u.counter + 1]
    BY <2>1 DEF SilenceCounted
  <2>3. c.ready = u.ready /\ c.counter \in {u.counter, u.counter + 1}
    BY <2>2 DEF Usart
  <2>4. QED
    BY <1>1, <1>3, <2>3, SizesFit
<1>4. c \in Usart
  BY SilenceKeeps
<1> HIDE DEF c
<1>5. SysTickServed(u) = [c EXCEPT !.wait = IF c.wait > 0 THEN c.wait - 1 ELSE 0]
  BY DEF SysTickServed, c
<1>6. QED
  BY <1>2, <1>3, <1>4, <1>5 DEF Usart

(* What the line does to the record in one slot, sent and heard.           *)
LEMMA ByteSettles ==
    ASSUME NEW u \in Usart, NEW heard \in BOOLEAN
    PROVE  LET v == LineHeard(ByteLeft(u), heard) IN
           /\ v \in Usart
           /\ v.receiving = heard
           /\ v.idle = (u.idle \/ (u.receiving /\ ~heard))
           /\ v.frameHead = u.frameHead /\ v.ready = u.ready
           /\ v.counter = u.counter /\ v.wait = u.wait
           /\ v.busy = u.busy /\ v.de = u.de
           /\ u.left = 0 => /\ v.left = 0 /\ v.tc = u.tc
                            /\ v.tcie = u.tcie /\ v.tcif7 = u.tcif7
           /\ u.left > 0 => /\ v.left = u.left - 1
                            /\ v.left = 0 => v.tc
                            /\ v.left > 0 => v.tc = u.tc
<1> DEFINE b == ByteLeft(u)
<1>1. u.left \in Nat /\ u.left <= ResponseLen
  BY SizesFit DEF Usart
<1>2. /\ b \in Usart
      /\ b.receiving = u.receiving /\ b.idle = u.idle
      /\ b.frameHead = u.frameHead /\ b.ready = u.ready
      /\ b.counter = u.counter /\ b.wait = u.wait
      /\ b.busy = u.busy /\ b.de = u.de
      /\ u.left = 0 => b = u
      /\ u.left > 0 => b.left = u.left - 1
      /\ u.left = 1 => b.tc
      /\ u.left > 1 => b.tc = u.tc
  <2>1. CASE u.left = 0
    BY <2>1 DEF ByteLeft
  <2>2. CASE u.left > 0
    <3>1. b = [u EXCEPT !.left = u.left - 1,
                        !.tcif7 = u.tcif7 \/ u.left = 2,
                        !.tc = u.tc \/ u.left = 1]
      BY <1>1, <2>2 DEF ByteLeft
    <3>2. u.left - 1 \in 0 .. ResponseLen
      BY <1>1, <2>2, SizesFit
    <3>3. /\ b \in Usart
          /\ b.receiving = u.receiving /\ b.idle = u.idle
          /\ b.frameHead = u.frameHead /\ b.ready = u.ready
          /\ b.counter = u.counter /\ b.wait = u.wait
          /\ b.busy = u.busy /\ b.de = u.de
          /\ b.left = u.left - 1
      BY <3>1, <3>2 DEF Usart
    <3>4. u.left = 1 => b.tc
      BY <3>1 DEF Usart
    <3>5. u.left > 1 => b.tc = u.tc
      <4>1. u.left > 1 => (u.left = 1) = FALSE
        BY <1>1
      <4>2. b.tc = (u.tc \/ u.left = 1)
        BY <3>1 DEF Usart
      <4>3. u.tc \in BOOLEAN
        BY DEF Usart
      <4>4. QED
        BY <4>1, <4>2, <4>3, Zenon
    <3>6. QED
      BY <1>1, <2>2, <3>3, <3>4, <3>5
  <2>3. QED
    BY <1>1, <2>1, <2>2
<1> HIDE DEF b
<1>3. LET v == LineHeard(b, heard) IN
      /\ v \in Usart
      /\ v.receiving = heard
      /\ v.idle = (b.idle \/ (b.receiving /\ ~heard))
      /\ v.frameHead = b.frameHead /\ v.ready = b.ready
      /\ v.counter = b.counter /\ v.wait = b.wait
      /\ v.busy = b.busy /\ v.de = b.de
      /\ v.left = b.left /\ v.tc = b.tc
      /\ v.tcie = b.tcie /\ v.tcif7 = b.tcif7
  BY <1>2 DEF LineHeard, Usart
<1>4. u.left > 0 => (b.left = 0 => b.tc) /\ (b.left > 0 => b.tc = u.tc)
  BY <1>1, <1>2
<1>5. QED
  BY <1>2, <1>3, <1>4 DEF b

(* No interrupt is pending.                                                *)
Settled(u) == ~u.idle /\ ~u.tcif7 /\ (u.tc => ~u.tcie)

(* A slot as a whole, with the CPU running or stalled.                     *)
LEMMA SlotSettles ==
    ASSUME NEW u \in Usart, usart = u, stalled \in BOOLEAN,
           NEW heard \in BOOLEAN, NEW h \in Slots,
           u.left = 0 => u.tc,
           ~stalled => Settled(u)
    PROVE  LET w == AfterSlot(u, heard, h) IN
           /\ w.receiving = heard
           /\ w.left = 0 => w.tc
           /\ ~stalled => Settled(w)
           /\ stalled => /\ w.idle = (u.idle \/ (u.receiving /\ ~heard))
                         /\ w.frameHead = u.frameHead /\ w.wait = u.wait
                         /\ w.busy = u.busy /\ w.de = u.de
           /\ ~stalled => /\ w.frameHead = IF u.receiving /\ ~heard THEN h ELSE u.frameHead
                          /\ w.wait = IF u.wait > 0 THEN u.wait - 1 ELSE 0
                          /\ \A k \in Nat : ~u.ready /\ u.counter + k + 1 < T35Steps
                                            => ~w.ready /\ w.counter + k < T35Steps
           /\ u.left = 0 => w.left = 0
           /\ ~u.busy => ~w.busy
           /\ ~u.de => ~w.de
           /\ u.left = 0 /\ ~(u.receiving /\ ~heard) => w.busy = u.busy /\ w.de = u.de
           /\ Flagged(u) /\ w.left > 0 => w.busy = u.busy /\ w.de = u.de
<1> DEFINE v == LineHeard(ByteLeft(u), heard)
           i == InterruptsServed(v, h)
           s == SysTickServed(i)
<1>1. /\ v \in Usart
      /\ v.receiving = heard
      /\ v.idle = (u.idle \/ (u.receiving /\ ~heard))
      /\ v.frameHead = u.frameHead /\ v.ready = u.ready
      /\ v.counter = u.counter /\ v.wait = u.wait
      /\ v.busy = u.busy /\ v.de = u.de
      /\ u.left = 0 => /\ v.left = 0 /\ v.tc = u.tc
                       /\ v.tcie = u.tcie /\ v.tcif7 = u.tcif7
      /\ u.left > 0 => /\ v.left = u.left - 1
                       /\ v.left = 0 => v.tc
                       /\ v.left > 0 => v.tc = u.tc
  BY ByteSettles
<1>2. u.left \in Nat /\ v.left \in Nat
  BY <1>1, SizesFit DEF Usart
<1>3. AfterSlot(u, heard, h) = IF stalled THEN v ELSE s
  BY DEF AfterSlot
<1>4. /\ v.left = 0 => v.tc
      /\ Flagged(u) /\ v.left > 0 => ~v.tc
  <2>1. v.left > 0 => u.left > 0
    BY <1>1, <1>2
  <2>2. QED
    BY <1>1, <1>2, <2>1 DEF Flagged
<1> HIDE DEF v
<1>5. CASE stalled
  BY <1>1, <1>3, <1>4, <1>5
<1>6. CASE ~stalled
  <2>1. /\ i \in Usart /\ i.left = v.left /\ i.tc = v.tc
        /\ ~v.tc => i.de = v.de
        /\ ~v.de => ~i.de
    BY <1>1, InterruptsRelease
  <2>2. /\ i.receiving = v.receiving /\ i.counter = v.counter
        /\ i.ready = v.ready /\ i.wait = v.wait
        /\ ~i.idle /\ ~i.tcif7 /\ (i.tc => ~i.tcie)
        /\ i.frameHead = IF v.idle THEN h ELSE v.frameHead
        /\ ~v.busy => ~i.busy
        /\ ~v.tc => i.busy = v.busy
        /\ ~v.idle /\ ~v.tcif7 /\ ~(v.tc /\ v.tcie) => i = v
    BY <1>1, InterruptsSettle
  <2> HIDE DEF i
  <2>3. /\ s \in Usart /\ s.left = i.left /\ s.tc = i.tc /\ s.de = i.de
        /\ s.tcie = i.tcie /\ s.tcif7 = i.tcif7
    BY <2>1, SysTickKeeps
  <2>4. /\ s.idle = i.idle /\ s.receiving = i.receiving
        /\ s.frameHead = i.frameHead /\ s.busy = i.busy
        /\ s.wait = IF i.wait > 0 THEN i.wait - 1 ELSE 0
        /\ \A k \in Nat : ~i.ready /\ i.counter + k + 1 < T35Steps
                          => ~s.ready /\ s.counter + k < T35Steps
    BY <2>1, TickCounts
  <2> HIDE DEF s
  <2>5. Settled(s)
    BY <2>2, <2>3, <2>4 DEF Settled
  <2>6. u.left = 0 /\ ~(u.receiving /\ ~heard) => i = v
    BY <1>1, <1>6, <2>2 DEF Settled
  <2>7. Flagged(u) /\ s.left > 0 => s.busy = u.busy /\ s.de = u.de
    BY <1>1, <1>4, <2>1, <2>2, <2>3, <2>4
  <2>8. s.frameHead = IF u.receiving /\ ~heard THEN h ELSE u.frameHead
    BY <1>1, <1>6, <2>2, <2>4 DEF Settled
  <2>9. QED
    BY <1>1, <1>3, <1>4, <1>6, <2>1, <2>2, <2>3, <2>4, <2>5, <2>6, <2>7, <2>8
<1>7. QED
  BY <1>5, <1>6

-----------------------------------------------------------------------------
(* The loop and the line in general.                                       *)

(* How far the frame on the line has got, and how far it has to go.        *)
Position == lastByte[2]
Remaining == lastByte[1] - lastByte[2]
(* The frame is on the line, or its last byte was in the last slot: the    *)
(* silence after it is not over yet.                                       *)
Coming == InFrame \/ gap = 0

(* What holds in general: something is fetched while the loop serves it and *)
(* at no other time; bits of the peripherals follow the line; the CPU, when *)
(* it runs, leaves no interrupt pending.                                   *)
LoopInv == /\ InLoop => got = "nothing"
           /\ pc \in {"serving", "copying", "driving"} => got # "nothing"
           /\ gap > 0 => ~usart.receiving
           /\ InFrame => gap <= 1
           /\ usart.left = 0 => usart.tc
           /\ ~stalled => Settled(usart)

(* The slot lemma for the record of the state.                             *)
LEMMA SlotFacts ==
    ASSUME TypeOK, LineInv, LoopInv, NEW heard \in BOOLEAN, NEW h \in Slots,
           usart' = AfterSlot(usart, heard, h)
    PROVE  /\ usart'.receiving = heard
           /\ usart'.left = 0 => usart'.tc
           /\ ~stalled => Settled(usart')
           /\ stalled =>
                 /\ usart'.idle = (usart.idle \/ (usart.receiving /\ ~heard))
                 /\ usart'.frameHead = usart.frameHead /\ usart'.wait = usart.wait
           /\ ~stalled =>
                 /\ usart'.frameHead = IF usart.receiving /\ ~heard THEN h
                                       ELSE usart.frameHead
                 /\ usart'.wait = IF usart.wait > 0 THEN usart.wait - 1 ELSE 0
                 /\ \A k \in Nat : ~usart.ready /\ usart.counter + k + 1 < T35Steps
                                   => ~usart'.ready /\ usart'.counter + k < T35Steps
           /\ usart.left = 0 => usart'.left = 0
           /\ ~usart.busy => ~usart'.busy
           /\ ~usart.de => ~usart'.de
           /\ usart.left = 0 /\ ~(usart.receiving /\ ~heard)
              => usart'.busy = usart.busy /\ usart'.de = usart.de
           /\ usart'.left > 0 => usart'.busy = usart.busy /\ usart'.de = usart.de
<1>1. /\ usart \in Usart /\ stalled \in BOOLEAN
      /\ usart.left = 0 => usart.tc
      /\ ~stalled => Settled(usart)
      /\ Flagged(usart)
  BY DEF TypeOK, LoopInv, LineInv
<1>2. QED
  BY <1>1, SlotSettles

(* The poll does nothing, sees the head move, or declares the frame over:  *)
(* the last only if the head has not moved for the time of silence.        *)
LEMMA PollCases ==
    ASSUME TypeOK
    PROVE  \/ Polled[1] = rtuLastHead /\ Polled[2] = usart
           \/ /\ Polled[1] = head /\ Polled[2] = [usart EXCEPT !.wait = PollSilence]
              /\ rtuLastHead = None => head # tail
              /\ rtuLastHead # head
           \/ /\ Polled[1] = None
              /\ Polled[2] = [usart EXCEPT !.frameHead = head, !.ready = TRUE]
              /\ rtuLastHead = head /\ usart.wait = 0
<1>1. head # None /\ usart.wait \in Nat
  BY SizesFit DEF TypeOK, Slots, None, Usart
<1>2. QED
  BY <1>1 DEF Polled

(* LoopInv is inductive.                                                   *)
LEMMA LoopStep ==
    ASSUME TypeOK, LineInv, LoopInv, [Next]_vars
    PROVE  LoopInv'
<1>1. /\ usart \in Usart /\ stalled \in BOOLEAN /\ head \in Slots
      /\ gap \in Nat
      /\ stalled => pc = "served"
  BY DEF TypeOK, LineInv
<1>2. ASSUME NEW heard \in BOOLEAN, NEW h \in Slots,
             usart' = AfterSlot(usart, heard, h),
             UNCHANGED <<stalled, pc, got>>,
             gap' > 0 => ~heard,
             InFrame' => gap' <= 1
      PROVE  LoopInv'
  <2>1. /\ usart'.receiving = heard
        /\ usart'.left = 0 => usart'.tc
        /\ ~stalled => Settled(usart')
    BY <1>2, SlotFacts
  <2>2. QED
    BY <1>2, <2>1 DEF LoopInv, InLoop
<1>3. ASSUME NEW byte \in Byte, Arrives(byte), UNCHANGED <<stalled, pc, got>>
      PROVE  LoopInv'
  <2>1. /\ (~usart.de) \in BOOLEAN /\ gap' = 0
        /\ usart' = AfterSlot(usart, ~usart.de, head')
    BY <1>3 DEF Arrives
  <2>2. head' \in Slots
    BY <1>3, ByteSent
  <2>3. ~(gap' > 0) /\ gap' <= 1
    BY <2>1
  <2>4. QED
    BY <1>2, <1>3, <2>1, <2>2, <2>3
<1>4. CASE FrameStarts
  <2>1. PICK n \in FrameLens : Arrives(<<n, 1>>)
    BY <1>4 DEF FrameStarts
  <2>2. QED
    BY <1>3, <1>4, <2>1, BytesFit DEF FrameStarts
<1>5. CASE FrameGoesOn
  BY <1>3, <1>5, BytesFit DEF FrameGoesOn
<1>6. CASE Silence
  <2>1. InFrame' => gap' <= 1
    <3>1. InFrame' = InFrame
      BY <1>6 DEF Silence, InFrame
    <3>2. InFrame => gap' = 1
      BY <1>6 DEF Silence, Pause, BetweenFrames
    <3>3. QED
      BY <3>1, <3>2
  <2>2. usart' = AfterSlot(usart, FALSE, head) /\ UNCHANGED <<stalled, pc, got>>
    BY <1>6 DEF Silence
  <2>3. QED
    BY <1>1, <1>2, <2>1, <2>2
<1>7. CASE StallBegins
  BY <1>7 DEF StallBegins, LoopInv, line, InLoop, InFrame
<1>8. CASE StallEnds
  <2>1. /\ usart'.left = usart.left /\ usart'.tc = usart.tc
        /\ usart'.receiving = usart.receiving
        /\ Settled(usart')
    BY <1>1, <1>8, InterruptsSettle, InterruptsRelease DEF StallEnds, Settled
  <2>2. got' = "nothing" /\ pc' = "loop"
    BY <1>1, <1>8 DEF StallEnds, LoopInv, InLoop
  <2>3. QED
    BY <1>8, <2>1, <2>2 DEF StallEnds, LoopInv, line, InLoop, InFrame
<1>9. ASSUME UNCHANGED <<line, stalled>>,
             usart'.left = usart.left, usart'.tc = usart.tc,
             usart'.tcie = usart.tcie, usart'.tcif7 = usart.tcif7,
             usart'.idle = usart.idle, usart'.receiving = usart.receiving,
             InLoop' => got' = "nothing",
             pc' \in {"serving", "copying", "driving"} => got' # "nothing"
      PROVE  LoopInv'
  BY <1>9 DEF LoopInv, line, InFrame, Settled
<1>10. CASE PollAndFetch
  <2>1. /\ usart'.left = usart.left /\ usart'.tc = usart.tc
        /\ usart'.tcie = usart.tcie /\ usart'.tcif7 = usart.tcif7
        /\ usart'.idle = usart.idle /\ usart'.receiving = usart.receiving
    BY <1>1, <1>10, PollCases DEF PollAndFetch, Usart
  <2>2. pc' = "fetched" \/ (pc' = "loop" /\ got' = "nothing")
    BY <1>10 DEF PollAndFetch, LoopInv
  <2>3. QED
    BY <1>9, <1>10, <2>1, <2>2 DEF PollAndFetch, InLoop
<1>11. CASE UART_ClearFrameFlag
  <2>1. /\ usart'.left = usart.left /\ usart'.tc = usart.tc
        /\ usart'.tcie = usart.tcie /\ usart'.tcif7 = usart.tcif7
        /\ usart'.idle = usart.idle /\ usart'.receiving = usart.receiving
    BY <1>1, <1>11 DEF UART_ClearFrameFlag, Usart
  <2>2. QED
    BY <1>9, <1>11, <2>1 DEF UART_ClearFrameFlag, InLoop
<1>12. CASE ServeSilently \/ SendRefused
  BY <1>9, <1>12 DEF ServeSilently, SendRefused, InLoop
<1>13. CASE SendBegins
  <2>1. /\ usart'.left = usart.left /\ usart'.tc = usart.tc
        /\ usart'.tcie = usart.tcie /\ usart'.tcif7 = usart.tcif7
        /\ usart'.idle = usart.idle /\ usart'.receiving = usart.receiving
    BY <1>1, <1>13 DEF SendBegins, Usart
  <2>2. QED
    BY <1>9, <1>13, <2>1 DEF SendBegins, InLoop
<1>14. CASE DriverOn
  <2>1. /\ usart'.left = usart.left /\ usart'.tc = usart.tc
        /\ usart'.tcie = usart.tcie /\ usart'.tcif7 = usart.tcif7
        /\ usart'.idle = usart.idle /\ usart'.receiving = usart.receiving
    BY <1>1, <1>14 DEF DriverOn, Usart
  <2>2. QED
    BY <1>9, <1>14, <2>1 DEF DriverOn, InLoop, LoopInv
<1>15. CASE DmaStarts
  <2>1. /\ usart'.left = ResponseLen /\ ~usart'.tc /\ ~usart'.tcif7
        /\ usart'.idle = usart.idle /\ usart'.receiving = usart.receiving
    BY <1>1, <1>15 DEF DmaStarts, Usart
  <2>2. ~stalled /\ stalled' = stalled /\ Settled(usart')
    BY <1>15, <2>1 DEF DmaStarts, LoopRuns, LoopInv, Settled
  <2>3. QED
    BY <1>15, <2>1, <2>2, SizesFit DEF DmaStarts, LoopInv, line, InLoop, InFrame
<1>16. CASE UNCHANGED vars
  BY <1>16 DEF vars, line, reception, poll, LoopInv, InLoop, InFrame
<1>17. QED
  BY <1>4, <1>5, <1>6, <1>7, <1>8, <1>10, <1>11, <1>12, <1>13, <1>14, <1>15, <1>16
  DEF Next, Slot, Loop

(* LoopInv holds.                                                          *)
LEMMA LoopHolds == Spec => [](TypeOK /\ LineInv /\ LoopInv)
<1>1. Init => LoopInv
  BY SizesFit DEF Init, LoopInv, UsartInit, InLoop, InFrame, Blank, Settled
<1>2. TypeOK /\ LineInv /\ LoopInv /\ [Next]_vars => LoopInv'
  BY LoopStep
<1>3. QED
  BY <1>1, <1>2, LineHolds, PTL DEF Spec

-----------------------------------------------------------------------------
(* A frame that comes to a driver at rest.                                 *)

(* The silence timer, if it runs at all, has not run out by the end of the *)
(* frame.                                                                  *)
Harmless(u) == ~u.ready /\ ~stalled /\ u.counter + Remaining < T35Steps

(* Between tail and head are the bytes of one frame received so far, and   *)
(* the head the poll remembers is one of the positions they went through.  *)
Gathered ==
    /\ lastByte \in Byte
    /\ head = At(tail, Position)
    /\ \A i \in 1 .. Position : ring[At(tail, i - 1)] = <<lastByte[1], i>>
    /\ rtuLastHead = None \/ \E i \in 0 .. Position : rtuLastHead = At(tail, i)

(* From the first byte to the fetch: nothing is sent, and as long as the   *)
(* frame is coming none of the three parties can announce it.  The mark is *)
(* at the tail or there is no announcement before the end; the poll has    *)
(* seen the head move too short a time ago.  Then the mark is at the head, *)
(* or the interrupt that puts it there is pending.                         *)
Collecting ==
    /\ Gathered
    /\ pc \in {"loop", "fetched", "served"} /\ got = "nothing"
    /\ pc = "served" => stalled \/ round > 0
    /\ ~usart.busy /\ ~usart.de /\ usart.left = 0
    /\ gap = 0 => usart.receiving
    /\ rtuLastHead = head => /\ gap = 0 => usart.wait = PollSilence
                             /\ InFrame => usart.wait > 0
    /\ IF Coming THEN ~usart.idle /\ (usart.frameHead = tail \/ Harmless(usart))
                 ELSE usart.frameHead = head \/ usart.idle

(* After the fetch: ring and mark are empty, the loop serves the frame, and *)
(* a transmission holds the line until its last byte has left.             *)
Handed ==
    /\ ~Coming
    /\ tail = head /\ usart.frameHead = head
    /\ ~usart.idle
    /\ got # "pieces"
    /\ got = "frame" => /\ usart.left = 0
                        /\ usart.busy = (pc \in {"copying", "driving"})
                        /\ usart.de = (pc = "driving")
    /\ usart.left > 0 => usart.busy /\ usart.de

(* A frame that came to a driver at rest is being collected or was handed  *)
(* over, until something else comes.                                       *)
AloneInv == alone => Collecting \/ Handed

(* Lengths and positions of the bytes of frames as plain numbers.          *)
LEMMA ByteFacts ==
    /\ \A byte \in Byte : /\ byte = <<byte[1], byte[2]>>
                          /\ byte[1] \in 2 .. RxSize - 1
                          /\ byte[2] \in 1 .. byte[1]
    /\ 0 \in 0 .. RxSize - 1 /\ RxSize - 1 \in Nat
BY SizesFit DEF Byte

(* One more byte of the frame goes where the next is expected, and the head *)
(* moves past every position the poll may remember.                        *)
LEMMA ByteGathers ==
    ASSUME TypeOK, NEW byte \in Byte, Arrives(byte), ~usart.de, UNCHANGED poll,
           head = At(tail, byte[2] - 1),
           \A i \in 1 .. byte[2] - 1 : ring[At(tail, i - 1)] = <<byte[1], i>>,
           rtuLastHead = None \/ \E i \in 0 .. byte[2] - 1 : rtuLastHead = At(tail, i)
    PROVE  Gathered' /\ rtuLastHead' # head'
<1> DEFINE p == byte[2]
<1>1. /\ p \in 1 .. RxSize - 1 /\ p - 1 \in 0 .. RxSize - 1 /\ p \in 0 .. RxSize - 1
      /\ byte = <<byte[1], p>> /\ p \in Nat /\ p - 1 \in Nat
      /\ p - 1 + 1 = p
  BY ByteFacts, SizesFit
<1> HIDE DEF p
<1>2. /\ lastByte' = byte /\ tail' = tail /\ rtuLastHead' = rtuLastHead
      /\ ring' = [ring EXCEPT ![head] = byte] /\ head' = (head + 1) % RxSize
      /\ tail \in Slots /\ head \in Slots /\ ring \in [Slots -> Byte \union {Blank}]
  BY DEF Arrives, poll, TypeOK
<1>3. head' = At(tail, p)
  BY <1>1, <1>2, AtFacts DEF p
<1>4. ASSUME NEW i \in 1 .. p
      PROVE  ring'[At(tail, i - 1)] = <<byte[1], i>>
  <2>1. /\ i - 1 \in 0 .. RxSize - 1 /\ i - 1 \in 0 .. RxSize
        /\ i = p \/ i \in 1 .. p - 1
    BY <1>1, SizesFit
  <2>2. At(tail, i - 1) \in Slots
    BY <1>2, <2>1, AtFacts
  <2>3. CASE i = p
    BY <1>1, <1>2, <2>2, <2>3 DEF p
  <2>4. CASE i \in 1 .. p - 1
    <3>1. i - 1 # p - 1
      BY <1>1, <2>4
    <3>2. At(tail, i - 1) # head
      BY <1>1, <1>2, <2>1, <3>1, AtFacts DEF p
    <3>3. QED
      BY <1>2, <2>2, <2>4, <3>2 DEF p
  <2>5. QED
    BY <2>1, <2>3, <2>4
<1>5. rtuLastHead = None \/ \E i \in 0 .. p : i \in 0 .. p - 1 /\ rtuLastHead = At(tail, i)
  <2>1. \A i \in 0 .. p - 1 : i \in 0 .. p
    BY <1>1
  <2>2. QED
    BY <2>1 DEF p
<1>6. rtuLastHead # head'
  <2>1. p \in 0 .. RxSize
    BY <1>1, SizesFit
  <2>2. \A i \in 0 .. p - 1 : i \in 0 .. RxSize - 1 /\ i # p
    BY <1>1, SizesFit
  <2>3. QED
    BY <1>1, <1>2, <1>3, <1>5, <2>1, <2>2, AtFacts
<1>7. Gathered'
  BY <1>2, <1>3, <1>4, <1>5 DEF Gathered, Position, p
<1>8. QED
  BY <1>2, <1>6, <1>7

(* A slot the CPU sees moves the round on, so that no stall begins.        *)
LEMMA TimeInServed ==
    ASSUME TypeOK, TimePasses, UNCHANGED <<stalled, pc>>
    PROVE  pc' = "served" => stalled' \/ round' > 0
BY DEF TypeOK, TimePasses

(* A slot with a byte, as long as nothing is sent.                         *)
LEMMA HeardFacts ==
    ASSUME TypeOK, LineInv, LoopInv, NEW h \in Slots,
           usart' = AfterSlot(usart, TRUE, h),
           ~usart.idle, ~usart.busy, ~usart.de, usart.left = 0
    PROVE  /\ usart'.receiving
           /\ ~usart'.idle
           /\ usart'.frameHead = usart.frameHead
           /\ ~stalled => \A k \in Nat : ~usart.ready /\ usart.counter + k + 1 < T35Steps
                                         => ~usart'.ready /\ usart'.counter + k < T35Steps
           /\ usart'.left = 0 /\ ~usart'.busy /\ ~usart'.de
<1> DEFINE heard == TRUE
<1>1. heard \in BOOLEAN /\ heard
  OBVIOUS
<1>2. usart' = AfterSlot(usart, heard, h)
  OBVIOUS
<1> HIDE DEF heard
<1>3. /\ usart'.receiving = heard
      /\ ~stalled => Settled(usart')
      /\ stalled =>
            /\ usart'.idle = (usart.idle \/ (usart.receiving /\ ~heard))
            /\ usart'.frameHead = usart.frameHead
      /\ ~stalled =>
            /\ usart'.frameHead = IF usart.receiving /\ ~heard THEN h
                                  ELSE usart.frameHead
            /\ \A k \in Nat : ~usart.ready /\ usart.counter + k + 1 < T35Steps
                              => ~usart'.ready /\ usart'.counter + k < T35Steps
      /\ usart'.left = 0 /\ ~usart'.busy /\ ~usart'.de
  BY <1>1, <1>2, SlotFacts
<1>4. stalled => ~usart'.idle
  <2>1. ~(usart.idle \/ (usart.receiving /\ ~heard))
    BY <1>1
  <2>2. QED
    BY <1>3, <2>1, Zenon
<1>5. usart'.frameHead = usart.frameHead
  BY <1>1, <1>3 DEF TypeOK
<1>6. QED
  BY <1>1, <1>3, <1>4, <1>5 DEF Settled

(* The first byte comes to a driver at rest.                               *)
LEMMA StartCollects ==
    ASSUME TypeOK, LineInv, LoopInv, FrameStarts, alone'
    PROVE  Collecting'
<1>1. PICK n \in FrameLens : Arrives(<<n, 1>>)
  BY DEF FrameStarts
<1>2. /\ <<n, 1>> \in Byte /\ <<n, 1>>[2] = 1
      /\ TimePasses /\ UNCHANGED <<poll, stalled, pc, got>>
  BY BytesFit DEF FrameStarts
<1>3. AtRest /\ ~usart.de /\ gap' = 0 /\ lastByte' = <<n, 1>>
  BY <1>1, <1>2 DEF Arrives
<1>4. /\ tail \in Slots /\ head = At(tail, 0) /\ stalled \in BOOLEAN
  BY <1>3, AtFacts DEF AtRest, TypeOK
<1>5. rtuLastHead = None \/ \E i \in 0 .. 0 : rtuLastHead = At(tail, i)
  BY <1>3, <1>4 DEF AtRest
<1>6. Gathered' /\ rtuLastHead' # head'
  <2>1. <<n, 1>>[2] - 1 = 0
    BY <1>2
  <2>2. QED
    BY <1>1, <1>2, <1>3, <1>4, <1>5, <2>1, ByteGathers
<1>7. usart' = AfterSlot(usart, TRUE, head') /\ head' \in Slots
  BY <1>1, <1>2, <1>3, ByteSent DEF Arrives
<1>8. /\ usart'.receiving
      /\ ~usart'.idle
      /\ usart'.frameHead = usart.frameHead
      /\ usart'.left = 0 /\ ~usart'.busy /\ ~usart'.de
  BY <1>3, <1>7, HeardFacts DEF AtRest
<1>9. pc' \in {"loop", "served"} /\ got' = "nothing"
  BY <1>2, <1>3 DEF AtRest, InLoop, LoopInv
<1>10. pc' = "served" => stalled' \/ round' > 0
  BY <1>2, TimeInServed
<1>11. Coming' /\ ~usart'.idle /\ usart'.frameHead = tail'
  BY <1>2, <1>3, <1>4, <1>8 DEF Coming, AtRest, poll
<1>12. QED
  BY <1>6, <1>8, <1>9, <1>10, <1>11 DEF Collecting

(* Another byte comes.                                                     *)
LEMMA GoOnCollects ==
    ASSUME TypeOK, LineInv, LoopInv, AloneInv, FrameGoesOn, alone'
    PROVE  Collecting'
<1> DEFINE byte == <<lastByte[1], Position + 1>>
<1>1. /\ byte \in Byte /\ Arrives(byte) /\ InFrame
      /\ TimePasses /\ UNCHANGED <<poll, stalled, pc, got>>
  BY BytesFit DEF FrameGoesOn, Position
<1>2. lastByte \in Byte
  BY <1>1 DEF TypeOK, InFrame, Blank
<1>3. /\ lastByte[1] \in Nat /\ Position \in Nat /\ Position >= 1
      /\ byte[1] = lastByte[1] /\ byte[2] = Position + 1 /\ Position + 1 # 1
  BY <1>2, ByteFacts, SizesFit DEF Position
<1> HIDE DEF byte
<1>4. alone /\ ~usart.de /\ gap' = 0 /\ lastByte' = byte
  BY <1>1, <1>3 DEF Arrives
<1>5. Collecting /\ Coming
  BY <1>1, <1>4 DEF AloneInv, Handed, Coming
<1>6. Gathered' /\ rtuLastHead' # head'
  <2>1. byte[2] - 1 = Position
    BY <1>3
  <2>2. QED
    BY <1>1, <1>3, <1>4, <1>5, <2>1, ByteGathers DEF Collecting, Gathered
<1>7. usart' = AfterSlot(usart, TRUE, head') /\ head' \in Slots
  BY <1>1, <1>4, ByteSent DEF Arrives
<1>8. /\ usart'.receiving
      /\ ~usart'.idle
      /\ usart'.frameHead = usart.frameHead
      /\ ~stalled => \A k \in Nat : ~usart.ready /\ usart.counter + k + 1 < T35Steps
                                    => ~usart'.ready /\ usart'.counter + k < T35Steps
      /\ usart'.left = 0 /\ ~usart'.busy /\ ~usart'.de
  BY <1>5, <1>7, HeardFacts DEF Collecting
<1>9. Harmless(usart) => Harmless(usart)'
  <2>1. /\ Remaining' \in Nat /\ Remaining = Remaining' + 1
        /\ usart.counter \in Nat
    BY <1>1, <1>3, <1>4, SizesFit DEF Remaining, Position, InFrame, TypeOK, Usart
  <2>2. usart.counter + Remaining = usart.counter + Remaining' + 1
    BY <2>1
  <2>3. QED
    BY <1>1, <1>8, <2>1, <2>2 DEF Harmless
<1>10. Coming' /\ ~usart'.idle /\ (usart'.frameHead = tail' \/ Harmless(usart)')
  BY <1>1, <1>4, <1>5, <1>8, <1>9 DEF Coming, Collecting, poll, TypeOK
<1>11. pc' \in {"loop", "fetched", "served"} /\ got' = "nothing"
  BY <1>1, <1>5 DEF Collecting
<1>12. pc' = "served" => stalled' \/ round' > 0
  BY <1>1, TimeInServed
<1>13. QED
  BY <1>6, <1>8, <1>10, <1>11, <1>12 DEF Collecting

(* What the poll remembers is a position the head has been at.             *)
LEMMA GatheredKeeps ==
    ASSUME Gathered, UNCHANGED <<lastByte, head, tail, ring>>,
           rtuLastHead' \in {rtuLastHead, head, None}
    PROVE  Gathered'
<1>1. Position \in 0 .. Position /\ Position' = Position
  BY ByteFacts DEF Gathered, Position
<1>2. /\ lastByte' \in Byte /\ head' = At(tail', Position')
      /\ \A i \in 1 .. Position' : ring'[At(tail', i - 1)] = <<lastByte'[1], i>>
  BY <1>1 DEF Gathered
<1>3. rtuLastHead' = None \/ \E i \in 0 .. Position' : rtuLastHead' = At(tail', i)
  BY <1>1 DEF Gathered
<1>4. QED
  BY <1>2, <1>3 DEF Gathered

(* A pause within the frame: the poll waits longer than one slot, and the  *)
(* interrupt of the pause moves the mark but does not announce it.         *)
LEMMA PauseCollects ==
    ASSUME TypeOK, LineInv, LoopInv, AloneInv, Silence, Pause, alone'
    PROVE  Collecting'
<1>1. /\ InFrame /\ gap = 0 /\ gap' = 1 /\ alone /\ ~stalled /\ ~usart.ready
      /\ usart.counter + lastByte[1] - lastByte[2] + 1 < T35Steps
      /\ TimePasses /\ usart' = AfterSlot(usart, FALSE, head)
      /\ UNCHANGED <<lastByte, reception, poll, stalled, pc, got>>
      /\ head \in Slots /\ usart \in Usart
  BY DEF Pause, Silence, TypeOK
<1>2. Collecting /\ InFrame'
  BY <1>1 DEF AloneInv, Handed, Coming, InFrame
<1>3. /\ lastByte \in Byte
      /\ usart.counter \in Nat /\ lastByte[1] \in Nat /\ lastByte[2] \in Nat
      /\ lastByte[1] - lastByte[2] \in Nat
  BY <1>1, <1>2, ByteFacts, SizesFit DEF Collecting, Gathered, InFrame, Usart
<1>4. /\ ~usart'.idle
      /\ usart'.wait = IF usart.wait > 0 THEN usart.wait - 1 ELSE 0
      /\ \A k \in Nat : ~usart.ready /\ usart.counter + k + 1 < T35Steps
                        => ~usart'.ready /\ usart'.counter + k < T35Steps
      /\ usart'.left = 0 /\ ~usart'.busy /\ ~usart'.de
  BY <1>1, <1>2, SlotFacts DEF Collecting, Settled
<1>5. Harmless(usart)'
  <2>1. usart.counter + (lastByte[1] - lastByte[2]) + 1 < T35Steps
    BY <1>1, <1>3, SizesFit
  <2>2. QED
    BY <1>1, <1>3, <1>4, <2>1 DEF Harmless, Remaining
<1>6. rtuLastHead' = head' => usart'.wait > 0
  <2>1. rtuLastHead' = head' => usart.wait = PollSilence
    BY <1>1, <1>2 DEF Collecting, reception, poll
  <2>2. PollSilence \in Nat /\ PollSilence >= 2
    BY UartConstants
  <2>3. usart.wait = PollSilence => usart'.wait > 0
    <3>1. usart'.wait = IF usart.wait > 0 THEN usart.wait - 1 ELSE 0
      BY <1>4
    <3>2. QED
      BY <2>2, <3>1
  <2>4. QED
    BY <2>1, <2>3
<1>7. pc' = "served" => stalled' \/ round' > 0
  BY <1>1, TimeInServed
<1>8. Gathered'
  BY <1>1, <1>2, GatheredKeeps DEF Collecting, reception, poll
<1>9. QED
  <2>1. /\ pc' \in {"loop", "fetched", "served"} /\ got' = "nothing"
        /\ gap' # 0 /\ Coming'
    BY <1>1, <1>2 DEF Collecting, Coming
  <2>2. /\ ~usart'.idle /\ usart'.left = 0 /\ ~usart'.busy /\ ~usart'.de
    BY <1>4
  <2>3. QED
    BY <1>5, <1>6, <1>7, <1>8, <2>1, <2>2 DEF Collecting

(* Silence after the frame: the first slot marks its end or, when the CPU is *)
(* stalled, leaves the interrupt that will; the others change nothing.     *)
LEMMA SilenceKeepsAlone ==
    ASSUME TypeOK, LineInv, LoopInv, AloneInv, Silence, BetweenFrames, alone'
    PROVE  Collecting' \/ Handed'
<1>1. /\ ~InFrame /\ gap' = (IF gap < MinGap THEN gap + 1 ELSE gap) /\ alone
      /\ TimePasses /\ usart' = AfterSlot(usart, FALSE, head)
      /\ UNCHANGED <<lastByte, reception, poll, stalled, pc, got>>
      /\ head \in Slots /\ usart \in Usart /\ stalled \in BOOLEAN
      /\ gap \in Nat
  BY DEF BetweenFrames, Silence, TypeOK
<1>2. ~Coming' /\ gap' # 0
  BY <1>1, SizesFit DEF Coming, InFrame
<1> DEFINE heard == FALSE
<1>3. heard \in BOOLEAN /\ ~heard /\ usart' = AfterSlot(usart, heard, head)
  BY <1>1
<1> HIDE DEF heard
<1>4. /\ ~stalled => Settled(usart')
      /\ stalled =>
            /\ usart'.idle = (usart.idle \/ (usart.receiving /\ ~heard))
            /\ usart'.frameHead = usart.frameHead
      /\ ~stalled => usart'.frameHead = IF usart.receiving /\ ~heard THEN head
                                        ELSE usart.frameHead
      /\ usart.left = 0 => usart'.left = 0
      /\ ~usart.busy => ~usart'.busy
      /\ ~usart.de => ~usart'.de
      /\ usart.left = 0 /\ ~(usart.receiving /\ ~heard)
         => usart'.busy = usart.busy /\ usart'.de = usart.de
      /\ usart'.left > 0 => usart'.busy = usart.busy /\ usart'.de = usart.de
  BY <1>3, <1>1, SlotFacts
<1>5. CASE Collecting
  <2>1. usart'.frameHead = head \/ usart'.idle
    <3>1. usart.receiving \/ usart.frameHead = head \/ usart.idle
      BY <1>1, <1>5 DEF Collecting, Coming
    <3>2. CASE stalled
      <4>1. usart.receiving \/ usart.idle => usart'.idle
        <5>1. usart.receiving \/ usart.idle
              => (usart.idle \/ (usart.receiving /\ ~heard))
          BY <1>3
        <5>2. QED
          BY <1>4, <3>2, <5>1, Zenon
      <4>2. QED
        BY <1>4, <3>1, <3>2, <4>1
    <3>3. CASE ~stalled
      BY <1>3, <1>4, <3>1, <3>3 DEF LoopInv, Settled
    <3>4. QED
      BY <3>2, <3>3
  <2>2. pc' = "served" => stalled' \/ round' > 0
    BY <1>1, TimeInServed
  <2>3. Gathered'
    BY <1>1, <1>5, GatheredKeeps DEF Collecting, reception, poll
  <2>4. Collecting'
    <3>1. usart'.left = 0 /\ ~usart'.busy /\ ~usart'.de
      BY <1>4, <1>5 DEF Collecting
    <3>2. /\ pc' \in {"loop", "fetched", "served"} /\ got' = "nothing"
          /\ ~InFrame'
      BY <1>1, <1>5 DEF Collecting, InFrame
    <3>3. usart'.frameHead = head' \/ usart'.idle
      BY <1>1, <2>1 DEF reception
    <3>4. QED
      BY <1>2, <2>2, <2>3, <3>1, <3>2, <3>3 DEF Collecting
  <2>5. QED
    BY <2>4
<1>6. CASE Handed
  <2>1. ~usart.receiving
    BY <1>1, <1>6 DEF Handed, Coming, LoopInv
  <2>2. usart'.frameHead = head
    BY <1>1, <1>4, <1>6, <2>1 DEF Handed
  <2>3. ~usart'.idle
    <3>1. ~(usart.idle \/ (usart.receiving /\ ~heard))
      BY <1>6, <2>1 DEF Handed
    <3>2. CASE stalled
      BY <1>4, <3>1, <3>2, Zenon
    <3>3. QED
      BY <1>4, <3>2 DEF Settled
  <2>4. got = "frame" => /\ usart'.left = 0
                         /\ usart'.busy = (pc \in {"copying", "driving"})
                         /\ usart'.de = (pc = "driving")
    <3>1. got = "frame" => /\ usart.left = 0
                           /\ usart.busy = (pc \in {"copying", "driving"})
                           /\ usart.de = (pc = "driving")
      BY <1>6 DEF Handed
    <3>2. QED
      BY <1>4, <2>1, <3>1, Zenon
  <2>5. usart'.left > 0 => usart'.busy /\ usart'.de
    <3>1. usart'.left > 0 => usart.left > 0
      <4>1. usart.left \in Nat
        BY <1>1, SizesFit DEF Usart
      <4>2. usart.left = 0 => ~(usart'.left > 0)
        <5>1. usart.left = 0 => usart'.left = 0
          BY <1>4
        <5>2. QED
          BY <5>1
      <4>3. QED
        BY <4>1, <4>2
    <3>2. QED
      BY <1>4, <1>6, <3>1, Zenon DEF Handed
  <2>6. tail' = head' /\ head' = head /\ got' = got /\ pc' = pc
    BY <1>1, <1>6 DEF Handed, reception, poll
  <2>7. got # "pieces"
    BY <1>6 DEF Handed
  <2>8. Handed'
    BY <1>2, <2>2, <2>3, <2>4, <2>5, <2>6, <2>7 DEF Handed
  <2>9. QED
    BY <2>8
<1>7. QED
  BY <1>1, <1>5, <1>6 DEF AloneInv

(* The poll and the fetch: an announcement while the frame comes finds     *)
(* nothing to fetch, one after its end finds the whole frame.              *)
LEMMA FetchHands ==
    ASSUME TypeOK, LineInv, LoopInv, AloneInv, PollAndFetch, alone'
    PROVE  Collecting' \/ Handed'
<1>1. /\ InLoop /\ ~stalled /\ alone /\ got = "nothing" /\ ~usart.idle
      /\ UNCHANGED <<line, head, stalled>>
      /\ tail \in Slots /\ head \in Slots /\ usart \in Usart
      /\ ring \in [Slots -> Byte \union {Blank}]
  BY DEF PollAndFetch, LoopRuns, LoopInv, Settled, TypeOK
<1>2. /\ lastByte' = lastByte /\ gap' = gap /\ head' = head
      /\ InFrame' = InFrame /\ Coming' = Coming /\ Position' = Position
      /\ Remaining' = Remaining
  BY <1>1 DEF line, InFrame, Coming, Position, Remaining
<1>3. /\ usart'.idle = usart.idle /\ usart'.receiving = usart.receiving
      /\ usart'.left = usart.left /\ usart'.busy = usart.busy
      /\ usart'.de = usart.de /\ usart'.counter = usart.counter
      /\ \/ /\ rtuLastHead' = rtuLastHead /\ usart'.wait = usart.wait
            /\ usart'.frameHead = usart.frameHead /\ usart'.ready = usart.ready
         \/ /\ rtuLastHead' = head /\ usart'.wait = PollSilence
            /\ usart'.frameHead = usart.frameHead /\ usart'.ready = usart.ready
         \/ /\ rtuLastHead' = None /\ usart'.frameHead = head /\ usart'.ready
            /\ rtuLastHead = head /\ usart.wait = 0
  BY <1>1, PollCases DEF PollAndFetch, Usart
<1>4. CASE Handed
  <2>1. usart'.frameHead = head
    BY <1>3, <1>4 DEF Handed
  <2>2. Forward(tail, usart'.frameHead) = 0
    BY <1>1, <1>4, <2>1, ForwardFacts DEF Handed
  <2>3. got' = "nothing" /\ tail' = head
    BY <1>1, <1>4, <2>1, <2>2 DEF PollAndFetch, Handed
  <2>4. Handed'
    BY <1>2, <1>3, <1>4, <2>1, <2>3 DEF Handed
  <2>5. QED
    BY <2>4
<1>5. CASE Collecting
  <2>1. /\ lastByte \in Byte /\ head = At(tail, Position)
        /\ \A i \in 1 .. Position : ring[At(tail, i - 1)] = <<lastByte[1], i>>
        /\ Position \in 1 .. RxSize - 1 /\ Position \in Nat
        /\ Position \in 0 .. RxSize - 1
        /\ lastByte[1] \in Nat /\ Position <= lastByte[1]
    BY <1>5, ByteFacts DEF Collecting, Gathered, Position
  <2>2. CASE ~usart'.ready
    <3>1. pc' = "loop" /\ got' = "nothing" /\ tail' = tail /\ ring' = ring
      BY <1>1, <2>2 DEF PollAndFetch
    <3>2. /\ usart'.frameHead = usart.frameHead
          /\ ~usart.ready
          /\ \/ rtuLastHead' = rtuLastHead /\ usart'.wait = usart.wait
             \/ rtuLastHead' = head /\ usart'.wait = PollSilence
      BY <1>3, <2>2, Zenon
    <3>3. Gathered'
      BY <1>2, <1>5, <3>1, <3>2, GatheredKeeps DEF Collecting
    <3>4. rtuLastHead' = head' => /\ gap' = 0 => usart'.wait = PollSilence
                                  /\ InFrame' => usart'.wait > 0
      BY <1>2, <1>5, <3>2, SizesFit DEF Collecting
    <3>5. Harmless(usart) => Harmless(usart)'
      BY <1>1, <1>2, <1>3, <2>2 DEF Harmless
    <3>6. QED
      BY <1>2, <1>3, <1>5, <3>1, <3>2, <3>3, <3>4, <3>5 DEF Collecting
  <2>3. CASE usart'.ready /\ Coming
    <3>1. /\ usart'.frameHead = usart.frameHead /\ usart.ready
          /\ \/ rtuLastHead' = rtuLastHead /\ usart'.wait = usart.wait
             \/ rtuLastHead' = head /\ usart'.wait = PollSilence
      <4>1. ~(rtuLastHead = head /\ usart.wait = 0)
        BY <1>5, <2>3, SizesFit DEF Collecting, Coming
      <4>2. QED
        BY <1>1, <1>3, <2>3, <4>1 DEF Usart
    <3>2. usart'.frameHead = tail
      BY <1>5, <2>3, <3>1 DEF Collecting, Harmless
    <3>3. Forward(tail, usart'.frameHead) = 0
      BY <1>1, <3>2, ForwardFacts
    <3>4. /\ got' = "nothing" /\ tail' = tail /\ pc' = "fetched"
          /\ ring' = [s \in Slots |-> IF Forward(tail, s) < 0 THEN Blank ELSE ring[s]]
      BY <2>3, <3>2, <3>3 DEF PollAndFetch
    <3>5. ring' = ring
      <4>1. \A s \in Slots : ~(Forward(tail, s) < 0)
        BY <1>1, ForwardFacts, SizesFit
      <4>2. QED
        BY <1>1, <3>4, <4>1
    <3>6. Gathered'
      BY <1>2, <1>5, <3>1, <3>4, <3>5, GatheredKeeps DEF Collecting
    <3>7. rtuLastHead' = head' => /\ gap' = 0 => usart'.wait = PollSilence
                                  /\ InFrame' => usart'.wait > 0
      BY <1>2, <1>5, <3>1, SizesFit DEF Collecting
    <3>8. QED
      BY <1>1, <1>2, <1>3, <1>5, <2>3, <3>2, <3>4, <3>6, <3>7 DEF Collecting
  <2>4. CASE usart'.ready /\ ~Coming
    <3>1. usart'.frameHead = head
      BY <1>1, <1>3, <1>5, <2>4 DEF Collecting
    <3>2. Position = lastByte[1]
      BY <2>1, <2>4 DEF Coming, InFrame, Position
    <3>3. Forward(tail, usart'.frameHead) = Position
      BY <1>1, <2>1, <3>1, ForwardFacts
    <3>4. IsFrame(Slice(tail, Position))
      BY <1>1, <2>1, <3>2, SliceIsFrame
    <3>5. got' = "frame" /\ tail' = head /\ pc' = "fetched"
      BY <2>1, <2>4, <3>1, <3>3, <3>4 DEF PollAndFetch
    <3>6. usart'.left = 0 /\ ~usart'.busy /\ ~usart'.de /\ ~usart'.idle
      BY <1>1, <1>3, <1>5 DEF Collecting
    <3>7. Handed'
      <4>1. usart'.busy \in BOOLEAN /\ usart'.de \in BOOLEAN
        BY <1>1, <1>3 DEF Usart
      <4>2. QED
        BY <1>2, <2>4, <3>1, <3>5, <3>6, <4>1 DEF Handed
    <3>8. QED
      BY <3>7
  <2>5. QED
    BY <2>2, <2>3, <2>4
<1>6. QED
  BY <1>1, <1>4, <1>5 DEF AloneInv

(* What was pending during a stall is served at its end.                   *)
LEMMA StallEndsAlone ==
    ASSUME TypeOK, LineInv, LoopInv, AloneInv, StallEnds, alone'
    PROVE  Collecting' \/ Handed'
<1>1. /\ stalled /\ ~stalled' /\ pc = "served" /\ pc' = "loop" /\ alone
      /\ usart' = InterruptsServed(usart, head)
      /\ UNCHANGED <<lastByte, gap, ring, head, tail, rtuLastHead, got>>
      /\ got = "nothing"
      /\ usart \in Usart /\ head \in Slots
  BY DEF StallEnds, LineInv, LoopInv, InLoop, TypeOK, line, reception, poll
<1>2. /\ ~usart'.idle /\ usart'.left = usart.left
      /\ usart'.receiving = usart.receiving /\ usart'.wait = usart.wait
      /\ usart'.frameHead = IF usart.idle THEN head ELSE usart.frameHead
      /\ ~usart.busy => ~usart'.busy
      /\ ~usart.de => ~usart'.de
      /\ ~usart.tc => usart'.busy = usart.busy /\ usart'.de = usart.de
  BY <1>1, InterruptsSettle, InterruptsRelease
<1>3. Coming' = Coming /\ InFrame' = InFrame
  BY <1>1 DEF Coming, InFrame
<1>4. CASE Collecting
  <2>1. Gathered'
    BY <1>1, <1>4, GatheredKeeps DEF Collecting
  <2>2. /\ usart'.left = 0 /\ ~usart'.busy /\ ~usart'.de
    BY <1>2, <1>4 DEF Collecting
  <2>3. gap' = 0 => usart'.receiving
    BY <1>1, <1>2, <1>4, Zenon DEF Collecting
  <2>4. rtuLastHead' = head' => /\ gap' = 0 => usart'.wait = PollSilence
                                /\ InFrame' => usart'.wait > 0
    <3>1. usart'.wait = usart.wait
      BY <1>2
    <3>2. QED
      BY <1>1, <1>3, <1>4, <3>1 DEF Collecting
  <2>5. usart'.frameHead = IF Coming' THEN tail' ELSE head'
    <3>1. usart'.frameHead = IF usart.idle THEN head ELSE usart.frameHead
      BY <1>2
    <3>2. QED
      BY <1>1, <1>3, <1>4, <3>1 DEF Collecting, Harmless
  <2>6. ~usart'.idle
    BY <1>2
  <2>7. Collecting'
    BY <1>1, <2>1, <2>2, <2>3, <2>4, <2>5, <2>6 DEF Collecting
  <2>8. QED
    BY <2>7
<1>5. CASE Handed
  <2>1. ~usart'.idle /\ usart'.frameHead = head
    BY <1>2, <1>5 DEF Handed
  <2>2. usart'.left > 0 => usart'.busy /\ usart'.de
    <3>1. usart'.left = usart.left
      BY <1>2
    <3>2. usart.left > 0 => ~usart.tc /\ usart.busy /\ usart.de
      BY <1>5 DEF Handed, LineInv, Flagged
    <3>3. QED
      BY <1>2, <3>1, <3>2, Zenon
  <2>3. Handed'
    BY <1>1, <1>3, <1>5, <2>1, <2>2 DEF Handed
  <2>4. QED
    BY <2>3
<1>6. QED
  BY <1>1, <1>4, <1>5 DEF AloneInv

(* The steps that serve a frame and send the response.                     *)
LEMMA ServiceKeepsAlone ==
    ASSUME TypeOK, LineInv, LoopInv, AloneInv, alone',
           \/ UART_ClearFrameFlag \/ ServeSilently \/ SendRefused
           \/ SendBegins \/ DriverOn \/ DmaStarts
    PROVE  Collecting' \/ Handed'
<1>1. /\ alone /\ ~stalled /\ stalled' = stalled /\ usart \in Usart
      /\ UNCHANGED <<lastByte, gap, ring, head, tail, rtuLastHead>>
      /\ got \in {"nothing", "frame", "pieces"}
  BY DEF UART_ClearFrameFlag, ServeSilently, SendRefused, SendBegins, DriverOn,
         DmaStarts, LoopRuns, line, reception, poll, TypeOK
<1>2. /\ Coming' = Coming /\ InFrame' = InFrame /\ Remaining' = Remaining
  BY <1>1 DEF Coming, InFrame, Remaining
<1>3. CASE Collecting
  <2>1. UART_ClearFrameFlag /\ got = "nothing" /\ got' = got /\ pc' = "loop"
    BY <1>3 DEF Collecting, UART_ClearFrameFlag, ServeSilently, SendRefused,
                SendBegins, DriverOn, DmaStarts
  <2>2. /\ usart'.idle = usart.idle /\ usart'.receiving = usart.receiving
        /\ usart'.left = usart.left /\ usart'.busy = usart.busy
        /\ usart'.de = usart.de /\ usart'.counter = usart.counter
        /\ usart'.wait = usart.wait /\ usart'.frameHead = usart.frameHead
        /\ ~usart'.ready
    BY <1>1, <2>1 DEF UART_ClearFrameFlag, Usart
  <2>3. Gathered'
    BY <1>1, <1>3, GatheredKeeps DEF Collecting
  <2>4. Harmless(usart) => Harmless(usart)'
    BY <1>1, <1>2, <2>2 DEF Harmless
  <2>5. Collecting'
    BY <1>1, <1>2, <1>3, <2>1, <2>2, <2>3, <2>4 DEF Collecting
  <2>6. QED
    BY <2>5
<1>4. ASSUME Handed, usart'.frameHead = usart.frameHead, usart'.idle = usart.idle,
             got' # "pieces",
             got' = "frame" => /\ usart'.left = 0
                               /\ usart'.busy = (pc' \in {"copying", "driving"})
                               /\ usart'.de = (pc' = "driving"),
             usart'.left > 0 => usart'.busy /\ usart'.de
      PROVE  Handed'
  BY <1>1, <1>2, <1>4 DEF Handed
<1>5. CASE Handed
  <2>1. /\ got # "pieces"
        /\ got = "frame" => /\ usart.left = 0 /\ ~(usart.left > 0)
                            /\ pc \in {"fetched", "serving"} => ~usart.busy /\ ~usart.de
                            /\ pc = "copying" => usart.busy /\ ~usart.de
                            /\ pc = "driving" => usart.busy /\ usart.de
        /\ pc \in {"serving", "copying", "driving"} => got = "frame"
        /\ usart.left > 0 => usart.busy /\ usart.de
    <3>1. /\ got # "pieces"
          /\ pc \in {"serving", "copying", "driving"} => got = "frame"
      BY <1>1, <1>5 DEF Handed, LoopInv
    <3>2. usart.left > 0 => usart.busy /\ usart.de
      BY <1>5 DEF Handed
    <3>3. got = "frame" => usart.left = 0 /\ ~(usart.left > 0)
      <4>1. got = "frame" => usart.left = 0
        BY <1>5 DEF Handed
      <4>2. QED
        BY <4>1
    <3>4. got = "frame" => /\ usart.busy = (pc \in {"copying", "driving"})
                           /\ usart.de = (pc = "driving")
      BY <1>5 DEF Handed
    <3>5. usart.busy \in BOOLEAN /\ usart.de \in BOOLEAN
      BY <1>1 DEF Usart
    <3>6. QED
      BY <3>1, <3>2, <3>3, <3>4, <3>5
  <2>2. CASE UART_ClearFrameFlag
    <3>1. /\ usart'.frameHead = usart.frameHead /\ usart'.idle = usart.idle
          /\ usart'.left = usart.left /\ usart'.busy = usart.busy
          /\ usart'.de = usart.de
      BY <1>1, <2>2 DEF UART_ClearFrameFlag, Usart
    <3>2. /\ pc = "fetched" /\ got' = got
          /\ pc' = IF got = "nothing" THEN "loop" ELSE "serving"
      BY <2>2 DEF UART_ClearFrameFlag
    <3>3. usart.busy \in BOOLEAN /\ usart.de \in BOOLEAN
      BY <1>1 DEF Usart
    <3>4. QED
      BY <1>4, <1>5, <2>1, <3>1, <3>2, <3>3
  <2>3. CASE ServeSilently \/ SendRefused
    BY <1>4, <1>5, <2>1, <2>3 DEF ServeSilently, SendRefused
  <2>4. CASE SendBegins
    <3>1. /\ usart'.frameHead = usart.frameHead /\ usart'.idle = usart.idle
          /\ usart'.left = usart.left /\ usart'.busy = TRUE
          /\ usart'.de = usart.de
      BY <1>1, <2>4 DEF SendBegins, Usart
    <3>2. pc = "serving" /\ got' = got /\ pc' = "copying" /\ got = "frame"
      BY <2>4 DEF SendBegins
    <3>3. usart.de = FALSE
      BY <1>1, <2>1, <3>2 DEF Usart
    <3>4. QED
      BY <1>4, <1>5, <2>1, <3>1, <3>2, <3>3
  <2>5. CASE DriverOn
    <3>1. /\ usart'.frameHead = usart.frameHead /\ usart'.idle = usart.idle
          /\ usart'.left = usart.left /\ usart'.busy = usart.busy
          /\ usart'.de = TRUE
      BY <1>1, <2>5 DEF DriverOn, Usart
    <3>2. pc = "copying" /\ got' = got /\ pc' = "driving" /\ got = "frame"
      BY <2>1, <2>5 DEF DriverOn
    <3>3. usart.busy = TRUE
      BY <1>1, <2>1, <3>2 DEF Usart
    <3>4. QED
      BY <1>4, <1>5, <2>1, <3>1, <3>2, <3>3
  <2>6. CASE DmaStarts
    <3>1. /\ usart'.frameHead = usart.frameHead /\ usart'.idle = usart.idle
          /\ usart'.busy = usart.busy /\ usart'.de = usart.de
      BY <1>1, <2>6 DEF DmaStarts, Usart
    <3>2. pc = "driving" /\ got' = "nothing"
      BY <2>6 DEF DmaStarts
    <3>3. usart'.busy /\ usart'.de
      BY <2>1, <3>1, <3>2, Zenon
    <3>4. QED
      BY <1>4, <1>5, <3>1, <3>2, <3>3
  <2>7. QED
    BY <2>2, <2>3, <2>4, <2>5, <2>6
<1>6. QED
  BY <1>1, <1>3, <1>5 DEF AloneInv

(* AloneInv is inductive.                                                  *)
LEMMA AloneStep ==
    ASSUME TypeOK, LineInv, LoopInv, AloneInv, [Next]_vars
    PROVE  AloneInv'
<1> SUFFICES ASSUME alone' PROVE Collecting' \/ Handed'
  BY DEF AloneInv
<1>1. CASE FrameStarts
  BY <1>1, StartCollects
<1>2. CASE FrameGoesOn
  BY <1>2, GoOnCollects
<1>3. CASE Silence
  BY <1>3, PauseCollects, SilenceKeepsAlone DEF Silence
<1>4. CASE StallBegins
  <2>1. /\ pc = "served" /\ ~stalled /\ ~(round > 0) /\ alone
        /\ UNCHANGED <<lastByte, gap, ring, head, tail, rtuLastHead, usart, pc, got>>
    BY <1>4 DEF StallBegins, line, reception, poll
  <2>2. Handed
    BY <2>1 DEF AloneInv, Collecting
  <2>3. Handed'
    BY <2>1, <2>2 DEF Handed, Coming, InFrame
  <2>4. QED
    BY <2>3
<1>5. CASE StallEnds
  BY <1>5, StallEndsAlone
<1>6. CASE PollAndFetch
  BY <1>6, FetchHands
<1>7. CASE \/ UART_ClearFrameFlag \/ ServeSilently \/ SendRefused
           \/ SendBegins \/ DriverOn \/ DmaStarts
  BY <1>7, ServiceKeepsAlone
<1>8. CASE UNCHANGED vars
  BY <1>8 DEF vars, line, reception, poll, AloneInv, Collecting, Handed, Gathered,
              Harmless, Remaining, Position, Coming, InFrame
<1>9. QED
  BY <1>1, <1>2, <1>3, <1>4, <1>5, <1>6, <1>7, <1>8 DEF Next, Slot, Loop

(* The two invariants hold.                                                *)
LEMMA AloneHolds == Spec => [](LoopInv /\ AloneInv)
<1>1. Init => AloneInv
  BY DEF Init, AloneInv
<1>2. TypeOK /\ LineInv /\ LoopInv /\ AloneInv /\ [Next]_vars => AloneInv'
  BY AloneStep
<1>3. QED
  BY <1>1, <1>2, LoopHolds, PTL DEF Spec

(* A frame that comes to a driver at rest is handed over whole, for every  *)
(* size of the ring, every length of frames, all timers, and after every   *)
(* history of merged, cut and overwritten frames.                          *)
THEOREM AloneWhole == Spec => []AloneIsWhole
<1>1. AloneInv => AloneIsWhole
  BY DEF AloneInv, AloneIsWhole, Collecting, Handed
<1>2. QED
  BY <1>1, AloneHolds, PTL

(* Its response is not refused, and the line is driven until the last byte *)
(* of the response has left.                                               *)
THEOREM AloneAnswered == Spec => []AloneIsAnswered
<1>1. TypeOK /\ LoopInv /\ AloneInv => AloneIsAnswered
  <2> SUFFICES ASSUME TypeOK, LoopInv, AloneInv, alone
               PROVE  /\ pc = "serving" => ~usart.busy
                      /\ usart.left > 0 => usart.de /\ usart.busy
    BY DEF AloneIsAnswered
  <2>1. CASE Collecting
    BY <2>1 DEF Collecting
  <2>2. CASE Handed
    <3>1. pc = "serving" => got = "frame"
      BY <2>2 DEF Handed, LoopInv, TypeOK
    <3>2. QED
      BY <2>2, <3>1 DEF Handed
  <2>3. QED
    BY <2>1, <2>2 DEF AloneInv
<1>2. QED
  BY <1>1, AloneHolds, LoopHolds, PTL
=============================================================================
