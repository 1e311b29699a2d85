-------------------------- MODULE FrameQueueProofs --------------------------
(***************************************************************************)
(* For every queue size, slot size and set of frames: the ring stays       *)
(* consistent, a peeked frame stays put, and the ring implements the       *)
(* bounded FIFO.                                                           *)
(***************************************************************************)
EXTENDS FrameQueue, SequenceTheorems, TLAPS

(* What memcpy leaves in a slot is a frame again, and a reader of it sees  *)
(* the copied bytes alone, whatever the slot held before.                  *)
LEMMA OverwrittenType ==
    ASSUME NEW frame \in Frame, NEW payload \in Seq(Bytes)
    PROVE  Overwritten(frame, payload, Truncated(Len(payload))) \in Frame
<1>1. /\ Truncated(Len(payload)) \in 0 .. MaxFrame
      /\ Truncated(Len(payload)) <= Len(payload)
  BY QueueConstants DEF Truncated
<1>2. ASSUME NEW i \in 1 .. MaxFrame, i <= Truncated(Len(payload))
      PROVE  payload[i] \in Bytes
  BY <1>1, <1>2, QueueConstants
<1>3. QED
  BY <1>1, <1>2 DEF Overwritten, Frame

(* So does the copy of a frame into another.                               *)
LEMMA CopyType ==
    ASSUME NEW frame \in Frame, NEW source \in Frame
    PROVE  Overwritten(frame, source.data, source.len) \in Frame
BY DEF Overwritten, Frame

(* What a reader sees of a copy does not depend on the slot it was copied  *)
(* to.                                                                     *)
LEMMA VisibleOverwritten ==
    ASSUME NEW f \in Frame, NEW g \in Frame, NEW bytes, NEW len \in 0 .. MaxFrame
    PROVE  Visible(Overwritten(f, bytes, len)) = Visible(Overwritten(g, bytes, len))
<1>1. \A i \in 1 .. len : i \in 1 .. MaxFrame /\ i <= len
  BY QueueConstants
<1>2. QED
  BY <1>1 DEF Visible, Overwritten

(* A copied frame looks like the frame it was copied from.                 *)
LEMMA VisibleCopy ==
    ASSUME NEW f \in Frame, NEW source \in Frame
    PROVE  Visible(Overwritten(f, source.data, source.len)) = Visible(source)
<1>1. source.len \in 0 .. MaxFrame
  BY DEF Frame
<1>2. \A i \in 1 .. source.len : i \in 1 .. MaxFrame /\ i <= source.len
  BY <1>1, QueueConstants
<1>3. QED
  BY <1>2 DEF Visible, Overwritten

(* What a reader sees of a frame is a sequence of bytes.                   *)
LEMMA VisibleIsSequence ==
    ASSUME NEW frame \in Frame
    PROVE  Visible(frame) \in Seq(Bytes)
<1>1. frame.len \in Nat /\ \A i \in 1 .. frame.len : frame.data[i] \in Bytes
  BY QueueConstants DEF Frame
<1>2. QED
  BY <1>1 DEF Visible

(* The frame every buffer starts with is one.                              *)
LEMMA EmptyFrameType == EmptyFrame \in Frame
BY QueueConstants DEF EmptyFrame, Frame

(* The index behind a slot is a slot.                                      *)
LEMMA AfterType ==
    ASSUME NEW slot \in Slots
    PROVE  After(slot) \in Slots
BY QueueConstants DEF After, Slots

(* The two reports the queue makes keep the type of the error manager.     *)
LEMMA ReportsKeepType ==
    ASSUME NEW e \in ErrorState
    PROVE  AfterUartOverflow(e) \in ErrorState /\ AfterValidModbusFrame(e) \in ErrorState
<1> DEFINE raised == [e EXCEPT !.consecutiveUartOverflow = Incremented(@)]
<1>1. \A c \in Count : Incremented(c) \in Count /\ 0 \in Count
  BY ErrorConstants DEF Incremented, Count
<1>2. raised \in ErrorState
  BY <1>1 DEF ErrorState
<1>3. WantsRecovery(raised) \in BOOLEAN /\ IsFatal(raised) \in BOOLEAN
  BY DEF WantsRecovery, IsFatal
<1>4. Processed(raised) \in ErrorState
  BY <1>2, <1>3 DEF Processed, ErrorState
<1>5. 0 \in Count
  BY ErrorConstants DEF Count
<1>6. AfterValidModbusFrame(e) \in ErrorState
  BY <1>5 DEF AfterValidModbusFrame, ErrorState
<1>7. QED
  BY <1>4, <1>6 DEF AfterUartOverflow

(* Indices stay within the ring, and slots and counters within their types,*)
(* for every size of the ring and of its frames.                           *)
THEOREM TypeCorrect == Spec => []TypeOK
<1>1. Init => TypeOK
  BY QueueConstants, ErrorConstants, EmptyFrameType
  DEF Init, TypeOK, Slots, ErrorInit, ErrorState, Count
<1>2. TypeOK /\ [Next]_vars => TypeOK'
  <2> SUFFICES ASSUME TypeOK, [Next]_vars
               PROVE  TypeOK'
    OBVIOUS
  <2> USE DEF TypeOK
  <2>1. ASSUME NEW payload \in Payloads, QueueFrame(payload)
        PROVE  TypeOK'
    <3>1. Overwritten(frames[head], payload, Truncated(Len(payload))) \in Frame
      BY OverwrittenType, QueueConstants
    <3>2. QED
      BY <2>1, <3>1, AfterType, QueueConstants DEF QueueFrame
  <2>2. CASE RefuseFrame
    BY <2>2, ReportsKeepType, QueueConstants DEF RefuseFrame
  <2>3. ASSUME ReleaseOldest
        PROVE  /\ tail' \in Slots
               /\ count' \in 0 .. FrameQueueSize
               /\ peeked' \in Slots \cup {NoFrame}
    BY <2>3, AfterType, QueueConstants DEF ReleaseOldest
  <2>4. CASE DequeueFrame
    BY <2>3, <2>4, CopyType DEF DequeueFrame
  <2>5. CASE PopFrame
    BY <2>3, <2>5 DEF PopFrame
  <2>6. CASE PeekFrame
    BY <2>6 DEF PeekFrame
  <2>7. CASE ClearQueue
    BY <2>7, QueueConstants DEF ClearQueue, Slots
  <2>8. CASE AcceptFrame
    BY <2>8, ReportsKeepType DEF AcceptFrame
  <2>9. CASE UNCHANGED vars
    BY <2>9 DEF vars
  <2>10. QED
    BY <2>1, <2>2, <2>4, <2>5, <2>6, <2>7, <2>8, <2>9 DEF Next
<1>3. QED
  BY <1>1, <1>2, PTL DEF Spec

-----------------------------------------------------------------------------
(* The inductive invariant is the conjunction itself: the wrap of head and *)
(* the wrap of tail agree because count says how far apart they are.       *)
IInv == RingConsistent /\ PeekedIsOldest

(* head, tail and count agree in every reachable state, and a pointer that *)
(* is still alive designates the oldest frame.                             *)
THEOREM RingSafety == Spec => [](RingConsistent /\ PeekedIsOldest)
<1>1. Init => IInv
  BY QueueConstants DEF Init, IInv, RingConsistent, PeekedIsOldest, SlotAt
<1>2. TypeOK /\ IInv /\ [Next]_vars => IInv'
  <2> SUFFICES ASSUME TypeOK, IInv, [Next]_vars
               PROVE  IInv'
    OBVIOUS
  <2> USE QueueConstants DEF TypeOK, IInv, RingConsistent, PeekedIsOldest, SlotAt, Slots
  <2>1. ASSUME NEW payload \in Payloads, QueueFrame(payload)
        PROVE  IInv'
    BY <2>1 DEF QueueFrame, After
  <2>2. CASE RefuseFrame
    BY <2>2 DEF RefuseFrame
  <2>3. CASE DequeueFrame
    BY <2>3 DEF DequeueFrame, ReleaseOldest, After
  <2>4. CASE PopFrame
    BY <2>4 DEF PopFrame, ReleaseOldest, After
  <2>5. CASE PeekFrame
    BY <2>5 DEF PeekFrame
  <2>6. CASE ClearQueue
    BY <2>6 DEF ClearQueue
  <2>7. CASE AcceptFrame
    BY <2>7 DEF AcceptFrame
  <2>8. CASE UNCHANGED vars
    BY <2>8 DEF vars
  <2>9. QED
    BY <2>1, <2>2, <2>3, <2>4, <2>5, <2>6, <2>7, <2>8 DEF Next
<1>3. QED
  BY <1>1, <1>2, TypeCorrect, PTL DEF Spec, IInv

(* The slots between tail and head are distinct from the one at head.      *)
LEMMA SlotAtFacts ==
    ASSUME TypeOK, RingConsistent
    PROVE  /\ \A k \in 0 .. count - 1 : SlotAt(k) \in Slots
           /\ count < FrameQueueSize => \A k \in 0 .. count - 1 : SlotAt(k) # head
           /\ SlotAt(0) = tail
BY QueueConstants DEF TypeOK, RingConsistent, SlotAt, Slots

(* A frame handed out by peekFrame is not written to before it is popped,  *)
(* even when the ring fills up and head comes around to it.                *)
THEOREM PeekStays == Spec => PeekedIsStable
<1>1. TypeOK /\ IInv /\ [Next]_vars =>
        [peeked # NoFrame /\ peeked' = peeked => frames'[peeked] = frames[peeked]]_vars
  <2> SUFFICES ASSUME TypeOK, IInv, Next, peeked # NoFrame
               PROVE  frames'[peeked] = frames[peeked]
    OBVIOUS
  <2>1. ASSUME NEW payload \in Payloads, QueueFrame(payload)
        PROVE  frames'[peeked] = frames[peeked]
    <3>1. count < FrameQueueSize /\ count > 0 /\ peeked = tail
      BY <2>1 DEF QueueFrame, IInv, PeekedIsOldest
    <3>2. 0 \in 0 .. count - 1
      BY <3>1 DEF TypeOK
    <3>3. peeked # head
      BY <3>1, <3>2, SlotAtFacts DEF IInv
    <3>4. QED
      BY <2>1, <3>3 DEF QueueFrame, TypeOK
  <2>2. CASE ~ \E payload \in Payloads : QueueFrame(payload)
    BY <2>2 DEF Next, RefuseFrame, DequeueFrame, PopFrame, PeekFrame, ClearQueue, AcceptFrame
  <2>3. QED
    BY <2>1, <2>2
<1>2. QED
  BY <1>1, TypeCorrect, RingSafety, PTL DEF Spec, IInv, PeekedIsStable

-----------------------------------------------------------------------------
(* Two ways to recognise a sequence by its length and its elements.        *)
LEMMA IsAppend ==
    ASSUME NEW S, NEW s \in Seq(S), NEW e \in S, NEW t \in Seq(S),
           Len(t) = Len(s) + 1,
           \A k \in 1 .. Len(s) : t[k] = s[k],
           t[Len(s) + 1] = e
    PROVE  t = Append(s, e)
<1>1. /\ Append(s, e) \in Seq(S)
      /\ Len(Append(s, e)) = Len(s) + 1
      /\ Append(s, e)[Len(s) + 1] = e
      /\ \A k \in 1 .. Len(s) : Append(s, e)[k] = s[k]
  OBVIOUS
<1>2. \A k \in 1 .. Len(t) : k \in 1 .. Len(s) \/ k = Len(s) + 1
  OBVIOUS
<1>3. QED
  BY <1>1, <1>2, SeqEqual

(* The same for the sequence without its first element.                    *)
LEMMA IsTail ==
    ASSUME NEW S, NEW s \in Seq(S), s # << >>, NEW t \in Seq(S),
           Len(t) = Len(s) - 1,
           \A k \in 1 .. Len(t) : t[k] = s[k + 1]
    PROVE  t = Tail(s)
<1>1. /\ Tail(s) \in Seq(S)
      /\ Len(Tail(s)) = Len(s) - 1
      /\ \A k \in 1 .. Len(Tail(s)) : Tail(s)[k] = s[k + 1]
  BY HeadTailProperties
<1>2. QED
  BY <1>1, SeqEqual

(* The abstract queue is a sequence of byte sequences.                     *)
LEMMA ContentsType ==
    ASSUME TypeOK, RingConsistent
    PROVE  /\ Contents \in Seq(Seq(Bytes))
           /\ Len(Contents) = count
<1>1. count \in Nat
  BY QueueConstants DEF TypeOK
<1>2. \A k \in 1 .. count : SlotAt(k - 1) \in Slots
  BY <1>1, SlotAtFacts
<1>3. \A k \in 1 .. count : Visible(frames[SlotAt(k - 1)]) \in Seq(Bytes)
  BY <1>2, VisibleIsSequence DEF TypeOK
<1>4. QED
  BY <1>1, <1>3 DEF Contents

(* Storing at head appends to the abstract queue.                          *)
LEMMA StoringAppends ==
    ASSUME TypeOK, TypeOK', RingConsistent,
           NEW payload \in Payloads, QueueFrame(payload)
    PROVE  Contents' = Append(Contents, Visible(frames'[head]))
<1> DEFINE new == Visible(frames'[head])
<1>1. /\ count \in Nat /\ count' = count + 1 /\ count < FrameQueueSize
      /\ tail' = tail
  BY QueueConstants DEF TypeOK, QueueFrame
<1>2. \A k \in 1 .. count : frames'[SlotAt(k - 1)] = frames[SlotAt(k - 1)]
  <2> SUFFICES ASSUME NEW k \in 1 .. count
               PROVE  frames'[SlotAt(k - 1)] = frames[SlotAt(k - 1)]
    OBVIOUS
  <2>1. SlotAt(k - 1) \in Slots /\ SlotAt(k - 1) # head
    BY <1>1, SlotAtFacts
  <2>2. QED
    BY <2>1 DEF QueueFrame, TypeOK
<1>3. SlotAt(count) = head
  BY DEF RingConsistent
<1>4. Contents' = [k \in 1 .. count + 1 |-> Visible(frames'[SlotAt(k - 1)])]
  BY <1>1 DEF Contents, SlotAt, Visible
<1>5. \A k \in 1 .. count + 1 :
        Visible(frames'[SlotAt(k - 1)]) = IF k <= count THEN Contents[k] ELSE new
  BY <1>1, <1>2, <1>3 DEF Contents
<1>6. new \in Seq(Bytes)
  BY VisibleIsSequence DEF TypeOK
<1>7. /\ Contents' \in Seq(Seq(Bytes)) /\ Len(Contents') = count + 1
      /\ Contents \in Seq(Seq(Bytes)) /\ Len(Contents) = count
  <2>1. Contents \in Seq(Seq(Bytes)) /\ Len(Contents) = count
    BY ContentsType
  <2>2. \A k \in 1 .. count : Contents[k] \in Seq(Bytes)
    BY <2>1, <1>1, ElementOfSeq
  <2>3. \A k \in 1 .. count + 1 : Visible(frames'[SlotAt(k - 1)]) \in Seq(Bytes)
    <3> SUFFICES ASSUME NEW k \in 1 .. count + 1
                 PROVE  Visible(frames'[SlotAt(k - 1)]) \in Seq(Bytes)
      OBVIOUS
    <3> HIDE DEF new
    <3>1. Visible(frames'[SlotAt(k - 1)]) = IF k <= count THEN Contents[k] ELSE new
      BY <1>5
    <3>2. CASE k <= count
      BY <1>1, <2>2, <3>1, <3>2
    <3>3. CASE ~(k <= count)
      BY <1>6, <3>1, <3>3
    <3>4. QED
      BY <3>2, <3>3
  <2>4. QED
    BY <1>1, <1>4, <2>1, <2>3
<1>8. /\ \A k \in 1 .. count : Contents'[k] = Contents[k]
      /\ Contents'[count + 1] = new
  BY <1>1, <1>4, <1>5
<1> HIDE DEF new
<1>9. Contents' = Append(Contents, new)
  BY <1>6, <1>7, <1>8, IsAppend
<1>10. QED
  BY <1>9 DEF new

(* Advancing tail takes the head off the abstract queue.                   *)
LEMMA ReleasingTakesHead ==
    ASSUME TypeOK, TypeOK', RingConsistent, ReleaseOldest, frames' = frames
    PROVE  /\ Contents # << >>
           /\ Contents' = Tail(Contents)
           /\ Head(Contents) = Visible(frames[tail])
<1>1. /\ count \in Nat /\ count > 0 /\ count' = count - 1 /\ tail' = After(tail)
      /\ count <= FrameQueueSize /\ tail \in Slots
  BY QueueConstants DEF TypeOK, ReleaseOldest
<1>2. Contents \in Seq(Seq(Bytes)) /\ Len(Contents) = count
  BY ContentsType
<1>3. \A k \in 1 .. count - 1 : SlotAt(k - 1)' = SlotAt(k)
  BY <1>1, QueueConstants DEF SlotAt, After, Slots
<1>4. Contents' = [k \in 1 .. count - 1 |-> Visible(frames[SlotAt(k)])]
  BY <1>1, <1>3 DEF Contents, Visible
<1>5. \A k \in 1 .. count - 1 : Visible(frames[SlotAt(k)]) = Contents[k + 1]
  BY <1>1 DEF Contents
<1>6. Contents # << >>
  BY <1>1, <1>2, EmptySeq
<1>7. Contents' \in Seq(Seq(Bytes)) /\ Len(Contents') = count - 1
  <2>1. \A k \in 1 .. count - 1 : Contents[k + 1] \in Seq(Bytes)
    BY <1>1, <1>2, ElementOfSeq
  <2>2. QED
    BY <1>1, <1>4, <1>5, <2>1
<1>8. \A k \in 1 .. count - 1 : Contents'[k] = Contents[k + 1]
  BY <1>4, <1>5
<1>9. Contents' = Tail(Contents)
  BY <1>2, <1>6, <1>7, <1>8, IsTail
<1>10. Head(Contents) = Visible(frames[tail])
  BY <1>1, <1>2, SlotAtFacts DEF Contents
<1>11. QED
  BY <1>6, <1>9, <1>10

(* The ring implements the bounded FIFO: every operation of the code is    *)
(* one operation of the FIFO on the frames the ring holds, or none.        *)
THEOREM Refinement == Spec => ImplementsFifo
<1>1. Init => Fifo!Init
  <2> SUFFICES ASSUME Init PROVE Fifo!Init
    OBVIOUS
  <2>1. Contents = << >> /\ Visible(scratch) = << >>
    BY DEF Init, Contents, Visible, EmptyFrame
  <2>2. QED
    BY <2>1 DEF Init, Fifo!Init
<1>2. TypeOK /\ TypeOK' /\ IInv /\ [Next]_vars => [Fifo!Next]_(Fifo!fifoVars)
  <2> SUFFICES ASSUME TypeOK, TypeOK', IInv, [Next]_vars
               PROVE  Fifo!Next \/ UNCHANGED Fifo!fifoVars
    OBVIOUS
  <2>0. RingConsistent /\ Len(Contents) = count /\ count \in 0 .. FrameQueueSize
    BY ContentsType DEF IInv, TypeOK
  <2>1. ASSUME NEW payload \in Payloads, QueueFrame(payload)
        PROVE  Fifo!Next
    <3> DEFINE len == Truncated(Len(payload))
               item == Visible(Overwritten(EmptyFrame, payload, len))
    <3>1. len \in 0 .. MaxFrame
      BY QueueConstants DEF Truncated
    <3>2. frames'[head] = Overwritten(frames[head], payload, len)
      BY <2>1 DEF QueueFrame, TypeOK
    <3>3. Visible(frames'[head]) = item
      BY <3>1, <3>2, VisibleOverwritten, EmptyFrameType DEF TypeOK
    <3>4. Contents' = Append(Contents, item)
      BY <2>0, <2>1, <3>3, StoringAppends
    <3>5. Len(Contents) < FrameQueueSize /\ scratch' = scratch /\ overflow' = overflow
      BY <2>0, <2>1 DEF QueueFrame
    <3>6. item \in {Visible(Overwritten(EmptyFrame, p, Truncated(Len(p)))) : p \in Payloads}
      OBVIOUS
    <3> HIDE DEF item
    <3>7. Fifo!Put(item)
      BY <3>4, <3>5 DEF Fifo!Put, Visible
    <3>8. QED
      BY <3>6, <3>7 DEF Fifo!Next
  <2>2. CASE RefuseFrame
    <3>1. Len(Contents) = FrameQueueSize
      BY <2>0, <2>2, QueueConstants DEF RefuseFrame
    <3>2. Contents' = Contents /\ Visible(scratch)' = Visible(scratch)
      BY <2>2 DEF RefuseFrame, Contents, Visible, SlotAt
    <3>3. QED
      BY <2>2, <3>1, <3>2 DEF RefuseFrame, Fifo!Refuse, Fifo!Next
  <2>3. CASE DequeueFrame
    <3>1. ReleaseOldest /\ frames' = frames /\ overflow' = overflow
      BY <2>3 DEF DequeueFrame
    <3>2. /\ Contents # << >>
          /\ Contents' = Tail(Contents)
          /\ Head(Contents) = Visible(frames[tail])
      BY <2>0, <3>1, ReleasingTakesHead
    <3>3. Visible(scratch)' = Visible(frames[tail])
      <4>1. frames[tail] \in Frame /\ scratch \in Frame
        BY DEF TypeOK
      <4>2. Visible(scratch)' = Visible(Overwritten(scratch, frames[tail].data, frames[tail].len))
        BY <2>3 DEF DequeueFrame, Visible
      <4>3. QED
        BY <4>1, <4>2, VisibleCopy
    <3>4. QED
      BY <3>1, <3>2, <3>3 DEF Fifo!Take, Fifo!Next
  <2>4. CASE PopFrame
    <3>1. ReleaseOldest /\ frames' = frames /\ overflow' = overflow /\ scratch' = scratch
      BY <2>4 DEF PopFrame
    <3>2. Contents # << >> /\ Contents' = Tail(Contents)
      BY <2>0, <3>1, ReleasingTakesHead
    <3>3. QED
      BY <3>1, <3>2 DEF Fifo!Discard, Fifo!Next, Visible
  <2>5. CASE PeekFrame \/ AcceptFrame
    BY <2>5 DEF PeekFrame, AcceptFrame, Fifo!fifoVars, Contents, Visible, SlotAt
  <2>6. CASE ClearQueue
    <3>1. Contents' = << >>
      BY <2>6 DEF ClearQueue, Contents
    <3>2. QED
      BY <2>6, <3>1 DEF ClearQueue, Fifo!Clear, Fifo!Next, Visible
  <2>7. CASE UNCHANGED vars
    BY <2>7 DEF vars, Fifo!fifoVars, Contents, Visible, SlotAt
  <2>8. QED
    BY <2>1, <2>2, <2>3, <2>4, <2>5, <2>6, <2>7 DEF Next
<1>3. QED
  BY <1>1, <1>2, TypeCorrect, RingSafety, PTL DEF Spec, IInv, ImplementsFifo, Fifo!Spec
=============================================================================
