----------------------------- MODULE FrameQueue -----------------------------
(***************************************************************************)
(* The frame queue of ModbusService: a ring of FrameQueueSize slots with   *)
(* head, tail and count.  Each operation runs with interrupts disabled and *)
(* is one action; the overflow report it makes after enabling them is part *)
(* of it, as no interrupt handler touches the queue or the error manager.  *)
(*                                                                         *)
(* A slot keeps the bytes of earlier, longer frames beyond its length, and *)
(* so does the scratch frame that dequeueFrame fills: memcpy copies len    *)
(* bytes and no more.  The time stamp of a frame, which nothing reads, is  *)
(* left out.                                                               *)
(***************************************************************************)
EXTENDS ErrorOps, Sequences

CONSTANTS
    FrameQueueSize,     \* FRAME_QUEUE_SIZE: 10
    MaxFrame,           \* bytes of a slot: 256
    Bytes,              \* the values of a byte the model tells apart
    Zero,               \* the byte every buffer is filled with at start
    Payloads,           \* the frames a caller may queue, too long ones included
    OverflowModulus,    \* overflow_count is a uint32_t: 2^32
    NoFrame             \* the null pointer of peekFrame

ASSUME QueueConstants ==
    /\ FrameQueueSize \in Nat \ {0}
    /\ MaxFrame \in Nat \ {0}
    /\ Zero \in Bytes
    /\ Payloads \subseteq Seq(Bytes)
    /\ OverflowModulus \in Nat \ {0}
    /\ NoFrame \notin 0 .. FrameQueueSize - 1

VARIABLES
    frames,     \* frameQueue_.frames
    head,       \* the slot the next frame goes to
    tail,       \* the slot of the oldest frame
    count,      \* frames in the queue
    overflow,   \* frameQueue_.overflow_count
    scratch,    \* frameScratch_, the frame last dequeued
    peeked,     \* the slot a caller of peekFrame still looks at
    err         \* the error manager

vars == <<frames, head, tail, count, overflow, scratch, peeked, err>>

Slots == 0 .. FrameQueueSize - 1
Frame == [data : [1 .. MaxFrame -> Bytes], len : 0 .. MaxFrame]
EmptyFrame == [data |-> [i \in 1 .. MaxFrame |-> Zero], len |-> 0]

(* The bytes a reader of a frame is entitled to.                           *)
Visible(frame) == [i \in 1 .. frame.len |-> frame.data[i]]

Truncated(len) == IF len > MaxFrame THEN MaxFrame ELSE len

(* memcpy of the first len bytes over a frame, which keeps its other bytes *)
Overwritten(frame, bytes, len) ==
    [data |-> [i \in 1 .. MaxFrame |-> IF i <= len THEN bytes[i] ELSE frame.data[i]],
     len  |-> len]

(* Variant: wraps one slot late.                                           *)
AfterWrapsLate(slot) == IF slot + 1 > FrameQueueSize THEN 0 ELSE slot + 1

(* The index after slot, with the wrap of the code.                        *)
After(slot) == IF slot + 1 >= FrameQueueSize THEN 0 ELSE slot + 1

Init == /\ frames = [s \in Slots |-> EmptyFrame]
        /\ head = 0
        /\ tail = 0
        /\ count = 0
        /\ overflow = 0
        /\ scratch = EmptyFrame
        /\ peeked = NoFrame
        /\ err = ErrorInit

-----------------------------------------------------------------------------
(* Variant: the check for a full queue is missing.                         *)
QueueFrameUnchecked(payload) ==
    /\ frames' = [frames EXCEPT ![head] =
                     Overwritten(@, payload, Truncated(Len(payload)))]
    /\ head' = After(head)
    /\ count' = count + 1
    /\ UNCHANGED <<tail, overflow, scratch, peeked, err>>

QueueFrame(payload) ==
    /\ count < FrameQueueSize
    /\ frames' = [frames EXCEPT ![head] =
                     Overwritten(@, payload, Truncated(Len(payload)))]
    /\ head' = After(head)
    /\ count' = count + 1
    /\ UNCHANGED <<tail, overflow, scratch, peeked, err>>

RefuseFrame ==
    /\ count >= FrameQueueSize
    /\ overflow' = (overflow + 1) % OverflowModulus
    /\ err' = AfterUartOverflow(err)
    /\ UNCHANGED <<frames, head, tail, count, scratch, peeked>>

(* Advancing tail ends the life of the pointer peekFrame returned.         *)
ReleaseOldest ==
    /\ count > 0
    /\ tail' = After(tail)
    /\ count' = count - 1
    /\ peeked' = NoFrame

(* Variant: the frame is copied after tail has moved on.                   *)
DequeueAdvancesFirst ==
    /\ ReleaseOldest
    /\ scratch' = Overwritten(scratch, frames[tail'].data, frames[tail'].len)
    /\ UNCHANGED <<frames, head, overflow, err>>

DequeueFrame ==
    /\ ReleaseOldest
    /\ scratch' = Overwritten(scratch, frames[tail].data, frames[tail].len)
    /\ UNCHANGED <<frames, head, overflow, err>>

PopFrame == /\ ReleaseOldest
            /\ UNCHANGED <<frames, head, overflow, scratch, err>>

PeekFrame == /\ peeked' = IF count > 0 THEN tail ELSE NoFrame
             /\ UNCHANGED <<frames, head, tail, count, overflow, scratch, err>>

ClearQueue == /\ head' = 0
              /\ tail' = 0
              /\ count' = 0
              /\ overflow' = 0
              /\ peeked' = NoFrame
              /\ UNCHANGED <<frames, scratch, err>>

(* processFrame on a frame with a good checksum ends a run of overflows.   *)
AcceptFrame == /\ err' = AfterValidModbusFrame(err)
               /\ UNCHANGED <<frames, head, tail, count, overflow, scratch, peeked>>

Next == \/ \E payload \in Payloads : QueueFrame(payload)
        \/ RefuseFrame
        \/ DequeueFrame
        \/ PopFrame
        \/ PeekFrame
        \/ ClearQueue
        \/ AcceptFrame

Spec == Init /\ [][Next]_vars

-----------------------------------------------------------------------------
(* Indices within the ring, slots and counters within their types.         *)
TypeOK == /\ frames \in [Slots -> Frame]
          /\ head \in Slots
          /\ tail \in Slots
          /\ count \in 0 .. FrameQueueSize
          /\ overflow \in 0 .. OverflowModulus - 1
          /\ scratch \in Frame
          /\ peeked \in Slots \cup {NoFrame}
          /\ err \in ErrorState

(* The slot of the k-th frame behind the oldest.                           *)
SlotAt(k) == IF tail + k < FrameQueueSize THEN tail + k ELSE tail + k - FrameQueueSize

(* head, tail and count are three views of one queue, although they are    *)
(* updated one by one: the next frame goes right behind the newest one.    *)
RingConsistent == head = SlotAt(count)

(* A pointer obtained from peekFrame designates the oldest frame until the *)
(* frame is popped or the queue is cleared.                                *)
PeekedIsOldest == peeked # NoFrame => count > 0 /\ peeked = tail

(* While it does, no operation, and in particular no queueFrame that wraps *)
(* around the ring, writes to the bytes the caller is looking at.          *)
PeekedIsStable ==
    [][peeked # NoFrame /\ peeked' = peeked => frames'[peeked] = frames[peeked]]_vars

(* The queue of the code implements the bounded FIFO: nothing is lost,     *)
(* duplicated, reordered or mixed with the bytes of another frame, and     *)
(* every frame that does not fit is counted.                               *)
Contents == [k \in 1 .. count |-> Visible(frames[SlotAt(k - 1)])]

Fifo == INSTANCE BoundedFifo WITH
            Capacity    <- FrameQueueSize,
            Items       <- {Visible(Overwritten(EmptyFrame, p, Truncated(Len(p)))) : p \in Payloads},
            DropModulus <- OverflowModulus,
            queue       <- Contents,
            taken       <- Visible(scratch),
            dropped     <- overflow

ImplementsFifo == Fifo!Spec
=============================================================================
