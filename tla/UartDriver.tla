------------------------------ MODULE UartDriver ----------------------------
(***************************************************************************)
(* How frames get from the RS485 line to ModbusService and responses back: *)
(* Legacy/Src/uart.cpp, and the timer of Drivers/Src/DelayTimer.cpp.       *)
(*                                                                         *)
(* DMA writes every byte into a ring.  Three parties declare the end of a  *)
(* frame: the IDLE interrupt, which marks where it ends and starts the     *)
(* silence timer; SysTick, when that timer runs out; and the poll of the   *)
(* main loop, which times the silence itself.  The loop fetches what lies  *)
(* between its tail and the mark.  A response is sent by DMA with the      *)
(* driver of the line switched on, and two interrupts switch it off.       *)
(*                                                                         *)
(* Time advances by slots: one character, about one millisecond at 9600    *)
(* baud.  An interrupt is served in the slot that raises it, except while  *)
(* the CPU is stalled: flash cannot be read while a sector is erased, so   *)
(* no instruction runs, no tick is counted, and DMA goes on.               *)
(***************************************************************************)
EXTENDS Integers, Sequences

CONSTANTS
    RxSize,         \* UART_RX_BUF_SIZE: 256
    PollSilence,    \* ms of silence that end a frame for the poll: 3
    T35Steps,       \* modbus_t35_steps as slots: 80 ticks of 100 us, 8 slots
    MinGap,         \* external: slots between two frames, 3.5 rounded up
    FrameLens,      \* external: bytes of a frame on the line
    ResponseLen,    \* bytes of a response
    MaxRound        \* bound: slots between two polls of the loop

ASSUME UartConstants ==
    /\ {RxSize, PollSilence, T35Steps, MinGap, MaxRound} \subseteq Nat \ {0}
    /\ FrameLens \subseteq 2 .. RxSize - 1
    /\ ResponseLen \in Nat /\ ResponseLen >= 2
    /\ PollSilence >= 2

VARIABLES
    lastByte,       \* external: <<length, position>> of the last byte sent
    gap,            \* external: slots of silence since, up to MinGap
    ring,           \* rxRing.buf
    head,           \* dmaHead()
    tail,           \* rxRing.tail
    rtuLastHead,    \* None stands for rtuState = RtuIdle, which sets it anew
    usart,          \* what the interrupts share with the loop, see UsartInit
    stalled,        \* the CPU waits for flash
    round,          \* slots since the last step of the loop
    pc,             \* where ModbusService::process is
    got,            \* what was fetched: "nothing", a whole "frame", or "pieces"
    alone           \* history: the last frame came to a driver at rest and
                    \* nothing else was on the line since

line == <<lastByte, gap>>
reception == <<ring, head>>
poll == <<tail, rtuLastHead>>
vars == <<line, reception, poll, usart, stalled, round, pc, got, alone>>

Slots == 0 .. RxSize - 1
None == RxSize
Byte == {byte \in FrameLens \X (1 .. RxSize) : byte[2] <= byte[1]}
Blank == <<0, 0>>
Forward(a, b) == (b - a) % RxSize

(* frameHead is rtuFrameHead, ready rtu_frame_ready, running               *)
(* modbus_timer_running, counter modbus_counter, wait what is left until   *)
(* rtuDeadline; busy is uart_tx_busy, de the pin PA8, left the bytes the   *)
(* line still waits for; receiving, idle, tc, tcie and tcif7 are bits of   *)
(* the peripherals.                                                        *)
Usart == [frameHead : Slots, ready : BOOLEAN, running : BOOLEAN,
          counter : 0 .. T35Steps - 1, wait : 0 .. PollSilence, busy : BOOLEAN,
          de : BOOLEAN, left : 0 .. ResponseLen, receiving : BOOLEAN, idle : BOOLEAN,
          tc : BOOLEAN, tcie : BOOLEAN, tcif7 : BOOLEAN]

UsartInit == [frameHead |-> 0, ready |-> FALSE, running |-> FALSE,
              counter |-> 0, wait |-> 0, busy |-> FALSE, de |-> FALSE,
              left |-> 0, receiving |-> FALSE, idle |-> FALSE,
              tc |-> TRUE, tcie |-> FALSE, tcif7 |-> FALSE]

Init == /\ lastByte = Blank
        /\ gap = MinGap
        /\ ring = [s \in Slots |-> Blank]
        /\ head = 0
        /\ tail = 0
        /\ rtuLastHead = None
        /\ usart = UsartInit
        /\ stalled = FALSE
        /\ round = 0
        /\ pc = "loop"
        /\ got = "nothing"
        /\ alone = FALSE

-----------------------------------------------------------------------------
(* Interrupts.                                                             *)

IdleServed(u, h) ==
    IF u.idle THEN [u EXCEPT !.idle = FALSE, !.frameHead = h, !.running = TRUE]
              ELSE u

(* Variant: DMA is done, and the line is released although the last byte   *)
(* has not left.                                                           *)
DmaReleases(u) ==
    IF u.tcif7 THEN [u EXCEPT !.tcif7 = FALSE, !.de = FALSE, !.busy = FALSE] ELSE u

(* Variant: the interrupt of the end of the transmission is not enabled.   *)
DmaForgetsTc(u) ==
    IF u.tcif7 THEN [u EXCEPT !.tcif7 = FALSE] ELSE u

DMA2_Stream7_IRQHandler(u) ==
    IF u.tcif7 THEN [u EXCEPT !.tcif7 = FALSE, !.tcie = TRUE] ELSE u

(* The TC branch asks for the flag, not for the interrupt enable.          *)
TcServed(u) ==
    IF u.tc THEN [u EXCEPT !.tcie = FALSE, !.de = FALSE, !.busy = FALSE] ELSE u

USART1_IRQHandler(u, h) ==
    IF u.idle \/ (u.tc /\ u.tcie) THEN TcServed(IdleServed(u, h)) ELSE u

(* In the order of their priorities; the enable the second sets may raise  *)
(* the first again.                                                        *)
InterruptsServed(u, h) ==
    USART1_IRQHandler(DMA2_Stream7_IRQHandler(USART1_IRQHandler(u, h)), h)

(* Variant: the counter is compared after the step it should stop at.      *)
SilenceCountedLate(u) ==
    IF ~u.running THEN u
    ELSE IF u.counter >= T35Steps
         THEN [u EXCEPT !.running = FALSE, !.counter = 0, !.ready = TRUE]
         ELSE [u EXCEPT !.counter = @ + 1]

SilenceCounted(u) ==
    IF ~u.running THEN u
    ELSE IF u.counter + 1 >= T35Steps
         THEN [u EXCEPT !.running = FALSE, !.counter = 0, !.ready = TRUE]
         ELSE [u EXCEPT !.counter = @ + 1]

SysTickServed(u) ==
    [SilenceCounted(u) EXCEPT !.wait = IF @ > 0 THEN @ - 1 ELSE 0]

(* External: one byte leaves.  DMA is complete when the last byte is in    *)
(* the data register, the transmission when it has left.                   *)
ByteLeft(u) ==
    IF u.left = 0 THEN u
    ELSE [u EXCEPT !.left = @ - 1,
                   !.tcif7 = @ \/ u.left = 2,
                   !.tc = @ \/ u.left = 1]

(* External: the flag is raised by the first silent slot after a byte.     *)
LineHeard(u, heard) ==
    [u EXCEPT !.idle = @ \/ (u.receiving /\ ~heard), !.receiving = heard]

AfterSlot(u, heard, h) ==
    LET v == LineHeard(ByteLeft(u), heard)
    IN  IF stalled THEN v ELSE SysTickServed(InterruptsServed(v, h))

-----------------------------------------------------------------------------
(* The line.                                                               *)

InLoop == pc \in {"loop", "served"}

TimePasses == IF stalled THEN UNCHANGED round
              ELSE /\ round < IF InLoop THEN MaxRound ELSE 1
                   /\ round' = round + 1

(* Nothing is left of what was received, and nothing is being sent.  The   *)
(* head the poll remembers is current: it is not after a stall in which    *)
(* the ring was lapped exactly, and then the poll may cut the next frame.  *)
AtRest == /\ InLoop
          /\ head = tail
          /\ usart.frameHead = tail
          /\ rtuLastHead \in {None, head}
          /\ ~usart.idle
          /\ ~usart.busy
          /\ ~usart.de
          /\ usart.left = 0

InFrame == lastByte[2] < lastByte[1]

Arrives(byte) ==
    /\ lastByte' = byte
    /\ gap' = 0
    /\ IF usart.de THEN UNCHANGED reception
                   ELSE /\ ring' = [ring EXCEPT ![head] = byte]
                        /\ head' = (head + 1) % RxSize
    /\ usart' = AfterSlot(usart, ~usart.de, head')
    /\ alone' = /\ ~usart.de
                /\ IF byte[2] = 1 THEN AtRest ELSE alone

FrameStarts == /\ TimePasses
               /\ ~InFrame
               /\ gap = MinGap
               /\ \E n \in FrameLens : Arrives(<<n, 1>>)
               /\ UNCHANGED <<poll, stalled, pc, got>>

FrameGoesOn == /\ TimePasses
               /\ InFrame
               /\ Arrives(<<lastByte[1], lastByte[2] + 1>>)
               /\ UNCHANGED <<poll, stalled, pc, got>>

(* A sender may pause for one character within a frame (1.5 are allowed).  *)
(* The interrupt it causes is harmless if the frame ends before the timer  *)
(* does, which goes on from where an earlier silence left it.              *)
Pause == /\ InFrame
         /\ gap = 0
         /\ gap' = 1
         /\ alone' = /\ alone
                     /\ ~stalled /\ ~usart.ready
                     /\ usart.counter + lastByte[1] - lastByte[2] + 1 < T35Steps

BetweenFrames == /\ ~InFrame
                 /\ gap' = IF gap < MinGap THEN gap + 1 ELSE gap
                 /\ UNCHANGED alone

Silence == /\ TimePasses
           /\ Pause \/ BetweenFrames
           /\ usart' = AfterSlot(usart, FALSE, head)
           /\ UNCHANGED <<lastByte, reception, poll, stalled, pc, got>>

(* run() saves the configuration right after it has served a frame that    *)
(* asked for it.                                                           *)
StallBegins == /\ pc = "served"
               /\ ~stalled
               /\ round = 0
               /\ stalled' = TRUE
               /\ UNCHANGED <<line, reception, poll, usart, round, pc, got, alone>>

StallEnds == /\ stalled
             /\ stalled' = FALSE
             /\ usart' = InterruptsServed(usart, head)
             /\ pc' = "loop"
             /\ UNCHANGED <<line, reception, poll, round, got, alone>>

-----------------------------------------------------------------------------
(* The loop.                                                               *)

LoopRuns == /\ ~stalled
            /\ round' = 0

(* Variant: the deadline counts from the first byte the poll has seen.     *)
PolledFromStart ==
    IF rtuLastHead = None
    THEN IF ~usart.ready /\ head # tail
         THEN <<head, [usart EXCEPT !.wait = PollSilence]>> ELSE <<rtuLastHead, usart>>
    ELSE IF usart.wait > 0 THEN <<rtuLastHead, usart>>
         ELSE <<None, [usart EXCEPT !.frameHead = head, !.ready = TRUE]>>

(* Variant: the poll leaves the announcement to the timer.                 *)
PolledSilently ==
    IF rtuLastHead = None
    THEN IF ~usart.ready /\ head # tail
         THEN <<head, [usart EXCEPT !.wait = PollSilence]>> ELSE <<rtuLastHead, usart>>
    ELSE IF head # rtuLastHead THEN <<head, [usart EXCEPT !.wait = PollSilence]>>
         ELSE IF usart.wait > 0 THEN <<rtuLastHead, usart>>
              ELSE <<None, usart>>

(* UART_RTU_Poll: the head it remembers and the shared record.           *)
Polled ==
    LET Waits == <<head, [usart EXCEPT !.wait = PollSilence]>>
        Unchanged == <<rtuLastHead, usart>>
    IN  IF rtuLastHead = None
        THEN IF ~usart.ready /\ head # tail THEN Waits ELSE Unchanged
        ELSE IF head # rtuLastHead THEN Waits
        ELSE IF usart.wait > 0 THEN Unchanged
        ELSE <<None, [usart EXCEPT !.frameHead = head, !.ready = TRUE]>>

Slice(from, n) == [i \in 1 .. n |-> ring[(from + i - 1) % RxSize]]

IsFrame(bytes) ==
    /\ bytes # <<>>
    /\ \A i \in 1 .. Len(bytes) : bytes[i] = <<Len(bytes), i>>

(* frameAvailable and, when it says so, UART_GetFrame.  Nothing tells      *)
(* apart bytes that were handed over already: they are Blank from then on. *)
PollAndFetch ==
    /\ InLoop
    /\ LoopRuns
    /\ rtuLastHead' = Polled[1]
    /\ usart' = Polled[2]
    /\ IF usart'.ready
       THEN LET n == Forward(tail, usart'.frameHead)
                bytes == Slice(tail, n)
            IN  /\ got' = IF n = 0 THEN "nothing"
                          ELSE IF IsFrame(bytes) THEN "frame" ELSE "pieces"
                /\ tail' = usart'.frameHead
                /\ ring' = [s \in Slots |-> IF Forward(tail, s) < n THEN Blank
                                           ELSE ring[s]]
                /\ pc' = "fetched"
       ELSE /\ pc' = "loop"
            /\ UNCHANGED <<got, tail, ring>>
    /\ UNCHANGED <<line, head, stalled, alone>>

(* The flag is cleared after the copy, whatever was announced meanwhile.   *)
UART_ClearFrameFlag ==
    /\ pc = "fetched"
    /\ LoopRuns
    /\ usart' = [usart EXCEPT !.ready = FALSE]
    /\ pc' = IF got = "nothing" THEN "loop" ELSE "serving"
    /\ UNCHANGED <<line, reception, poll, stalled, got, alone>>

(* No response: pieces fail the checksum, a frame may be for another.      *)
ServeSilently ==
    /\ pc = "serving"
    /\ LoopRuns
    /\ pc' = IF got = "frame" THEN "served" ELSE "loop"
    /\ got' = "nothing"
    /\ UNCHANGED <<line, reception, poll, usart, stalled, alone>>

SendRefused ==
    /\ pc = "serving"
    /\ got = "frame"
    /\ usart.busy
    /\ LoopRuns
    /\ pc' = "served"
    /\ got' = "nothing"
    /\ UNCHANGED <<line, reception, poll, usart, stalled, alone>>

(* UART_Send, between the points where an interrupt makes a difference.    *)
SendBegins ==
    /\ pc = "serving"
    /\ got = "frame"
    /\ ~usart.busy
    /\ LoopRuns
    /\ usart' = [usart EXCEPT !.busy = TRUE]
    /\ pc' = "copying"
    /\ UNCHANGED <<line, reception, poll, stalled, got, alone>>

DriverOn ==
    /\ pc = "copying"
    /\ LoopRuns
    /\ usart' = [usart EXCEPT !.de = TRUE]
    /\ pc' = "driving"
    /\ UNCHANGED <<line, reception, poll, stalled, got, alone>>

(* The flags of the stream are cleared, and the first byte clears TC.      *)
DmaStarts ==
    /\ pc = "driving"
    /\ LoopRuns
    /\ usart' = [usart EXCEPT !.left = ResponseLen, !.tcif7 = FALSE, !.tc = FALSE]
    /\ pc' = "served"
    /\ got' = "nothing"
    /\ UNCHANGED <<line, reception, poll, stalled, alone>>

Slot == FrameStarts \/ FrameGoesOn \/ Silence
Loop == \/ PollAndFetch \/ UART_ClearFrameFlag \/ ServeSilently
        \/ SendRefused \/ SendBegins \/ DriverOn \/ DmaStarts
Next == Slot \/ StallBegins \/ StallEnds \/ Loop

Spec == Init /\ [][Next]_vars
FairSpec == Spec /\ WF_vars(Slot) /\ WF_vars(StallEnds) /\ WF_vars(Loop)

-----------------------------------------------------------------------------
(* Positions within the ring, counters within their limits.                *)
TypeOK ==
    /\ lastByte \in Byte \union {Blank}
    /\ gap \in 0 .. MinGap
    /\ ring \in [Slots -> Byte \union {Blank}]
    /\ {head, tail} \subseteq Slots
    /\ rtuLastHead \in Slots \union {None}
    /\ usart \in Usart
    /\ stalled \in BOOLEAN
    /\ round \in 0 .. MaxRound
    /\ pc \in {"loop", "fetched", "serving", "copying", "driving", "served"}
    /\ got \in {"nothing", "frame", "pieces"}
    /\ alone \in BOOLEAN

(* Three parties declare the end of a frame, none under a lock, and        *)
(* announcements of an earlier silence arrive late.  Still, a frame that   *)
(* comes to a driver at rest and is followed by silence is never handed    *)
(* over in pieces or together with anything else, after any history of     *)
(* merged, cut and overwritten frames.                                     *)
AloneIsWhole == alone => got # "pieces"

(* The response to such a frame is not refused because the previous one is *)
(* still being sent, and the driver of the line stays on until its last    *)
(* byte has left: neither the TC flag of the previous transmission nor an  *)
(* IDLE interrupt, which serves that flag too, switches it off.            *)
AloneIsAnswered == alone => /\ pc = "serving" => ~usart.busy
                            /\ usart.left > 0 => usart.de /\ usart.busy

(* Between two responses the line is left to the others.  The only time it *)
(* is held without need is a stall: the interrupts that release it wait    *)
(* until flash is erased.                                                  *)
LineReleased == usart.de => \/ usart.left > 0 \/ stalled \/ pc = "driving"

(* Once the line is quiet everything received is handed over and the       *)
(* driver is at rest, even when an announcement was lost because it came   *)
(* between the copy of the frame before and the reset of the flag.         *)
Quiet == [](~InFrame /\ gap = MinGap)
Rested == head = tail /\ ~usart.de /\ ~usart.busy
Drains == <>Quiet => <>[]Rested
=============================================================================
