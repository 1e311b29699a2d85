------------------------ MODULE SensorServiceProofs -------------------------
(***************************************************************************)
(* The pacing of SensorService for every width of the tick counter, every  *)
(* choice of delays and every stall the assumptions allow.                 *)
(*                                                                         *)
(* The comparisons of the code are on a counter that wraps.  The invariant *)
(* says of each stored tick how far it lies from the real time, so that    *)
(* the wrap is dealt with once, in the two lemmas on Plus and Minus.       *)
(***************************************************************************)
EXTENDS SensorService, TLAPS

(* Sums and differences on the circle of ticks, without the modulus.       *)
LEMMA PlusOnCircle ==
    ASSUME NEW t \in Ticks, NEW d \in Nat, d <= TickModulus
    PROVE  /\ Plus(t, d) \in Ticks
           /\ Plus(t, d) = IF t + d < TickModulus THEN t + d ELSE t + d - TickModulus
BY ClockConstants DEF Plus, Ticks

(* The way from u to t around the circle, without the modulus.             *)
LEMMA MinusOnCircle ==
    ASSUME NEW t \in Ticks, NEW u \in Ticks
    PROVE  /\ Minus(t, u) \in Ticks
           /\ Minus(t, u) = IF t >= u THEN t - u ELSE t - u + TickModulus
BY ClockConstants DEF Minus, Ticks

(* The delays are numbers, and there is room for them on the circle.       *)
LEMMA DelaysFit ==
    /\ TickModulus \in Nat
    /\ MaxStall \in Nat
    /\ MaxLoop \in Nat
    /\ \A d \in Delays : d \in Nat /\ 2 * (d + 2 * (MaxStall + MaxLoop)) < TickModulus
    /\ MeasureDelay \in Delays /\ MeasurePeriod \in Delays
    /\ BusErrorRetry \in Delays /\ Retry \in Delays
BY ClockConstants DEF Delays

-----------------------------------------------------------------------------
(* A counter that is incremented is still a counter.                       *)
LEMMA IncrementedInCount ==
    ASSUME NEW count \in Count
    PROVE  Incremented(count) \in Count
BY ErrorConstants DEF Incremented, Count

(* No report of the service takes the error manager out of its type.       *)
LEMMA ReportsKeepType ==
    ASSUME NEW e \in ErrorState
    PROVE  /\ AfterI2cSuccess(e) \in ErrorState
           /\ \A status \in I2cErrorStatus : AfterI2cError(e, status) \in ErrorState
           /\ AfterSensorReadFailure(e) \in ErrorState
           /\ AfterSensorReadSuccess(e) \in ErrorState
<1>1. 0 \in Count
  BY ErrorConstants DEF Count
<1>2. ASSUME NEW f \in ErrorState
      PROVE  Processed(f) \in ErrorState
  <2>1. WantsRecovery(f) \in BOOLEAN /\ IsFatal(f) \in BOOLEAN
    BY DEF WantsRecovery, IsFatal
  <2>2. QED
    BY <2>1 DEF Processed, ErrorState
<1>3. AfterI2cSuccess(e) \in ErrorState /\ AfterSensorReadSuccess(e) \in ErrorState
  BY <1>1 DEF AfterI2cSuccess, AfterSensorReadSuccess, ErrorState
<1>4. ASSUME NEW status \in I2cErrorStatus
      PROVE  AfterI2cError(e, status) \in ErrorState
  <2>1. CountedI2cError(e, status) \in ErrorState
    BY IncrementedInCount DEF CountedI2cError, ErrorState
  <2>2. QED
    BY <1>2, <2>1 DEF AfterI2cError
<1>5. [e EXCEPT !.consecutiveSensorReadFail = Incremented(@)] \in ErrorState
  BY IncrementedInCount DEF ErrorState
<1>6. QED
  BY <1>2, <1>3, <1>4, <1>5 DEF AfterSensorReadFailure

(* What is published fits the registers.                                   *)
LEMMA PublishedType ==
    ASSUME NEW temperature \in Temperatures
    PROVE  Published(temperature) \in
             [temp : 0 .. Uint16Modulus - 1, status : {0, 1}, alarms : SUBSET {"high", "low"}]
<1>1. temperature % Uint16Modulus \in 0 .. Uint16Modulus - 1
  BY TemperatureConstants
<1>2. QED
  BY <1>1 DEF Published

(* Counters stay within their width and the state within its enumeration.  *)
THEOREM TypeCorrect == Spec => []TypeOK
<1>1. Init => TypeOK
  <2> SUFFICES ASSUME Init PROVE TypeOK
    OBVIOUS
  <2>1. err \in ErrorState
    BY ErrorConstants DEF Init, ErrorInit, ErrorState, Count
  <2>2. QED
    BY <2>1, DelaysFit, TemperatureConstants DEF Init, TypeOK, Ticks
<1>2. TypeOK /\ [Next]_vars => TypeOK'
  <2> SUFFICES ASSUME TypeOK, [Next]_vars
               PROVE  TypeOK'
    OBVIOUS
  <2> USE DEF TypeOK
  <2>1. /\ 0 \in Ticks
        /\ \A t \in Ticks, d \in Delays : Plus(t, d) \in Ticks
        /\ \A t \in Ticks : Plus(t, 1) \in Ticks
    BY DelaysFit, PlusOnCircle DEF Ticks
  <2>2. ASSUME NEW delay \in Delays, ScheduleTrigger(delay)
        PROVE  /\ state' \in {"Trigger", "Read"}
               /\ nextTrigger' \in Ticks
               /\ \E d \in Delays : owed' \in 0 .. d
    BY <2>1, <2>2, DelaysFit DEF ScheduleTrigger
  <2>3. ASSUME NEW st, Call(st)
        PROVE  tick' \in Ticks /\ nowMs' \in Ticks /\ pc' \in {"top", "loop"}
               /\ idle' \in 0 .. (MaxLoop + MaxStall)
    BY <2>3, DelaysFit DEF Call
  <2>4. CASE Tick
    <3>1. idle' \in 0 .. (MaxLoop + MaxStall)
      BY <2>4, DelaysFit DEF Tick
    <3>2. sinceTrigger' \in 0 .. MeasureDelay
      BY <2>4, DelaysFit DEF Tick
    <3>3. \E d \in Delays : owed' \in 0 .. d
      BY <2>4, DelaysFit DEF Tick
    <3>4. QED
      BY <2>1, <2>4, <3>1, <3>2, <3>3 DEF Tick, service
  <2>5. CASE Capture
    BY <2>5, DelaysFit DEF Capture, service, history
  <2>6. CASE TriggerNotDue
    BY <2>3, <2>6 DEF TriggerNotDue, service, history
  <2>7. CASE TriggerSent
    BY <2>3, <2>7, ReportsKeepType, DelaysFit DEF TriggerSent
  <2>8. ASSUME NEW status \in I2cErrorStatus, TriggerFailed(status)
        PROVE  TypeOK'
    <3>1. PICK delay \in Delays : ScheduleTrigger(delay)
      BY <2>8, DelaysFit DEF TriggerFailed
    <3>2. QED
      BY <2>2, <2>3, <2>8, <3>1, ReportsKeepType DEF TriggerFailed
  <2>9. CASE ReadNotDue
    BY <2>3, <2>9 DEF ReadNotDue, service, history
  <2>10. ASSUME NEW status \in I2cErrorStatus, ReadFailed(status)
         PROVE  TypeOK'
    BY <2>2, <2>3, <2>10, ReportsKeepType, DelaysFit DEF ReadFailed
  <2>11. CASE ReadImplausible
    BY <2>2, <2>3, <2>11, ReportsKeepType, DelaysFit DEF ReadImplausible
  <2>12. ASSUME NEW temperature \in Temperatures, ReadGood(temperature)
         PROVE  TypeOK'
    BY <2>2, <2>3, <2>12, ReportsKeepType, DelaysFit, PublishedType DEF ReadGood
  <2>13. CASE UNCHANGED vars
    BY <2>13 DEF vars, service, history
  <2>14. QED
    BY <2>4, <2>5, <2>6, <2>7, <2>8, <2>9, <2>10, <2>11, <2>12, <2>13
    DEF Next, Loop, Trigger, Read
<1>3. QED
  BY <1>1, <1>2, PTL DEF Spec

-----------------------------------------------------------------------------
(* nowMs lies idle ticks behind while the loop is before process.          *)
StallMeasured == /\ pc = "loop" => idle <= MaxStall /\ tick = Plus(nowMs, idle)
                 /\ pc = "top" => idle <= MaxLoop

(* The next trigger lies ahead by what is owed, up to a stall.             *)
OwedAhead == owed > MaxStall => \E e \in 0 .. MaxStall : nextTrigger = Plus(tick, owed - e)

(* The start of the measurement lies behind by the age of the trigger, up  *)
(* to a stall, and the loop has gone round since.                          *)
StartBehind ==
    state = "Read" /\ sinceTrigger < MeasureDelay =>
        /\ \E e \in 0 .. MaxStall : tick = Plus(measurementStart, sinceTrigger + e)
        /\ pc = "loop" => idle <= sinceTrigger

IInv == StallMeasured /\ OwedAhead /\ StartBehind

(* A schedule counts from nowMs: seen from now the stall is missing.       *)
LEMMA ScheduleAhead ==
    ASSUME TypeOK, StallMeasured, pc = "loop", NEW delay \in Delays,
           nextTrigger' = Plus(nowMs, delay), owed' = delay, tick' = tick
    PROVE  OwedAhead'
<1> SUFFICES ASSUME delay > MaxStall
             PROVE  nextTrigger' = Plus(tick', delay - idle) /\ idle \in 0 .. MaxStall
  BY DEF OwedAhead
<1>1. /\ idle \in 0 .. MaxStall
      /\ tick = Plus(nowMs, idle)
      /\ nowMs \in Ticks /\ tick \in Ticks
  BY DelaysFit DEF TypeOK, StallMeasured
<1>2. /\ delay \in Nat /\ delay <= TickModulus
      /\ idle \in Nat /\ idle <= TickModulus
      /\ delay - idle \in Nat /\ delay - idle <= TickModulus
  BY <1>1, DelaysFit
<1>3. /\ Plus(nowMs, idle) = IF nowMs + idle < TickModulus THEN nowMs + idle
                                                           ELSE nowMs + idle - TickModulus
      /\ Plus(nowMs, delay) = IF nowMs + delay < TickModulus THEN nowMs + delay
                                                             ELSE nowMs + delay - TickModulus
      /\ Plus(tick, delay - idle) = IF tick + (delay - idle) < TickModulus
                                    THEN tick + (delay - idle)
                                    ELSE tick + (delay - idle) - TickModulus
  BY <1>1, <1>2, PlusOnCircle
<1>4. QED
  BY <1>1, <1>2, <1>3, DelaysFit DEF Ticks

(* A tick can be taken from, or added to, either side of a sum.            *)
LEMMA PlusOneMore ==
    ASSUME NEW t \in Ticks, NEW n \in Nat, n < TickModulus
    PROVE  /\ Plus(Plus(t, 1), n) = Plus(t, n + 1)
           /\ Plus(Plus(t, n), 1) = Plus(t, n + 1)
<1>1. /\ Plus(t, 1) \in Ticks /\ Plus(t, n) \in Ticks
      /\ Plus(t, 1) = IF t + 1 < TickModulus THEN t + 1 ELSE t + 1 - TickModulus
      /\ Plus(t, n) = IF t + n < TickModulus THEN t + n ELSE t + n - TickModulus
      /\ Plus(t, n + 1) = IF t + (n + 1) < TickModulus THEN t + (n + 1)
                                                       ELSE t + (n + 1) - TickModulus
  BY PlusOnCircle, DelaysFit
<1>2. ASSUME NEW u \in Ticks, NEW d \in Nat, d <= TickModulus
      PROVE  Plus(u, d) = IF u + d < TickModulus THEN u + d ELSE u + d - TickModulus
  BY <1>2, PlusOnCircle
<1>3. 1 \in Nat /\ 1 <= TickModulus /\ n <= TickModulus
  BY DelaysFit
<1>4. Plus(Plus(t, 1), n) = IF Plus(t, 1) + n < TickModulus THEN Plus(t, 1) + n
                                                           ELSE Plus(t, 1) + n - TickModulus
  BY <1>1, <1>2, <1>3
<1>5. Plus(Plus(t, n), 1) = IF Plus(t, n) + 1 < TickModulus THEN Plus(t, n) + 1
                                                           ELSE Plus(t, n) + 1 - TickModulus
  BY <1>1, <1>2, <1>3
<1>6. QED
  BY <1>1, <1>4, <1>5, DelaysFit DEF Ticks

(* Before a tick counter was started everything is zero.                   *)
LEMMA InvInit == Init => IInv
<1> SUFFICES ASSUME Init PROVE IInv
  OBVIOUS
<1>1. StallMeasured /\ OwedAhead /\ StartBehind
  BY DelaysFit DEF Init, StallMeasured, OwedAhead, StartBehind
<1>2. QED
  BY <1>1 DEF IInv

(* Real time moves on, and all distances with it.                          *)
LEMMA InvTick == TypeOK /\ IInv /\ Tick => IInv'
<1> SUFFICES ASSUME TypeOK, IInv, Tick
             PROVE  IInv'
  OBVIOUS
<1>1. /\ tick \in Ticks /\ nowMs \in Ticks /\ nextTrigger \in Ticks
      /\ measurementStart \in Ticks
      /\ idle \in Nat /\ owed \in Nat /\ sinceTrigger \in Nat
      /\ \E d \in Delays : owed <= d
      /\ sinceTrigger <= MeasureDelay
      /\ tick' = Plus(tick, 1)
  BY DelaysFit DEF TypeOK, Tick
<1>2. StallMeasured'
  <2>1. CASE pc = "top"
    BY <1>1, <2>1, DelaysFit DEF Tick, StallMeasured
  <2>2. CASE pc = "loop"
    <3>1. idle < MaxStall /\ idle' = idle + 1 /\ nowMs' = nowMs /\ pc' = "loop"
      BY <2>2 DEF Tick
    <3>2. tick' = Plus(nowMs, idle + 1)
      BY <1>1, <2>2, <3>1, PlusOneMore, DelaysFit DEF IInv, StallMeasured
    <3>3. QED
      BY <1>1, <3>1, <3>2, DelaysFit DEF StallMeasured
  <2>3. QED
    BY <2>1, <2>2 DEF TypeOK
<1>3. OwedAhead'
  <2> SUFFICES ASSUME owed' > MaxStall
               PROVE  \E e \in 0 .. MaxStall : nextTrigger' = Plus(tick', owed' - e)
    BY DEF OwedAhead
  <2>1. owed > MaxStall /\ owed' = owed - 1 /\ nextTrigger' = nextTrigger
    BY <1>1, DelaysFit DEF Tick, service
  <2>2. PICK e \in 0 .. MaxStall : nextTrigger = Plus(tick, owed - e)
    BY <2>1 DEF IInv, OwedAhead
  <2>3. owed' - e \in Nat /\ owed' - e < TickModulus /\ (owed' - e) + 1 = owed - e
    BY <1>1, <2>1, DelaysFit
  <2>4. Plus(tick', owed' - e) = Plus(tick, (owed' - e) + 1)
    BY <1>1, <2>3, PlusOneMore
  <2>5. QED
    BY <2>1, <2>2, <2>3, <2>4
<1>4. StartBehind'
  <2> SUFFICES ASSUME state' = "Read", sinceTrigger' < MeasureDelay
               PROVE  /\ \E e \in 0 .. MaxStall :
                             tick' = Plus(measurementStart', sinceTrigger' + e)
                      /\ pc' = "loop" => idle' <= sinceTrigger'
    BY DEF StartBehind
  <2>1. /\ state = "Read" /\ sinceTrigger < MeasureDelay
        /\ sinceTrigger' = sinceTrigger + 1
        /\ measurementStart' = measurementStart
        /\ pc' = pc /\ idle' = idle + 1
    BY <1>1, DelaysFit DEF Tick, service
  <2>2. PICK e \in 0 .. MaxStall : tick = Plus(measurementStart, sinceTrigger + e)
    BY <2>1 DEF IInv, StartBehind
  <2>3. /\ sinceTrigger + e \in Nat /\ sinceTrigger + e < TickModulus
        /\ sinceTrigger' + e = (sinceTrigger + e) + 1
    BY <1>1, <2>1, DelaysFit
  <2>4. tick' = Plus(measurementStart, (sinceTrigger + e) + 1)
    BY <1>1, <2>2, <2>3, PlusOneMore
  <2>5. pc' = "loop" => idle' <= sinceTrigger'
    BY <1>1, <2>1 DEF IInv, StartBehind
  <2>6. QED
    BY <2>1, <2>3, <2>4, <2>5
<1>5. QED
  BY <1>2, <1>3, <1>4 DEF IInv

(* Every outcome is scheduled, which the invariant needs from it.          *)
LEMMA InvOutcome ==
    ASSUME TypeOK, IInv, NEW st, Call(st),
           NEW delay \in Delays, ScheduleTrigger(delay)
    PROVE  IInv'
<1>1. StallMeasured'
  BY DelaysFit DEF Call, StallMeasured
<1>2. OwedAhead'
  BY ScheduleAhead DEF IInv, Call, ScheduleTrigger
<1>3. StartBehind'
  BY DEF ScheduleTrigger, StartBehind
<1>4. QED
  BY <1>1, <1>2, <1>3 DEF IInv

(* Every step keeps the distances.                                         *)
LEMMA InvNext == TypeOK /\ IInv /\ [Next]_vars => IInv'
<1> SUFFICES ASSUME TypeOK, IInv, [Next]_vars
             PROVE  IInv'
  OBVIOUS
<1>1. CASE Tick
  BY <1>1, InvTick
<1>2. CASE Capture
  <2>1. Plus(tick, 0) = tick /\ sinceTrigger \in Nat
    BY DelaysFit, PlusOnCircle DEF TypeOK, Ticks
  <2>2. QED
    BY <1>2, <2>1, DelaysFit
    DEF Capture, service, history, IInv, StallMeasured, OwedAhead, StartBehind
<1>3. CASE TriggerNotDue \/ ReadNotDue
  BY <1>3, DelaysFit
  DEF TriggerNotDue, ReadNotDue, Call, service, history,
      IInv, StallMeasured, OwedAhead, StartBehind
<1>4. CASE TriggerSent
  <2>1. StallMeasured' /\ OwedAhead'
    BY <1>4, DelaysFit DEF TriggerSent, Call, IInv, StallMeasured, OwedAhead
  <2>2. /\ tick' = Plus(measurementStart', sinceTrigger' + idle)
        /\ idle \in 0 .. MaxStall
        /\ pc' = "top"
    BY <1>4, DelaysFit DEF TriggerSent, Call, TypeOK, IInv, StallMeasured
  <2>3. QED
    BY <2>1, <2>2 DEF IInv, StartBehind
<1>5. ASSUME NEW status \in I2cErrorStatus, TriggerFailed(status)
      PROVE  IInv'
  BY <1>5, InvOutcome, DelaysFit DEF TriggerFailed
<1>6. ASSUME NEW status \in I2cErrorStatus, ReadFailed(status)
      PROVE  IInv'
  BY <1>6, InvOutcome, DelaysFit DEF ReadFailed
<1>7. CASE ReadImplausible
  BY <1>7, InvOutcome, DelaysFit DEF ReadImplausible
<1>8. ASSUME NEW temperature \in Temperatures, ReadGood(temperature)
      PROVE  IInv'
  BY <1>8, InvOutcome, DelaysFit DEF ReadGood
<1>9. CASE UNCHANGED vars
  BY <1>9 DEF vars, service, history, IInv, StallMeasured, OwedAhead, StartBehind
<1>10. QED
  BY <1>1, <1>2, <1>3, <1>4, <1>5, <1>6, <1>7, <1>8, <1>9 DEF Next, Loop, Trigger, Read

(* The distances hold throughout.                                          *)
LEMMA InvHolds == Spec => []IInv
BY InvInit, InvNext, TypeCorrect, PTL DEF Spec

-----------------------------------------------------------------------------
(* The sensor is left alone for what it is owed, before, across and after  *)
(* the wrap of the counter; only a stall may be missing.                   *)
THEOREM TriggersKeepDistance == Spec => TriggersArePaced
<1>1. TypeOK /\ IInv /\ [Next]_vars => [Trigger => owed <= MaxStall]_vars
  <2> SUFFICES ASSUME TypeOK, IInv, Trigger
               PROVE  owed <= MaxStall
    OBVIOUS
  <2>0. owed \in Int /\ MaxStall \in Int
    BY DelaysFit DEF TypeOK
  <2> SUFFICES ASSUME owed > MaxStall
               PROVE  FALSE
    BY <2>0
  <2>1. pc = "loop" /\ ~Before(nowMs, nextTrigger)
    BY DEF Trigger, TriggerSent, TriggerFailed, Call, TriggerDue
  <2>2. PICK e \in 0 .. MaxStall : nextTrigger = Plus(tick, owed - e)
    BY DEF IInv, OwedAhead
  <2>3. /\ idle \in 0 .. MaxStall
        /\ tick = Plus(nowMs, idle)
        /\ tick \in Ticks /\ nowMs \in Ticks /\ nextTrigger \in Ticks
        /\ owed \in Nat /\ \E d \in Delays : owed <= d
    BY <2>1, DelaysFit DEF TypeOK, IInv, StallMeasured
  <2>4. /\ idle \in Nat /\ idle <= TickModulus
        /\ owed - e \in Nat /\ owed - e <= TickModulus
        /\ owed - e > 0 /\ 2 * (idle + (owed - e)) < TickModulus
    BY <2>3, DelaysFit
  <2>5. /\ tick = IF nowMs + idle < TickModulus THEN nowMs + idle
                                                ELSE nowMs + idle - TickModulus
        /\ nextTrigger = IF tick + (owed - e) < TickModulus THEN tick + (owed - e)
                                                ELSE tick + (owed - e) - TickModulus
        /\ Minus(nowMs, nextTrigger) = IF nowMs >= nextTrigger THEN nowMs - nextTrigger
                                                ELSE nowMs - nextTrigger + TickModulus
    BY <2>2, <2>3, <2>4, PlusOnCircle, MinusOnCircle
  <2>6. 2 * Minus(nowMs, nextTrigger) >= TickModulus
    BY <2>3, <2>4, <2>5, DelaysFit DEF Ticks
  <2>7. QED
    BY <2>1, <2>6 DEF Before
<1>2. QED
  BY <1>1, InvHolds, TypeCorrect, PTL DEF Spec, TriggersArePaced

(* A measurement has its time, up to a stall, before it is read.           *)
THEOREM ReadsKeepDistance == Spec => ReadsArePaced
<1>1. TypeOK /\ IInv /\ [Next]_vars => [Read => sinceTrigger + MaxStall >= MeasureDelay]_vars
  <2> SUFFICES ASSUME TypeOK, IInv, Read
               PROVE  sinceTrigger + MaxStall >= MeasureDelay
    OBVIOUS
  <2>0. sinceTrigger \in Nat /\ MaxStall \in Nat /\ MeasureDelay \in Nat
    BY DelaysFit DEF TypeOK
  <2> SUFFICES ASSUME sinceTrigger + MaxStall < MeasureDelay
               PROVE  FALSE
    BY <2>0
  <2>1. pc = "loop" /\ state = "Read" /\ Minus(nowMs, measurementStart) >= MeasureDelay
    BY DEF Read, ReadFailed, ReadImplausible, ReadGood, Call, ReadDue
  <2>2. sinceTrigger \in Nat /\ sinceTrigger < MeasureDelay
    BY DelaysFit DEF TypeOK
  <2>3. PICK e \in 0 .. MaxStall : tick = Plus(measurementStart, sinceTrigger + e)
    BY <2>1, <2>2 DEF IInv, StartBehind
  <2>4. /\ idle \in 0 .. MaxStall /\ idle <= sinceTrigger
        /\ tick = Plus(nowMs, idle)
        /\ tick \in Ticks /\ nowMs \in Ticks /\ measurementStart \in Ticks
    BY <2>1, <2>2, DelaysFit DEF TypeOK, IInv, StallMeasured, StartBehind
  <2>5. /\ idle \in Nat /\ idle <= TickModulus
        /\ sinceTrigger + e \in Nat /\ sinceTrigger + e < TickModulus
    BY <2>2, <2>4, DelaysFit
  <2>6. /\ tick = IF nowMs + idle < TickModulus THEN nowMs + idle
                                                ELSE nowMs + idle - TickModulus
        /\ tick = IF measurementStart + (sinceTrigger + e) < TickModulus
                  THEN measurementStart + (sinceTrigger + e)
                  ELSE measurementStart + (sinceTrigger + e) - TickModulus
        /\ Minus(nowMs, measurementStart) =
              IF nowMs >= measurementStart THEN nowMs - measurementStart
                                           ELSE nowMs - measurementStart + TickModulus
    <3>1. sinceTrigger + e <= TickModulus
      BY <2>5, DelaysFit
    <3>2. Plus(measurementStart, sinceTrigger + e) =
              IF measurementStart + (sinceTrigger + e) < TickModulus
              THEN measurementStart + (sinceTrigger + e)
              ELSE measurementStart + (sinceTrigger + e) - TickModulus
      BY <2>4, <2>5, <3>1, PlusOnCircle
    <3>3. Plus(nowMs, idle) = IF nowMs + idle < TickModulus THEN nowMs + idle
                                                ELSE nowMs + idle - TickModulus
      BY <2>4, <2>5, PlusOnCircle
    <3>4. QED
      BY <2>3, <2>4, <3>2, <3>3, MinusOnCircle
  <2>7. Minus(nowMs, measurementStart) = (sinceTrigger + e) - idle
    BY <2>2, <2>4, <2>5, <2>6, DelaysFit DEF Ticks
  <2>8. QED
    BY <2>1, <2>2, <2>4, <2>7, DelaysFit
<1>2. QED
  BY <1>1, InvHolds, TypeCorrect, PTL DEF Spec, ReadsArePaced
=============================================================================
