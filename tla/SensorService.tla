---------------------------- MODULE SensorService ---------------------------
(***************************************************************************)
(* Services/Src/SensorService.cpp under the clock of the main loop.        *)
(*                                                                         *)
(* The loop reads the tick counter once, at its top (Application::run),    *)
(* serves Modbus and saves the configuration, and only then calls process  *)
(* with the tick it read: nowMs is what the service compares and stores,   *)
(* tick is the real time.  Both are counters of TickModulus values that    *)
(* wrap, and the comparisons are those of the code on wrapped values.      *)
(***************************************************************************)
EXTENDS ErrorOps

CONSTANTS
    TickModulus,        \* 2^32
    MeasureDelay,       \* MeasureDelayMs: 20
    MeasurePeriod,      \* MeasurePeriodMs: 1000
    BusErrorRetry,      \* 50
    Retry,              \* 100
    MaxStall,           \* bound: ticks from the top of the loop to process
    MaxLoop,            \* bound: ticks from process to the next loop
    Temperatures,       \* filtered temperatures, in tenths of a degree
    Uint16Modulus,      \* 2^16
    TempHigh, TempLow   \* REG_TEMP_HIGH_ALARM, REG_TEMP_LOW_ALARM

Delays == {MeasureDelay, MeasurePeriod, BusErrorRetry, Retry}

(* No delay, with all a loop can add to it, reaches half the range of the  *)
(* counter; the signed comparison of handleTriggerState relies on it.      *)
ASSUME ClockConstants ==
    /\ Delays \subseteq Nat \ {0}
    /\ TickModulus \in Nat /\ TickModulus % 2 = 0
    /\ MaxStall \in Nat /\ MaxLoop \in Nat \ {0}
    /\ \A d \in Delays : 2 * (d + 2 * (MaxStall + MaxLoop)) < TickModulus

ASSUME TemperatureConstants ==
    /\ Temperatures \subseteq Int
    /\ Uint16Modulus \in Nat \ {0}
    /\ {TempHigh, TempLow} \subseteq 0 .. Uint16Modulus - 1

VARIABLES
    tick,               \* the SysTick counter
    nowMs,              \* the tick read at the top of the loop
    pc,                 \* "top" of the loop, or in the "loop" before process
    idle,               \* ticks since pc last changed
    state,              \* state_
    nextTrigger,        \* nextTriggerTimeMs_
    measurementStart,   \* measurementStartMs_
    inputRegs,          \* REG_TEMP_VALUE, REG_SENSOR_STATUS, REG_ALARM_FLAGS
    err,                \* the error manager
    sinceTrigger,       \* history: ticks since the sensor was triggered
    owed                \* history: ticks the sensor is still to be left alone

service == <<state, nextTrigger, measurementStart, inputRegs, err>>
history == <<sinceTrigger, owed>>
vars == <<tick, nowMs, pc, idle, service, history>>

Ticks == 0 .. TickModulus - 1
Plus(t, d) == (t + d) % TickModulus
Minus(t, u) == (t - u) % TickModulus

(* Variant: the unsigned comparison, which the wrap breaks.                *)
BeforeUnsigned(t, u) == t < u

(* static_cast<int32_t>(t - u) < 0                                         *)
Before(t, u) == 2 * Minus(t, u) >= TickModulus

Init == /\ tick = 0
        /\ nowMs = 0
        /\ pc = "top"
        /\ idle = 0
        /\ state = "Trigger"
        /\ nextTrigger = 0
        /\ measurementStart = 0
        /\ inputRegs = [temp |-> 0, status |-> 0, alarms |-> {}]
        /\ err = ErrorInit
        /\ sinceTrigger = MeasureDelay
        /\ owed = 0

-----------------------------------------------------------------------------
Tick == /\ idle < IF pc = "top" THEN MaxLoop ELSE MaxStall
        /\ tick' = Plus(tick, 1)
        /\ idle' = idle + 1
        /\ sinceTrigger' = IF sinceTrigger < MeasureDelay THEN sinceTrigger + 1 ELSE sinceTrigger
        /\ owed' = IF owed > 0 THEN owed - 1 ELSE owed
        /\ UNCHANGED <<nowMs, pc, service>>

(* const uint32_t nowMs = GetTick()                                        *)
Capture == /\ pc = "top"
           /\ pc' = "loop"
           /\ nowMs' = tick
           /\ idle' = 0
           /\ UNCHANGED <<tick, service, history>>

(* The call of process and the rest of the loop.                           *)
Call(st) == /\ pc = "loop"
            /\ state = st
            /\ pc' = "top"
            /\ idle' = 0
            /\ UNCHANGED <<tick, nowMs>>

(* Variant: state_ is not set.                                             *)
ScheduleKeepsState(delay) == /\ state' = state
                             /\ nextTrigger' = Plus(nowMs, delay)
                             /\ owed' = delay

(* An outcome: the next trigger is due after delay.                        *)
ScheduleTrigger(delay) == /\ state' = "Trigger"
                          /\ nextTrigger' = Plus(nowMs, delay)
                          /\ owed' = delay

TriggerDue == ~Before(nowMs, nextTrigger)

TriggerNotDue == /\ Call("Trigger")
                 /\ ~TriggerDue
                 /\ UNCHANGED <<service, history>>

(* Variant: the start of the measurement is not stored.                    *)
TriggerKeepsStart == /\ Call("Trigger")
                     /\ TriggerDue
                     /\ err' = AfterI2cSuccess(err)
                     /\ state' = "Read"
                     /\ sinceTrigger' = 0
                     /\ UNCHANGED <<nextTrigger, measurementStart, inputRegs, owed>>

TriggerSent == /\ Call("Trigger")
               /\ TriggerDue
               /\ err' = AfterI2cSuccess(err)
               /\ measurementStart' = nowMs
               /\ state' = "Read"
               /\ sinceTrigger' = 0
               /\ UNCHANGED <<nextTrigger, inputRegs, owed>>

TriggerFailed(status) ==
    /\ Call("Trigger")
    /\ TriggerDue
    /\ err' = AfterI2cError(err, status)
    /\ ScheduleTrigger(IF status = "BusError" THEN BusErrorRetry ELSE Retry)
    /\ UNCHANGED <<measurementStart, inputRegs, sinceTrigger>>

ReadDue == Minus(nowMs, measurementStart) >= MeasureDelay

ReadNotDue == /\ Call("Read")
              /\ ~ReadDue
              /\ UNCHANGED <<service, history>>

ReadFailed(status) ==
    /\ Call("Read")
    /\ ReadDue
    /\ err' = AfterSensorReadFailure(AfterI2cError(err, status))
    /\ ScheduleTrigger(Retry)
    /\ UNCHANGED <<measurementStart, inputRegs, sinceTrigger>>

(* A transfer that succeeds but delivers 0x0000 or 0xFFFF.                 *)
ReadImplausible ==
    /\ Call("Read")
    /\ ReadDue
    /\ err' = AfterSensorReadFailure(AfterI2cSuccess(err))
    /\ ScheduleTrigger(Retry)
    /\ UNCHANGED <<measurementStart, inputRegs, sinceTrigger>>

(* Variant: the temperature is published as it is.                         *)
PublishedUncast(temperature) == [temp |-> temperature, status |-> 0, alarms |-> {}]

(* updateModbus: the signed temperature is cast to uint16_t and compared   *)
(* with the unsigned thresholds.                                           *)
Published(temperature) ==
    LET temp   == temperature % Uint16Modulus
        alarms == (IF temp > TempHigh THEN {"high"} ELSE {})
                    \cup (IF temp < TempLow THEN {"low"} ELSE {})
    IN  [temp |-> temp, status |-> IF alarms = {} THEN 0 ELSE 1, alarms |-> alarms]

(* temperature is what the median filter makes of the new reading.         *)
ReadGood(temperature) ==
    /\ Call("Read")
    /\ ReadDue
    /\ err' = AfterSensorReadSuccess(AfterI2cSuccess(err))
    /\ inputRegs' = Published(temperature)
    /\ ScheduleTrigger(MeasurePeriod)
    /\ UNCHANGED <<measurementStart, sinceTrigger>>

Trigger == TriggerSent \/ \E status \in I2cErrorStatus : TriggerFailed(status)

Read == \/ \E status \in I2cErrorStatus : ReadFailed(status)
        \/ ReadImplausible
        \/ \E temperature \in Temperatures : ReadGood(temperature)

Loop == Capture \/ TriggerNotDue \/ Trigger \/ ReadNotDue \/ Read

Next == Tick \/ Loop

Spec == Init /\ [][Next]_vars

(* SysTick keeps counting, and the loop keeps going round.                 *)
FairSpec == Spec /\ WF_vars(Tick) /\ WF_vars(Loop)

-----------------------------------------------------------------------------
(* Counters within their width, state_ within its enumeration.             *)
TypeOK ==
    /\ {tick, nowMs, nextTrigger, measurementStart} \subseteq Ticks
    /\ pc \in {"top", "loop"}
    /\ idle \in 0 .. (MaxLoop + MaxStall)
    /\ state \in {"Trigger", "Read"}
    /\ inputRegs \in [temp : 0 .. Uint16Modulus - 1, status : {0, 1},
                      alarms : SUBSET {"high", "low"}]
    /\ err \in ErrorState
    /\ sinceTrigger \in 0 .. MeasureDelay
    /\ \E d \in Delays : owed \in 0 .. d

(* The sensor is left alone between an outcome and the next trigger for    *)
(* the time the service scheduled, before, across and after the wrap of    *)
(* the tick counter; only the time the loop stalled before process may be  *)
(* missing, for the schedule counts from the top of the loop.              *)
TriggersArePaced == [][Trigger => owed <= MaxStall]_vars

(* A measurement is not read before it had its time, up to the same stall. *)
ReadsArePaced == [][Read => sinceTrigger + MaxStall >= MeasureDelay]_vars

(* No pattern of failures and no wrap of the counter silences the service: *)
(* it triggers the sensor again and again.                                 *)
KeepsTriggering == []<><<Trigger>>_vars

(* test_sensor_service_timing.cpp, TC-SENSOR-SVC-002: "Real SensorService  *)
(* does not read before required measurement delay."  Refuted: the delay   *)
(* runs from nowMs, which the loop read before it stalled, not from the    *)
(* trigger.                                                                *)
ReadsAfterDelay == [][Read => sinceTrigger >= MeasureDelay]_vars
=============================================================================
