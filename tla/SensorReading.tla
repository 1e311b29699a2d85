---------------------------- MODULE SensorReading ---------------------------
(***************************************************************************)
(* How a reading gets from the sensor into the registers of the master:    *)
(* the transfers of Legacy/Src/i2c.cpp, checksum and conversion of         *)
(* Drivers/Src/Sht3xSensor.cpp, the filter of Legacy/Src/filter.cpp, and   *)
(* the publication of SensorService and ModbusService.  When readings are  *)
(* taken is the subject of SensorService; here they are taken in turn.     *)
(*                                                                         *)
(* A transfer is a script of flags of the peripheral the code waits for,   *)
(* each for a bounded number of polls; the sensor may raise it, refuse     *)
(* (AF) or keep the code waiting.  A word of the sensor is a raw value and *)
(* whether its checksum holds.                                             *)
(***************************************************************************)
EXTENDS Integers, Sequences, FiniteSets, SequencesExt

CONSTANTS
    Size,               \* MedianFilter::Size: 18
    PollLimit,          \* I2C_TIMEOUT_VALUE: 300
    RawTemperatures,    \* external: words the sensor delivers
    RawHumidities,
    TempHigh, TempLow   \* REG_TEMP_HIGH_ALARM, REG_TEMP_LOW_ALARM

RawMax == 65535
Raw == 0 .. RawMax

ASSUME ReadingConstants ==
    /\ Size \in Nat \ {0}
    /\ PollLimit \in Nat
    /\ RawTemperatures \subseteq Raw /\ RawHumidities \subseteq Raw
    /\ TempHigh \in Raw /\ TempLow \in Raw

VARIABLES
    state,          \* state_: the transfer in progress or next, "Trigger" or "Read"
    step,           \* flag of the script the code waits for, 0 between transfers
    polls,          \* polls left
    i2c,            \* CR1: transfer open (START without STOP), ACK
    filters,        \* temperatureFilter_ and humidityFilter_
    temperatureX100,
    humidityX100,
    inputRegs,      \* input registers 0x0B, 0x06, 0x05 and 0x19
    window          \* history: the last Size readings that were sound

bus == <<state, step, polls, i2c>>
readings == <<filters, temperatureX100, humidityX100, inputRegs, window>>
vars == <<bus, readings>>

Script == [Trigger |-> <<"SB", "ADDR", "TXE", "TXE", "BTF">>,
           Read    |-> <<"SB", "ADDR", "RXNE", "RXNE", "RXNE", "BTF", "RXNE">>]
Flag == Script[state][step]
LastStep == step = Len(Script[state])

EmptyFilter == [samples |-> [s \in 0 .. Size - 1 |-> 0], index |-> 0, count |-> 0]

Init == /\ state = "Trigger"
        /\ step = 0
        /\ polls = 0
        /\ i2c = [open |-> FALSE, ack |-> TRUE]
        /\ filters = [temp |-> EmptyFilter, hum |-> EmptyFilter]
        /\ temperatureX100 = 0
        /\ humidityX100 = 0
        /\ inputRegs = [temp |-> 0, gas |-> 0, status |-> 0, alarms |-> {}]
        /\ window = <<>>

-----------------------------------------------------------------------------
(* Conversion and filter.                                                  *)

(* The division of the code rounds towards zero.                           *)
Quotient(a, b) == IF a >= 0 THEN a \div b ELSE -((-a) \div b)

TemperatureX100(raw) == Quotient(17500 * raw, RawMax) - 4500
HumidityX100(raw) == Quotient(10000 * raw, RawMax)
Clamped(humidity) == IF humidity < 0 THEN 0
                     ELSE IF humidity > 10000 THEN 10000 ELSE humidity

Initialized(f) == f.count >= Size

Seeded(v) == [samples |-> [s \in 0 .. Size - 1 |-> v], index |-> 0, count |-> Size]

(* Variant: the index wraps one sample too late.                           *)
StoredLate(f, v) == [samples |-> [f.samples EXCEPT ![f.index] = v],
                     index   |-> IF f.index >= Size THEN 0 ELSE f.index + 1,
                     count   |-> IF f.count < Size THEN f.count + 1 ELSE f.count]

Stored(f, v) == [samples |-> [f.samples EXCEPT ![f.index] = v],
                 index   |-> IF f.index + 1 >= Size THEN 0 ELSE f.index + 1,
                 count   |-> IF f.count < Size THEN f.count + 1 ELSE f.count]

(* One pass of the insertion sort: what is greater moves to the right,     *)
(* from the right, until something is not.                                 *)
Inserted(sorted, key) ==
    LET j == CHOOSE j \in 0 .. Len(sorted) :
                /\ j = 0 \/ sorted[j] <= key
                /\ \A k \in j + 1 .. Len(sorted) : sorted[k] > key
    IN  InsertAt(sorted, j + 1, key)

SortBuffer(f) ==
    LET sorted[n \in 0 .. f.count] ==
            IF n = 0 THEN <<>> ELSE Inserted(sorted[n - 1], f.samples[n - 1])
    IN  sorted[f.count]

Median(f) == SortBuffer(f)[(f.count \div 2) + 1]

-----------------------------------------------------------------------------
(* Transfers.                                                              *)

TransferBegins ==
    /\ step = 0
    /\ step' = 1
    /\ polls' = PollLimit
    /\ i2c' = [open |-> TRUE, ack |-> state = "Read" \/ i2c.ack]
    /\ UNCHANGED <<state, readings>>

(* The bus is busy: recoverBus resets the peripheral, and the transfer     *)
(* begins or is given up.                                                  *)
BusRecovered ==
    /\ step = 0
    /\ polls' = PollLimit
    /\ \/ /\ step' = 1
          /\ i2c' = [open |-> TRUE, ack |-> TRUE]
          /\ UNCHANGED state
       \/ /\ state' = "Trigger"
          /\ step' = 0
          /\ i2c' = [open |-> FALSE, ack |-> TRUE]
    /\ UNCHANGED readings

KeepsWaiting == /\ step > 0
                /\ polls > 0
                /\ polls' = polls - 1
                /\ UNCHANGED <<state, step, i2c, readings>>

(* Variant: a failed wait returns without a STOP.                          *)
GivesUpSilently == /\ step > 0
                   /\ polls = 0 \/ Flag # "RXNE"
                   /\ state' = "Trigger"
                   /\ step' = 0
                   /\ polls' = PollLimit
                   /\ UNCHANGED <<i2c, readings>>

(* waitSet, waitTxE, waitBtf and the wait for ADDR look for AF, waitRxNE   *)
(* does not.  Whatever the status, the service starts over with a trigger. *)
GivesUp == /\ step > 0
           /\ polls = 0 \/ Flag # "RXNE"
           /\ state' = "Trigger"
           /\ step' = 0
           /\ polls' = PollLimit
           /\ i2c' = [i2c EXCEPT !.open = FALSE,
                                 !.ack = @ \/ (state = "Read" /\ step > 2)]
           /\ UNCHANGED readings

(* Reading the third last byte turns ACK off and asks for STOP.            *)
FlagRaised ==
    /\ step > 0
    /\ ~LastStep
    /\ step' = step + 1
    /\ polls' = PollLimit
    /\ i2c' = IF Flag = "BTF" THEN [i2c EXCEPT !.open = FALSE, !.ack = FALSE] ELSE i2c
    /\ UNCHANGED <<state, readings>>

TransferEnds(next) ==
    /\ step > 0
    /\ LastStep
    /\ state' = next
    /\ step' = 0
    /\ polls' = PollLimit
    /\ i2c' = IF state = "Read" THEN [i2c EXCEPT !.ack = TRUE]
                                ELSE [i2c EXCEPT !.open = FALSE]

Triggered == /\ state = "Trigger"
             /\ TransferEnds("Read")
             /\ UNCHANGED readings

-----------------------------------------------------------------------------
(* What was read.                                                          *)

Implausible(t, h) == {t, h} \cap {0, RawMax} # {}

(* Variant: the checksum of the humidity is not looked at.                 *)
AcceptedHalf(t, h, tSound, hSound) == tSound /\ ~Implausible(t, h)

Accepted(t, h, tSound, hSound) == tSound /\ hSound /\ ~Implausible(t, h)

(* The cast to uint16_t, and comparisons that follow it.                   *)
AlarmFlags(register) == (IF register > TempHigh THEN {"high"} ELSE {})
                          \union (IF register < TempLow THEN {"low"} ELSE {})

Published(t, h) ==
    LET register == Quotient(t, 10) % (RawMax + 1)
        alarms == AlarmFlags(register)
    IN  [temp |-> register, gas |-> Quotient(h, 10) % (RawMax + 1),
         status |-> IF alarms = {} THEN 0 ELSE 1, alarms |-> alarms]

ReadGood(t, h) ==
    LET temp == TemperatureX100(t)
        hum  == Clamped(HumidityX100(h))
        fresh == ~Initialized(filters.temp) \/ ~Initialized(filters.hum)
    IN  /\ filters' = IF fresh THEN [temp |-> Seeded(temp), hum |-> Seeded(hum)]
                      ELSE [temp |-> Stored(filters.temp, temp),
                            hum  |-> Stored(filters.hum, hum)]
        /\ temperatureX100' = IF fresh THEN temp ELSE Median(filters'.temp)
        /\ humidityX100' = IF fresh THEN hum ELSE Median(filters'.hum)
        /\ inputRegs' = Published(temperatureX100', humidityX100')

(* The history: a sound reading enters the window, the first one fills it. *)
Seen(t, h) ==
    LET reading == <<TemperatureX100(t), HumidityX100(h)>>
    IN  window' = IF window = <<>> THEN [i \in 1 .. Size |-> reading]
                  ELSE Append(Tail(window), reading)

ReadEnds(t, h, tSound, hSound) ==
    /\ state = "Read"
    /\ TransferEnds("Trigger")
    /\ IF Accepted(t, h, tSound, hSound) THEN ReadGood(t, h)
       ELSE UNCHANGED <<filters, temperatureX100, humidityX100, inputRegs>>
    /\ IF tSound /\ hSound /\ t \in 1 .. RawMax - 1 /\ h \in 1 .. RawMax - 1
       THEN Seen(t, h) ELSE UNCHANGED window

(* The cast to int16_t.                                                    *)
Signed(register) == IF 2 * register > RawMax THEN register - RawMax - 1 ELSE register

(* Variant: the older sensorUpdate, which no code calls, instead.          *)
MasterReadsAnew ==
    LET tempVal == 250
    IN  /\ step = 0
        /\ inputRegs' = [inputRegs EXCEPT !.alarms = AlarmFlags(tempVal),
                                          !.status = IF tempVal > Signed(TempHigh) THEN 1 ELSE 0]
        /\ UNCHANGED <<bus, filters, temperatureX100, humidityX100, window>>

(* updateLiveInputs, when a master reads the input registers: the status   *)
(* is made anew from tempVal_, which no code sets.                         *)
MasterReads ==
    LET tempVal == 250
    IN  /\ step = 0
        /\ inputRegs' = [inputRegs EXCEPT !.status = IF tempVal > Signed(TempHigh) THEN 1 ELSE 0]
        /\ UNCHANGED <<bus, filters, temperatureX100, humidityX100, window>>

Next == \/ TransferBegins \/ BusRecovered \/ KeepsWaiting \/ GivesUp \/ FlagRaised
        \/ Triggered
        \/ \E t \in RawTemperatures, h \in RawHumidities, tSound, hSound \in BOOLEAN :
               ReadEnds(t, h, tSound, hSound)
        \/ MasterReads

Spec == Init /\ [][Next]_vars

-----------------------------------------------------------------------------
(* What sound words convert to: -45.00 to 129.99 degrees, 0.00 to 99.99    *)
(* percent.                                                                *)
Temperatures == TemperatureX100(1) .. TemperatureX100(RawMax - 1)
Humidities == HumidityX100(1) .. HumidityX100(RawMax - 1)

(* Indices within the script and the ring, values within the sensor's      *)
(* range and the width of the registers.                                   *)
TypeOK ==
    /\ state \in {"Trigger", "Read"}
    /\ step \in 0 .. Len(Script[state])
    /\ polls \in 0 .. PollLimit
    /\ i2c \in [open : BOOLEAN, ack : BOOLEAN]
    /\ \A f \in {filters.temp, filters.hum} : f.index \in 0 .. Size - 1 /\ f.count \in {0, Size}
    /\ temperatureX100 \in Temperatures
    /\ humidityX100 \in Humidities
    /\ {inputRegs.temp, inputRegs.gas} \subseteq Raw

(* However a transfer ended, on every early return too, the code has asked *)
(* for STOP, so that the sensor lets go of the line, and the next transfer *)
(* finds the peripheral acknowledging bytes.                               *)
BusLeftFree == step = 0 => ~i2c.open /\ i2c.ack

(* v is the upper median of w: at most half of the values are below it,    *)
(* and more than half are not above it.                                    *)
UpperMedian(v, w) ==
    /\ 2 * Cardinality({i \in 1 .. Len(w) : w[i] < v}) <= Len(w)
    /\ 2 * Cardinality({i \in 1 .. Len(w) : w[i] <= v}) > Len(w)

(* What is displayed and published is the median of the last Size sound    *)
(* readings, the first one counted for all that were missing.  A transfer  *)
(* that fails at whatever step, a word with a wrong checksum and an        *)
(* implausible word leave no trace in it.                                  *)
PublishesMedian ==
    window # <<>> =>
        /\ UpperMedian(temperatureX100, [i \in 1 .. Size |-> window[i][1]])
        /\ UpperMedian(humidityX100, [i \in 1 .. Size |-> window[i][2]])
        /\ inputRegs.gas = humidityX100 \div 10

(* The alarm flags tell the truth about the published temperature from     *)
(* zero upwards, and keep telling it when masters read in between, which   *)
(* changes the status.  Below zero the cast makes every temperature a high *)
(* alarm and none a low one.                                               *)
AlarmsMatchReading ==
    LET tenths == Quotient(temperatureX100, 10)
    IN  window # <<>> =>
            inputRegs.alarms = IF tenths >= 0 THEN AlarmFlags(tenths) ELSE {"high"}
=============================================================================
