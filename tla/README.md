# Verification project: industrial sensor firmware (STM32F410)

TLA+ models of the firmware in `src/`: TLC checks them on small instances,
TLAPS proves theorems about nine of them for every value of their constants.
`PROJECT.json` lists the components, the runs, the source lines each definition
stands for, the hazards the properties are aimed at, and one mutation per
property that makes TLC refute it.

## 1. The system

One bare-metal program without an RTOS. `Application::initialize` boots,
`Application::run` loops for ever; interrupts (SysTick, USART1, DMA) only move
bytes and count time. Each round of the loop, in this order:

    nowMs = GetTick()
    modbus_.process()                 at most one frame in, one frame served
    if a save flag is set: erase and program the configuration sector
    adc_.process()
    sensorService_.process(nowMs)     trigger or read the SHT3x over I2C
    errors_.process()                 counters -> recovery request, fatal latch
    if recovery requested: recover the bus, report it
    if no fatal fault: kick the watchdog

| component (source) | state | operations | talks to |
|---|---|---|---|
| Application (`App/`) | the services, save flags | boot, the loop | everything |
| ErrorManager (`Services/`) | thirteen 8-bit counters of failures and runs of failures, three flags | one report per kind of event, `process`, clear/mark, getters | called by sensor service, Modbus, loop |
| ModbusService: queue | ring of 10 frames, head, tail, count, overflow count, scratch frame | queue, dequeue, peek, pop, clear | UART driver, ErrorManager |
| ModbusService: server | 128 holding and 128 input registers, slave address | read/write requests, commands, `syncAll` | `DeviceConfig`, `Sensor`, save flags, UART |
| SensorService | trigger/read state, two deadlines, filters | `process(nowMs)` | SHT3x, ErrorManager, registers, display |
| ConfigManager | `DeviceConfig`, `Sensor` in RAM, the image under construction | load or defaults, save | FlashStorage |
| FlashStorage | one flash sector | erase, write (program and verify), read | flash controller |
| WatchdogService | the IWDG counter | start, kick | resets the device |
| UART driver (`Legacy/Src/uart.cpp`) | circular DMA buffer, framing state, transmit busy | interrupts, poll, fetch, send | Modbus, RS485 line |
| DelayTimer | tick counter, silence timer | SysTick, waits | UART driver, loop |
| I2C, SHT3x, ADC, display, PWM, SPI, clock | hardware registers | I/O | |
| MedianFilter | 18 samples | seed, apply | SensorService |

What is hard: power can be lost, and the watchdog can bite, between any two
steps, also in the middle of a flash operation that has erased the only copy of
the configuration; time is read once per round and used after operations that
take seconds; the tick counter and byte counters wrap; error counters are
raised and reset from several places and the decisions taken on them are
latched; commands arrive through registers that are at the same time live
settings; a refused command may have changed half of its targets.

What makes each component correct, in one line each:

- ErrorManager: the fatal latch has a cause, is set at the report that reaches
  the threshold and stays; a run of failures ends in a recovery request.
- queue: a bounded FIFO; a peeked frame is stable while it is in use.
- server: answers only what is addressed to it; a command runs once and only
  from a frame that carries it; registers, configuration and save flags agree.
- settings: what the next start would load is accepted (and the converse, which
  does not hold).
- SensorService: keeps its distances through stalls and wraps; never falls
  silent.
- UART driver: a frame that comes to a driver at rest arrives whole and can be
  answered; the line is released; what was received is handed over in the end.
- readings: what is published is the median of the sound readings, with the
  alarms that belong to it; a failed transfer leaves the bus free.
- ConfigManager and FlashStorage: acknowledged means stored and found again; no
  mixture of two images is accepted.
- the composition: restarts are transparent, saves and fatal faults end,
  requests are served in their round, the reset cause is reported.

## 2. Modules

| module | models | composed of |
|---|---|---|
| `ErrorOps` | what each report does to the steering state of ErrorManager, as operators on a record | |
| `ErrorManager` | ErrorManager on its own: one action per operation, any order | `ErrorOps` |
| `BoundedFifo` | abstract: a FIFO that refuses and counts what does not fit | |
| `FrameQueue` | the ring of ModbusService, its slots with the bytes left from earlier frames, peek pointers, overflow reports; implements `BoundedFifo` | `ErrorOps` |
| `ConfigCell` | abstract: one stored configuration or none; a save may lose it, and acknowledges only what is stored | |
| `ConfigStore` | ConfigManager on FlashStorage: sector, RAM, erase - program - verify, faults, loss of power; implements `ConfigCell` | |
| `SensorService` | the state machine under the clock of the loop, wrapping ticks | `ErrorOps` |
| `SensorSettings` | the validation of a sensor package, check by check | |
| `ModbusServer` | request processing, register file, commands, save flags | |
| `Application` | boot and loop with configuration, error manager, queue length, sensor state and watchdog; resets; implements `ConfigCell` | `ErrorOps` |
| `UartDriver` | reception into the DMA ring, the three parties that end a frame, fetch, transmission, the RS485 direction, stalls | |
| `SensorReading` | I2C transfers flag by flag, checksum, conversion, median filter, alarms and the registers they are published in | |
| `MC*` | instances for TLC | |
| `*Proofs` | theorems about `ErrorManager`, `FrameQueue`, `ConfigStore`, `SensorService`, `Application`, `ModbusServer`, `UartDriver`; `SensorProofs` about `SensorReading` and `SensorSettings` | |

State and actions carry the names of the code where they can: `frames`, `head`,
`tail`, `count` of `FrameQueue` are the fields of `frameQueue_`, the fields of
`err` those of ErrorManager, `nextTrigger` is `nextTriggerTimeMs_`. An action is
a whole function between two points where something else can happen: queue
operations disable interrupts and are one action each; a flash save is one
action per hardware operation, because power can be lost in it; a step of the
loop is one action per call `run()` makes. Variables marked *history* in the
modules are not in the code, no guard reads them, and each serves one property.

How the modules fit together: `UartDriver` hands over frames, one per fetch;
`Application` has the length of the queue `FrameQueue` models and lets each
frame carry a command or not; `ModbusServer` says what the command does;
`Application!SaveOk`, `SaveFailed` and the resets are what `ConfigStore` does in
many steps. `ConfigStore` and `Application` meet in `ConfigCell`: what
`ConfigCell` allows an unfinished save to leave is what `Unfinished` allows, and
both are shown to implement it. `Application` stores and acknowledges in one step
where `ConfigStore` takes many, so the cell lets a save be acknowledged in the
very step that stores it. `SensorService`
has the schedule and takes the outcome of a transfer as given; `SensorReading`
has the transfers and takes the schedule as given. `ErrorOps` is the one
definition of the error manager that all of its callers use.

Four abstractions deserve a word. A configuration is a value, its flash image
a function from word index to `<<configuration, index>>`: the checksum is
modelled by what it establishes, that all words belong to one image. In
`Application` the flash save is its outcome (`Unfinished` lists what `ConfigStore`
can leave behind), and the sensor service is its effect on the error manager.
In `UartDriver` time advances by slots of one character, about a millisecond at
9600 baud; interrupts are served at the end of the slot that raises them; a
byte is `<<length of its frame, position>>`, and a slot of the ring whose byte
was handed over is `Blank`, so that a frame delivered twice would show as
pieces. `rtuLastHead = None` stands for `RtuIdle`, the state in which the
variable is dead; half duplex is the rule that nothing is received while the
driver of the line is on. In `SensorSettings` the range checks outside the
identity and the alarms may fail or not; what matters is the code each leaves in
`ok`. Its specification is called `SettingsSpec` (and so on), because
`SensorProofs` extends it together with `SensorReading`, which shares no state
with it.

Integers keep their width where the code depends on it: the counters of the
error manager saturate, ticks wrap, `SensorReading!Published` casts a temperature
to `uint16_t`, and `Signed` is the cast of a threshold register to `int16_t`
when the input registers are made anew.

Definitions whose comment begins with *Variant* are not part of any
specification. Each is the definition that follows it with a plausible mistake
in it; `PROJECT.json` pairs it with the property that catches the mistake.

## 3. Runs

| run | question | bounds |
|---|---|---|
| `error_manager` | Does the latch have a cause, is it immediate and permanent, do failures request recovery? | thresholds of the code, at most 6 reported failures (a state constraint) |
| `error_recovery` | *refuted*: a successful recovery clears the request | same |
| `frame_queue` | Is the ring a FIFO, are peeked frames stable? | 3 slots of 2 bytes, payloads of 1, 2 and 3 bytes |
| `config_store` | Is acknowledged stored, and loaded at the next start? | 3 configurations (one not loadable), 3 words |
| `sensor_service` | Are triggers and reads paced, does it go on for ever? | delays 2 < 3 < 4 < 5, 20 ticks to the wrap, stalls of 1 |
| `sensor_delay` | *refuted*: no read before the measurement delay | same |
| `application` | Restarts, saves, faults and the watchdog together; is the sector still the cell `ConfigStore` implements? | 2 base and 2 sensor settings, one of each not loadable; thresholds 1 and 2; queue 2; watchdog 1 |
| `sensor_settings` | Is every loadable package accepted? | 5 types, 4 gases, 2 levels, every combination of failures |
| `settings_identity` | *refuted*: every accepted package is loadable | same |
| `uart` | Is a frame delivered whole, answered, the line released, everything handed over? | ring of 4, frames of 2 and 3 bytes, responses of 2, silences of 2 (poll), 4 (timer) and 3 (line) slots, at most 3 slots per round, stalls of any length |
| `readings` | Is the median of the sound readings published, with its alarms, and the bus left free? | window of 4, 5 temperatures, 3 humidities, 1 retry per flag |
| `modbus_server` | Addressing, commands, registers, save flags | 5 registers, 2 ids, 4 values, 11 spans |

Why the bounds are enough. The error manager compares counters with thresholds
of at most 5, and six failures reach each threshold and one more; saturation at
255 is out of TLC's reach there and is covered by the proof. Three slots wrap
head and tail in every alignment and have a slot between oldest and newest; a
payload is shorter than a slot, fills it, or is truncated. An image of three
words has a first, a middle and a last word to fail at. The scaled clock keeps
the order of the delays and wraps every few measurements with every phase of
the state machine. In `application` thresholds of 1 and 2 reach every fault
from every configuration, which the values of the code would only do in a far
larger graph. The ring of `uart` holds one long frame with room for the head,
so that frames wrap, touch and overwrite each other; the silence of the timer
is longer than that of the line and of the poll, as in the code, where it is
80 ticks of 100 us against 3 ms and 3.5 characters; a round of 3 slots and a
stall without limit let each of the three parties come first. The window of
`readings` is even, as the 18 of the code is, so that the upper of the two
middle values counts; its temperatures are one below the range of the
thresholds, one just below zero that rounds to zero, one between and one above
the thresholds, and the word the driver refuses. The register file has one register of each kind: ordinary, command,
argument, argument that is also a setting, setting beyond the arguments; the
spans contain a full command, commands that miss the first or last of these, a
bare command code (whose count of arguments wraps), neighbours of the command
register, and refused spans. `SettingsLen` is one bound for both commands (45
and 56 in the code).

`SensorSettings` is checked without deadlock detection: a behaviour is one call
and ends with its return.

### What the runs show

The properties that hold are stated, with the code they are about, above their
definitions. Those that took the composition to find out:

- `SevereNeverWraps`: the byte-wide sum of two byte-wide counters could wrap,
  but a request is served in the round in which it is raised, so the counters
  never exceed the threshold. This rests on `RequestServedInRound`, and on
  recovery never failing.
- `OnlyFlashIsFatal`: of the three fatal conditions only failed saves are
  reachable in the program. The queue takes and gives one frame per round (its
  overflow branch is reachable in `FrameQueue`, where the caller is free, and
  not here), and `recoverBus` never fails.
- `RestartIsTransparent` has two exceptions, and both are in the code: a command
  that is refused has already changed part of the configuration in RAM, and an
  accepted setting may be one that the next start refuses.
- `RegistersShowConfig` has one: the arguments of a refused command stay in the
  registers they were written to, thresholds among them.

- A frame that comes to a driver at rest is whole and answered
  (`AloneIsWhole`, `AloneIsAnswered`), but not every frame is. "At rest"
  (`AtRest`) includes that the head the poll remembers is the current one. It
  need not be: when the ring is lapped exactly while flash is erased, head and
  tail meet again although the poll last saw another head, and a poll that
  finds the next frame just there takes the old silence for the end of it. `modbus_counter`,
  which the timer compares, is not reset by the IDLE interrupt
  (`modbus_timer_counter`, which is, is compared with nothing), so a silence
  that a byte interrupts leaves its count to the next. Together with an
  announcement that is already pending this is how a sender that pauses within
  a frame can have it cut; `Pause` names the exact condition, and within it the
  frame is whole. With 8 ms of silence required by the timer it is normally the
  poll that ends a frame.
- `LineReleased` excepts a stall: the interrupts that switch the driver off are
  in flash, and while a sector is erased the line stays driven. The IDLE
  interrupt serves the TC flag as well and can switch off the driver between
  `rs485TransmitMode` and the start of DMA; for that it takes a byte on the line
  just before the response, which a master that waits for its answer does not
  send.
- `AlarmsMatchReading` says what the cast to `uint16_t` does below zero: the
  temperature is then always a high alarm and never a low one. The status
  register need not agree with the alarm flags, since every read of the input
  registers makes it anew from `tempVal_`, which stays at its initial value.

The refuted statements are quoted from the tests and documents in
`PROJECT.json`, "findings": a recovery that succeeds and leaves its request; a
read before the measurement delay when the loop stalled; identity checks of a
package masked by later, tolerated ones.

Two more differences between documents and code came up. A successful trigger
still clears the I2C counters (`TriggerSent`; `SensorService.cpp:75`), although
`docs/test_refactor_notes.md:54` says it no longer does, so failing reads between
good triggers never add up. And REQ-ERROR-003 (`docs/requirements.md:25`) wants
repeated communication failures to be fatal, while `OnlyFlashIsFatal` shows that
none can be: the recovery of the bus cannot fail.

### Fairness

Three specifications state fairness. `SensorService!FairSpec`: SysTick counts, and
the loop goes round (`run` is `while (true)`, every call in it returns). The
stall before `process` is bounded by `MaxStall`, which stands for a frame and a
flash save; while flash is erased the CPU may stall and lose ticks, which is
then a stall of the same kind as seen from the counter.
`Application!FairSpec`: the steps of the loop (`Step`) and the watchdog. The end
of a flash operation (`SaveOk`, `SaveFailed`) is *not* fair, because
`waitUntilReady` spins without a bound; it is the watchdog that ends a hang.
Neither frames, nor commands, nor losses of power are assumed to come or to
stay away. `Boot` is not fair either: the watchdog is not running yet.
`UartDriver!FairSpec`: time passes (`Slot`), a stall ends (an erase takes a
bounded time; where it does not is the subject of `Application`), and the loop
takes its next step (`Loop`). A poll may be delayed by up to `MaxRound` slots,
the longest round without a flash save.

## 4. Proofs

`tlapm` checks every theorem and lemma; nothing is assumed but the named
assumptions on constants, which TLC evaluates for each instance.

- `ErrorManagerProofs`: `TypeCorrect`; `LatchHasCause` (FatalHasCause);
  `ThresholdsLatch` (ThresholdLatches); `LatchStays` (FatalIsLatched);
  `FailureRequests` (RepeatedFailureRequestsRecovery). Inductive invariant: the
  two state properties with TypeOK and RunWithinTotal. They need each other: at
  the step that latches, FatalHasCause is RunWithinTotal applied to the run that
  reached its threshold. Saturation enters through `IncrementedMonotone`.
  Assumption: thresholds lie in 1 .. CounterMax.
- `FrameQueueProofs`: `TypeCorrect`; `RingSafety` (RingConsistent and
  PeekedIsOldest, inductive together; an intermediate result); `PeekStays`;
  `Refinement`, for every capacity and frame size. The refinement rests on two
  lemmas about the mapping: storing at head appends, releasing at tail takes
  the head, both from the distinctness of the slots between tail and head
  (`SlotAtFacts`).
- `ConfigStoreProofs`: `TypeCorrect`, `AcknowledgedStored`,
  `AcknowledgedLoaded`, `Refinement`, for every set of configurations and image
  size. AcknowledgedIsStored is not inductive: a durable configuration must be
  excluded while the sector changes (`DurableAtRest`), and during a write every
  word must be blank, unreadable or new (`OnlyNewWords`), so that no mixture
  passes for a third configuration. Assumption: blank and unreadable words are
  not words of an image; this is what the magic number and the checksum stand
  for, and no checksum excludes it with certainty.
- `SensorProofs`, about `SensorReading`: `ReadingTypeCorrect`, `BusIsLeftFree`,
  `MedianIsPublished`, `AlarmsMatch`, for every size of the filter, number of
  polls and words of the sensor. The data come first: one pass of the insertion
  sort extends a sorted copy by one sample (`InsertedSorts`), so the buffer is an
  ascending permutation of the samples (`SortBufferSorts`); the ring is the
  window turned around (`RingTurns`), and counting is blind to order
  (`SameCount`), so the middle of the buffer is the median of the window
  (`MedianHolds`). The inductive invariant then says that the filters hold the
  two columns of the window and that what is published is its median (`Filled`,
  or `Empty` before the first sound reading); and, of the bus, that ACK is off
  only from the third last byte of a read on, when STOP has been asked for
  (`BusInv`). `AlarmsMatch` has a hypothesis, `ThresholdsNotBelowZero`: the two
  thresholds come unchecked from the configuration, and one that is itself the
  cast of a negative number would compare differently; no other theorem needs
  it.
- `SensorProofs`, about `SensorSettings`: `SettingsTypeCorrect`,
  `LoadableAccepted`. The invariant adds that a hard code in `ok` was earned by
  an identity field (`HardCodeIsEarned`), the reading of "the code of the last
  failed check" that makes it inductive.
- `SensorServiceProofs`: `TypeCorrect`, `TriggersKeepDistance`,
  `ReadsKeepDistance`, for every width of the tick counter and every choice of
  delays with 2 * (delay + 2 * (stall + loop)) below the modulus
  (`ClockConstants`; the firmware has 2^32 against seconds). The code compares
  ticks on a circle; the invariant says how far each stored tick lies from the
  real time (`StallMeasured`, `OwedAhead`, `StartBehind`), so that two lemmas
  (`PlusOnCircle`, `MinusOnCircle`) deal with the wrap and the rest is linear.
- `ApplicationProofs`: `TypeCorrect`, `SevereStaysBounded`,
  `RequestsAreServed`, `FatalIsFlash`, `ResetsAreReported`,
  `RestartsAreTransparent`, `Refinement`. The first four are one induction: `ErrorsInOrder`
  says after which call of a round which counter may stand at its threshold
  (the sum of bus errors between the sensor call and the recovery, no other),
  `OneFrame` that at most one frame is queued, and only until it is served.
  `ResetNoted` follows the reset flag from the reset to the counter; `RestartInv`
  says what RAM, flash and the save flags have to do with each other at each
  step of a save. `Refinement` shows that the loop keeps the promise of
  `ConfigCell` (`ImplementsCell`): the image under construction is RAM while a
  save runs, which nothing changes in that time.
- `ModbusServerProofs`: `TypeCorrect`, `AnswersMatch`, `RegistersAgree`,
  `CommandsAreConsumed`, `AcceptedIsKept`, for every register file, layout and
  set of spans. The induction needs TypeOK, AnswersAsAddressed and
  RegistersShowConfig together; `OutcomeFacts` and `CommandFacts` say what a
  command does to what it started from, and `Steps` reduces every frame to a
  command or to a step that leaves the configuration alone.
- `UartDriverProofs`: `TypeCorrect`, `LineIsReleased`, `AloneWhole`,
  `AloneAnswered`, for every ring, frame length, timer, round and stall.
  LineReleased is not inductive: the flag that asks for the release must survive
  until an interrupt looks at it. `LineInv` follows it (with one byte left,
  either the flag of DMA is raised or the interrupt of the transmission is
  enabled; TC is clear as long as bytes are left). The other two
  follow a frame from its first byte. It is `Collecting` until it is fetched:
  the slots from tail to head hold its bytes in order (`Gathered`), nothing is
  being sent, and while it is coming each party that could announce it is held
  back by a reason of its own (the IDLE flag is clear, the mark is at the tail
  or the timer cannot run out before the end, the poll has seen the head move
  less than its silence ago). It is `Handed` from then on: the ring is empty and
  a transmission holds the line to its last byte. Assumption beyond the ranges of
  the constants: the poll waits for at least two characters.

What a recursive function computes is proved with two lemmas of `SensorProofs`,
`Least` and `CountingUp`, which draw induction over a *set* of numbers from the
well-foundedness of <; the library's induction theorems, which take a predicate
as a parameter, cannot be used with the provers installed.

Every state invariant, action property and refinement that the passing runs
check is stated by a theorem. Only model-checked: liveness (`KeepsTriggering`,
`FatalLeadsToReset`, `PendingSaveEnds`, `Drains`), which the prover does not do
under fairness, and the refuted statements. No module declares a RECURSIVE
operator.

## 5. Not modelled, and the plan

Not modelled:

- the contents of responses, diagnostic registers and package fields other than
  identity and alarms, with their conversion and narrowing;
- `AdcService`: it writes the measured supply voltage to register 0x0C once per
  round; nothing in the program reads the register but the master and the
  arguments of a command that came in several frames (see "hazards");
- the LCD, the PWM output (initialised, `setTemperature` and `setHumidity` are
  never called), SPI, the clock: write-only peripherals;
- the pin toggling of the bus recovery, reads of one and two bytes over I2C, the
  busy-wait delays;
- in the driver of the line, the reads of the data register in the interrupt
  handler, which within a window of some cycles can take a byte from DMA;
- unused by the program: `UartRingBuffer` and `UartFrameBuffer` (the notes say
  the driver uses them; it does not), the transmit queue of the driver,
  `Process_BaseSettings`, `Process_SensorSettings`, `Config_SaveToFlash`.

`PROJECT.json` gives the reason for each component, and "hazards" names what no
property covers. About two thirds of the lines under `src/` are vendor headers
(CMSIS, register definitions) without program logic; of the program's own
logic the models cover most: 1218 of the 1505 lines of `ModbusService.cpp`,
all of the error manager, the configuration, the flash driver and the filter
that runs, and the functions of the UART and I2C drivers that are called.

Built, in this order: `ErrorOps`/`ErrorManager`, `FrameQueue` over
`BoundedFifo`, `ConfigStore` over `ConfigCell`, `SensorService`, `Application`,
`SensorSettings`, `ModbusServer`, `UartDriver`, `SensorReading`, and proofs about
all of them.

Left, in this order:

1. `Application` over `ConfigStore` step by step, in place of the outcome of a
   save.
2. Register 0x0C and packages written in several frames in `ModbusServer`.
3. Frames back to back on `UartDriver` with the addresses `ModbusServer`
   filters on: which requests of a master in a hurry are lost.
