----------------------------- MODULE Application ----------------------------
(***************************************************************************)
(* App/Src/Application.cpp: boot and the main loop, which composes the     *)
(* Modbus service, the configuration, the sensor service, the error        *)
(* manager and the watchdog.  One action per call the loop makes; power    *)
(* can be lost, and the watchdog can bite, between any two of them.        *)
(*                                                                         *)
(* Seen from here a Modbus command is its effect on the configuration, a   *)
(* flash operation its outcome, and the sensor service its effect on the   *)
(* error manager: the details are in ModbusServer, ConfigStore and         *)
(* SensorService.                                                          *)
(***************************************************************************)
EXTENDS ErrorOps

CONSTANTS
    Ids,            \* addresses a base settings command carries; 0 is invalid
    Bases,          \* the other base settings, the baud rate among them
    ValidBases,     \* those isValidRuntimeConfig accepts
    Sensors,        \* sensor settings
    ValidSensors,   \* those isValidRuntimeConfig accepts
    Default,        \* Config_SetDefaults
    Nothing,        \* no image in the sector passes the checks
    QueueSize,      \* FRAME_QUEUE_SIZE: 10
    Reload          \* watchdog ticks between a kick and the reset

Configs == [id : Ids \ {0}, base : Bases, sensor : Sensors]
Loadable == {c \in Configs : c.base \in ValidBases /\ c.sensor \in ValidSensors}

ASSUME ApplicationConstants ==
    /\ Ids \subseteq Nat
    /\ Default \in Loadable
    /\ Nothing \notin Configs
    /\ {QueueSize, Reload} \subseteq Nat \ {0}

VARIABLES
    pc,             \* the call the program is at
    err,            \* errors_
    watchdogResets, \* errors_.watchdogResetCount_
    iwdgFlag,       \* RCC_CSR_IWDGRSTF: survives a reset, not a loss of power
    watchdog,       \* the IWDG counter, in units longer than a loop
    ram,            \* DeviceConfig and Sensor
    stored,         \* the configuration the sector holds, or Nothing
    saveDev,        \* SaveDevSettings
    saveSensor,     \* SaveSensorInfo
    sensor,         \* sensorService_.state_
    queued,         \* modbus_.frameQueue_.count
    cause,          \* history: what ended the previous run
    rejected,       \* history: a refused command changed ram since it was
                    \* last loaded or saved
    acked           \* history: the last save of this run was reported as done

config == <<ram, stored, saveDev, saveSensor, rejected, acked>>
errors == <<err, watchdogResets>>
board == <<iwdgFlag, watchdog, cause>>
vars == <<pc, errors, board, config, sensor, queued>>

LoopPhases == {"receive", "serve", "save", "saving", "sensor", "recover", "feed"}
Looping == pc \in LoopPhases
Pending == saveDev \/ saveSensor

Init == /\ pc = "off"
        /\ err = ErrorInit
        /\ watchdogResets = 0
        /\ iwdgFlag = FALSE
        /\ watchdog = Reload
        /\ ram = Default
        /\ stored \in Configs \cup {Nothing}
        /\ saveDev = FALSE
        /\ saveSensor = FALSE
        /\ sensor = "Trigger"
        /\ queued = 0
        /\ cause = "power"
        /\ rejected = FALSE
        /\ acked = FALSE

-----------------------------------------------------------------------------
(* What a save that fails, or is cut short, leaves in the sector: it may   *)
(* not have begun, may have erased the old image or written part of the    *)
(* new one, or have written all of it.                                     *)
Unfinished == {stored, Nothing, ram}

(* config_.loadOrDefaults                                                  *)
LoadStored == /\ pc = "off"
              /\ stored \in Loadable
              /\ ram' = stored
              /\ pc' = "init"
              /\ UNCHANGED <<errors, board, stored, saveDev, saveSensor, rejected, acked,
                             sensor, queued>>

LoadDefaults == /\ pc = "off"
                /\ stored \notin Loadable
                /\ ram' = Default
                /\ pc' = "bootSave"
                /\ UNCHANGED <<errors, board, stored, saveDev, saveSensor, rejected, acked,
                               sensor, queued>>

(* (void)saveDeviceConfig(): boot goes on whatever the outcome.            *)
SaveDefaults == /\ pc = "bootSave"
                /\ stored' \in Unfinished
                /\ pc' = "init"
                /\ UNCHANGED <<errors, board, ram, saveDev, saveSensor, rejected, acked,
                               sensor, queued>>

(* Variant: the reset is reported before errors_.initialize.               *)
InitializeLosesReport == /\ pc = "init"
                         /\ err' = ErrorInit
                         /\ watchdogResets' = 0
                         /\ iwdgFlag' = FALSE
                         /\ watchdog' = Reload
                         /\ sensor' = "Trigger"
                         /\ queued' = 0
                         /\ pc' = "receive"
                         /\ UNCHANGED <<cause, config>>

(* The rest of Application::initialize.                                    *)
Initialize == /\ pc = "init"
              /\ err' = ErrorInit
              /\ watchdogResets' = IF iwdgFlag THEN 1 ELSE 0
              /\ iwdgFlag' = FALSE
              /\ watchdog' = Reload
              /\ sensor' = "Trigger"
              /\ queued' = 0
              /\ pc' = "receive"
              /\ UNCHANGED <<cause, config>>

-----------------------------------------------------------------------------
(* ModbusService::process, first half: fetch and queueFrame.               *)
NoFrame == /\ pc = "receive"
           /\ pc' = "serve"
           /\ UNCHANGED <<errors, board, config, sensor, queued>>

QueueFrame == /\ pc = "receive"
              /\ queued' = IF queued < QueueSize THEN queued + 1 ELSE queued
              /\ err' = IF queued < QueueSize THEN err ELSE AfterUartOverflow(err)
              /\ pc' = "serve"
              /\ UNCHANGED <<watchdogResets, board, config, sensor>>

(* Second half: dequeueFrame and processFrame.                             *)
QueueEmpty == /\ pc = "serve"
              /\ queued = 0
              /\ pc' = "save"
              /\ UNCHANGED <<errors, board, config, sensor, queued>>

Dequeue == /\ pc = "serve"
           /\ queued > 0
           /\ queued' = queued - 1
           /\ pc' = "save"
           /\ UNCHANGED <<watchdogResets, board, stored, acked, sensor>>

(* A short frame, or one whose checksum does not match.                    *)
BadFrame == /\ Dequeue
            /\ UNCHANGED <<err, ram, saveDev, saveSensor, rejected>>

ServedFrame == /\ Dequeue
               /\ err' = AfterValidModbusFrame(err)

(* A frame for another device, a read, or a write of plain registers.      *)
OrdinaryFrame == /\ ServedFrame
                 /\ UNCHANGED <<ram, saveDev, saveSensor, rejected>>

(* Variant: the id is taken over unchecked.                                *)
BaseSettingsUnchecked(id, base) ==
    /\ ServedFrame
    /\ ram' = [ram EXCEPT !.id = id, !.base = base]
    /\ saveDev' = TRUE
    /\ UNCHANGED <<saveSensor, rejected>>

(* saveBaseSettings: an invalid id is refused, the rest is stored in       *)
(* DeviceConfig all the same.                                              *)
BaseSettings(id, base) ==
    /\ ServedFrame
    /\ ram' = [ram EXCEPT !.id = IF id # 0 THEN id ELSE @, !.base = base]
    /\ saveDev' = (saveDev \/ id # 0)
    /\ rejected' = (rejected \/ (id = 0 /\ ram' # ram))
    /\ UNCHANGED saveSensor

(* saveSensorSettings with a package it accepts.                           *)
SensorSettings(settings) ==
    /\ ServedFrame
    /\ ram' = [ram EXCEPT !.sensor = settings]
    /\ saveDev' = TRUE
    /\ saveSensor' = TRUE
    /\ UNCHANGED rejected

-----------------------------------------------------------------------------
NothingToSave == /\ pc = "save"
                 /\ ~Pending
                 /\ pc' = "sensor"
                 /\ UNCHANGED <<errors, board, config, sensor, queued>>

StartSave == /\ pc = "save"
             /\ Pending
             /\ acked' = FALSE
             /\ pc' = "saving"
             /\ UNCHANGED <<errors, board, ram, stored, saveDev, saveSensor, rejected,
                            sensor, queued>>

(* Variant: the save reports success without having verified the sector.   *)
SaveOkUnverified == /\ pc = "saving"
                    /\ stored' \in Unfinished
                    /\ saveDev' = FALSE
                    /\ saveSensor' = FALSE
                    /\ rejected' = FALSE
                    /\ acked' = TRUE
                    /\ err' = AfterFlashSaveSuccess(err)
                    /\ pc' = "sensor"
                    /\ UNCHANGED <<watchdogResets, board, ram, sensor, queued>>

SaveOk == /\ pc = "saving"
          /\ stored' = ram
          /\ saveDev' = FALSE
          /\ saveSensor' = FALSE
          /\ rejected' = FALSE
          /\ acked' = TRUE
          /\ err' = AfterFlashSaveSuccess(err)
          /\ pc' = "sensor"
          /\ UNCHANGED <<watchdogResets, board, ram, sensor, queued>>

(* Variant: the flags are cleared whatever the result.                     *)
SaveFailedForgets == /\ pc = "saving"
                     /\ stored' \in Unfinished
                     /\ err' = AfterFlashSaveFailure(err)
                     /\ saveDev' = FALSE
                     /\ saveSensor' = FALSE
                     /\ pc' = "sensor"
                     /\ UNCHANGED <<watchdogResets, board, ram, rejected, acked, sensor,
                                    queued>>

(* Variant: the failure is not reported.                                   *)
SaveFailedSilently == /\ pc = "saving"
                      /\ stored' \in Unfinished
                      /\ pc' = "sensor"
                      /\ UNCHANGED <<errors, board, ram, saveDev, saveSensor, rejected,
                                     acked, sensor, queued>>

SaveFailed == /\ pc = "saving"
              /\ stored' \in Unfinished
              /\ err' = AfterFlashSaveFailure(err)
              /\ pc' = "sensor"
              /\ UNCHANGED <<watchdogResets, board, ram, saveDev, saveSensor, rejected,
                             acked, sensor, queued>>

-----------------------------------------------------------------------------
(* sensorService_.process and then errors_.process.                        *)
SensorCall(st, after, next) == /\ pc = "sensor"
                               /\ sensor = st
                               /\ err' = Processed(after)
                               /\ sensor' = next
                               /\ pc' = "recover"
                               /\ UNCHANGED <<watchdogResets, board, config, queued>>

SensorNotDue == SensorCall(sensor, err, sensor)

TriggerSent == SensorCall("Trigger", AfterI2cSuccess(err), "Read")

TriggerFailed(status) == SensorCall("Trigger", AfterI2cError(err, status), "Trigger")

ReadFailed(status) ==
    SensorCall("Read", AfterSensorReadFailure(AfterI2cError(err, status)), "Trigger")

ReadImplausible ==
    SensorCall("Read", AfterSensorReadFailure(AfterI2cSuccess(err)), "Trigger")

ReadGood == SensorCall("Read", AfterSensorReadSuccess(AfterI2cSuccess(err)), "Trigger")

(* Variant: a bus that cannot be recovered is reported.                    *)
RecoverBusFails == FALSE

(* I2cBus::recoverBus, which never returns false.                          *)
RecoverBus == TRUE

(* Variants: the recovery is not reported; it is not marked as done.       *)
RecoverUnreported == /\ pc = "recover"
                     /\ err' = AfterRecoveryMarkedDone(err)
                     /\ pc' = "feed"
                     /\ UNCHANGED <<watchdogResets, board, config, sensor, queued>>

RecoverUnmarked == /\ pc = "recover"
                   /\ err' = IF err.recoveryRequested THEN AfterI2cRecovery(err, TRUE) ELSE err
                   /\ pc' = "feed"
                   /\ UNCHANGED <<watchdogResets, board, config, sensor, queued>>

Recover == /\ pc = "recover"
           /\ err' = IF ~err.recoveryRequested THEN err
                     ELSE LET reported == AfterI2cRecovery(err, RecoverBus)
                          IN  IF RecoverBus THEN AfterRecoveryMarkedDone(reported) ELSE reported
           /\ pc' = "feed"
           /\ UNCHANGED <<watchdogResets, board, config, sensor, queued>>

(* Variant: the watchdog is fed in spite of a fatal fault.                 *)
FeedAlways == /\ pc = "feed"
              /\ watchdog' = Reload
              /\ pc' = "receive"
              /\ UNCHANGED <<errors, iwdgFlag, cause, config, sensor, queued>>

FeedWatchdog == /\ pc = "feed"
                /\ watchdog' = IF err.fatalFault THEN watchdog ELSE Reload
                /\ pc' = "receive"
                /\ UNCHANGED <<errors, iwdgFlag, cause, config, sensor, queued>>

-----------------------------------------------------------------------------
(* A watchdog that was never started does not count.                       *)
WatchdogTick == /\ Looping
                /\ watchdog > 0
                /\ watchdog' = watchdog - 1
                /\ UNCHANGED <<pc, errors, iwdgFlag, cause, config, sensor, queued>>

(* Everything in RAM is lost; a save in progress is cut short.             *)
Restart == /\ pc' = "off"
           /\ err' = ErrorInit
           /\ watchdogResets' = 0
           /\ watchdog' = Reload
           /\ ram' = Default
           /\ stored' \in IF pc \in {"saving", "bootSave"} THEN Unfinished ELSE {stored}
           /\ saveDev' = FALSE
           /\ saveSensor' = FALSE
           /\ rejected' = FALSE
           /\ acked' = FALSE
           /\ sensor' = "Trigger"
           /\ queued' = 0

WatchdogReset == /\ Looping
                 /\ watchdog = 0
                 /\ Restart
                 /\ iwdgFlag' = TRUE
                 /\ cause' = "watchdog"

PowerLoss == /\ Restart
             /\ iwdgFlag' = FALSE
             /\ cause' = "power"

Boot == LoadStored \/ LoadDefaults \/ SaveDefaults \/ Initialize

Serve == \/ QueueEmpty
         \/ BadFrame
         \/ OrdinaryFrame
         \/ \E id \in Ids, base \in Bases : BaseSettings(id, base)
         \/ \E settings \in Sensors : SensorSettings(settings)

SensorProcess == \/ SensorNotDue
                 \/ TriggerSent
                 \/ \E status \in I2cErrorStatus : TriggerFailed(status)
                 \/ \E status \in I2cErrorStatus : ReadFailed(status)
                 \/ ReadImplausible
                 \/ ReadGood

(* The steps of the loop that end by themselves; a flash operation is not  *)
(* one, for waitUntilReady spins as long as the controller is busy.        *)
Step == \/ NoFrame \/ QueueFrame
        \/ Serve
        \/ NothingToSave \/ StartSave
        \/ SensorProcess
        \/ Recover
        \/ FeedWatchdog

Next == \/ Boot
        \/ Step
        \/ SaveOk \/ SaveFailed
        \/ WatchdogTick \/ WatchdogReset
        \/ PowerLoss

Spec == Init /\ [][Next]_vars

(* The loop goes round and the watchdog counts; flash may hang, frames and *)
(* power may stay away.                                                    *)
FairSpec == /\ Spec
            /\ WF_vars(Step)
            /\ WF_vars(WatchdogTick)
            /\ WF_vars(WatchdogReset)

-----------------------------------------------------------------------------
(* Every variable holds a value of its C++ type, the id a valid one.       *)
TypeOK ==
    /\ pc \in {"off", "bootSave", "init"} \cup LoopPhases
    /\ err \in ErrorState
    /\ watchdogResets \in {0, 1}
    /\ watchdog \in 0 .. Reload
    /\ ram \in Configs
    /\ stored \in Configs \cup {Nothing}
    /\ {iwdgFlag, saveDev, saveSensor, rejected, acked} \subseteq BOOLEAN
    /\ sensor \in {"Trigger", "Read"}
    /\ queued \in 0 .. QueueSize
    /\ cause \in {"power", "watchdog"}

(* severeI2cCount (ErrorManager.cpp:48) adds two uint8_t counters into a   *)
(* third and could wrap back below the threshold; the recovery the loop    *)
(* runs in the very round the threshold is reached keeps it from that.     *)
SevereNeverWraps == err.timeoutCount + err.busErrorCount <= I2cRecoveryThreshold

(* A request for a bus recovery is served in the round that raised it,     *)
(* whichever call raised it: none is pending when the watchdog is fed,     *)
(* when a frame is served or when a save starts.                           *)
RequestServedInRound == err.recoveryRequested => pc \in {"sensor", "recover"}

(* The queue takes one frame and gives one in each round, so overflow is   *)
(* out of reach, as is a failed recovery: what makes the device stop       *)
(* feeding its watchdog is always a run of failed saves.                   *)
OnlyFlashIsFatal ==
    [][ ~err.fatalFault /\ err'.fatalFault =>
            err'.consecutiveFlashSaveFail >= FlashSaveFailThreshold ]_vars

(* The diagnostic register tells the cause of the last restart, also when  *)
(* power is lost between the reset and the boot that reports it, or twice  *)
(* in a row.                                                               *)
WatchdogResetIsReported == Looping => (watchdogResets = 1 <=> cause = "watchdog")

(* Between saves nothing is kept in RAM only: with no save outstanding, a  *)
(* restart brings back the configuration the device is running with,       *)
(* through failed, repeated and interrupted saves.  The exceptions: the    *)
(* sector holds no loadable image (after a default that could not be saved *)
(* or a setting the next start refuses), and a refused command left its    *)
(* traces.                                                                 *)
RestartIsTransparent ==
    Looping /\ ~Pending /\ ~rejected /\ stored \in Loadable => stored = ram

(* What the sector promises (ConfigCell) still holds with everything else  *)
(* that happens in the loop: the configuration being written does not      *)
(* change while it is written, whatever frames come; a save that is        *)
(* reported as done has stored it; and nothing but a save, the one at boot *)
(* included, changes what is stored, through resets at any moment.         *)
Cell == INSTANCE ConfigCell WITH
            saving <- IF pc \in {"bootSave", "saving"} THEN ram ELSE Nothing

ImplementsCell == Cell!Spec

(* A fatal fault ends in a reset.                                          *)
FatalLeadsToReset == err.fatalFault ~> pc = "off"

(* No setting waits for its save for ever: either a save succeeds, or so   *)
(* many fail that the watchdog resets the device, or flash hangs and the   *)
(* watchdog does it.                                                       *)
PendingSaveEnds == Pending ~> ~Pending
=============================================================================
