---------------------------- MODULE ModbusServer ----------------------------
(***************************************************************************)
(* ModbusService::processFrame and what it calls: address filter, the four *)
(* function codes, exceptions, the register file, and the commands a write *)
(* of several registers can carry.                                         *)
(*                                                                         *)
(* The register file keeps the layout of the code scaled down: the command *)
(* register is 1, its arguments start at 2 and overlap registers that      *)
(* mirror the configuration.  A settings command has two arguments: the id *)
(* and another base setting, or the sensor identity and an alarm           *)
(* threshold.  Registers hold a few values, 0 among them.                  *)
(***************************************************************************)
EXTENDS Integers

CONSTANTS
    HoldingSize,        \* HOLDING_REG_SIZE: 128
    ThresholdReg,       \* a mirrored register among the arguments
    BaseReg,            \* a mirrored register beyond them
    MaxWrite,           \* 123: registers a frame can write
    LenModulus,         \* 256: the argument count is a uint8_t
    SettingsLen,        \* arguments a settings command needs (45 and 56)
    Contents,           \* bound: the values the master writes to each register
    Spans,              \* bound: the <<address, quantity>> it asks for
    Ids,                \* valid slave addresses (1 .. 247)
    SetSensor, SetBase, \* SET_SENSOR_DATA, SET_DETECTOR_DATA
    Harmless,           \* SET_TIME_DATE, RESET_DETECTOR: acknowledged only
    RefusedSensors,     \* sensor identities saveSensorSettings refuses
    FirstId,            \* what the configuration holds at power up
    NoFrame             \* no request, no response

Registers == 0 .. HoldingSize - 1
CommandCode == 1
Argument(i) == 2 + i
Values == UNION {Contents[r] : r \in Registers}
Mirrored == {ThresholdReg, BaseReg}

ASSUME ModbusConstants ==
    /\ HoldingSize \in Nat
    /\ Argument(1) = ThresholdReg
    /\ BaseReg \in Registers
    /\ BaseReg > ThresholdReg
    /\ MaxWrite \in Nat
    /\ LenModulus > SettingsLen /\ SettingsLen \in Nat
    /\ Contents \in [Registers -> SUBSET Nat]
    /\ \A r \in Registers : 0 \in Contents[r]
    /\ Spans \subseteq Nat \X Nat
    /\ Ids \subseteq Values \ {0}
    /\ {SetSensor, SetBase, Harmless} \subseteq Values \ {0}
    /\ RefusedSensors \subseteq Values
    /\ FirstId \in Ids
    /\ NoFrame \notin Nat

Addresses == Ids \cup {0}

VARIABLES
    config,     \* DeviceConfig and Sensor: id, base, sensor, threshold
    holding,    \* holdingRegs_
    slave,      \* slaveAddress_
    saveDev,    \* SaveDevSettings
    saveSensor, \* SaveSensorInfo
    response,   \* what the last call handed to uart_.send: the address the
                \* response comes from, and that of the request it answers
    commanded,  \* history: the last frame wrote the command register
    stale       \* history: mirrored registers that may not show config:
                \* written by the master, or left behind by a refused command

state == <<config, holding, slave, saveDev, saveSensor>>
vars == <<state, response, commanded, stale>>

(* syncAll: every mirrored register takes the value config gives it.       *)
Shows(c, r) == IF r = ThresholdReg THEN c.threshold ELSE c.base
(* Variant: the thresholds are left out.                                   *)
SyncedBaseOnly(regs, c) == [r \in Registers |-> IF r = BaseReg THEN Shows(c, r) ELSE regs[r]]

Synced(regs, c) == [r \in Registers |-> IF r \in Mirrored THEN Shows(c, r) ELSE regs[r]]

FirstConfig == [id |-> FirstId, base |-> 0, sensor |-> FirstId, threshold |-> 0]

(* ModbusService::initialize                                               *)
Init == /\ config = FirstConfig
        /\ holding = Synced([r \in Registers |-> 0], FirstConfig)
        /\ slave = FirstId
        /\ saveDev = FALSE
        /\ saveSensor = FALSE
        /\ response = NoFrame
        /\ commanded = FALSE
        /\ stale = {}

-----------------------------------------------------------------------------
(* Shorter than its function needs, or a checksum that does not match.     *)
DropFrame == /\ response' = NoFrame
             /\ commanded' = FALSE
             /\ UNCHANGED <<state, stale>>

(* Variant: the address is not compared.                                   *)
IgnoredNever(address) == FALSE

(* The filter compares with the id of the configuration as it is now.      *)
Ignored(address) == address # 0 /\ address # config.id

IgnoreFrame(address) == /\ Ignored(address)
                        /\ slave' = config.id
                        /\ response' = NoFrame
                        /\ commanded' = FALSE
                        /\ UNCHANGED <<config, holding, saveDev, saveSensor, stale>>

(* A broadcast is never answered.                                          *)
Answer(address, from) ==
    response' = IF address = 0 THEN NoFrame ELSE [from |-> from, to |-> address]

(* A frame that is answered and changes nothing: an exception, or data.    *)
Reply(address) == /\ ~Ignored(address)
                  /\ slave' = config.id
                  /\ Answer(address, slave')
                  /\ commanded' = FALSE
                  /\ UNCHANGED <<config, holding, saveDev, saveSensor, stale>>

UnknownFunction(address) == Reply(address)

InRange(addr, qty, max) == qty > 0 /\ qty <= max /\ addr + qty <= HoldingSize

(* Both reads, of a range of registers or refused; the live input          *)
(* registers they refresh are not modelled.                                *)
Read(address) == Reply(address)

WriteSingle(address, addr, value) ==
    /\ addr \in Registers
    /\ ~Ignored(address)
    /\ slave' = config.id
    /\ Answer(address, address)
    /\ holding' = [holding EXCEPT ![addr] = value]
    /\ commanded' = FALSE
    /\ stale' = stale \cup ({addr} \cap Mirrored)
    /\ UNCHANGED <<config, saveDev, saveSensor>>

-----------------------------------------------------------------------------
(* Variant: the id is taken over unchecked.                                *)
BaseSettingsUnchecked(regs) ==
    [ config |-> [config EXCEPT !.id = regs[Argument(0)], !.base = regs[Argument(1)]],
      ack    |-> TRUE ]

(* saveBaseSettings and saveSensorSettings: the configuration that results *)
(* and the verdict, from the registers after the write.                    *)
BaseSettings(regs) ==
    LET id == regs[Argument(0)]
    IN  [ config |-> [config EXCEPT !.id   = IF id \in Ids THEN id ELSE @,
                                    !.base = regs[Argument(1)]],
          ack    |-> id \in Ids ]

SensorSettings(regs) ==
    LET sensor == regs[Argument(0)]
    IN  [ config |-> IF sensor \in RefusedSensors THEN config
                     ELSE [config EXCEPT !.sensor    = sensor,
                                         !.threshold = regs[Argument(1)]],
          ack    |-> sensor \notin RefusedSensors ]

(* runCommand's switch; qty - 2 is narrowed to a uint8_t.                  *)
Outcome(regs, qty) ==
    LET command == regs[CommandCode]
        long    == (qty - 2) % LenModulus >= SettingsLen
    IN  CASE command = SetBase /\ long   -> BaseSettings(regs)
          [] command = SetSensor /\ long -> SensorSettings(regs)
          [] OTHER -> [config |-> config, ack |-> command = Harmless]

(* Variant: a range that ends just below the command register counts.      *)
CarriesOffByOne(addr, qty) == addr <= CommandCode /\ addr + qty >= CommandCode

Carries(addr, qty) == addr <= CommandCode /\ addr + qty > CommandCode

(* Variant: saveSensorSettings does not raise SaveDevSettings.             *)
SavingBase == {SetBase}

(* The commands that raise SaveDevSettings.                                *)
Saving == {SetBase, SetSensor}

Span(addr, qty) == addr .. addr + qty - 1

(* runCommand after the write: an acknowledged command re-synchronises the *)
(* registers, a refused one leaves its arguments where they are; either    *)
(* way the command register is cleared.                                    *)
RunCommand(regs, addr, qty) ==
    LET done == Outcome(regs, qty)
        sets == regs[CommandCode] \in Saving
    IN  /\ config' = done.config
        /\ slave' = done.config.id
        /\ saveDev' = (saveDev \/ (sets /\ done.ack))
        /\ saveSensor' = (saveSensor \/ (regs[CommandCode] = SetSensor /\ done.ack))
        /\ holding' = [ IF done.ack THEN Synced(regs, done.config) ELSE regs
                        EXCEPT ![CommandCode] = 0 ]
        /\ stale' = IF done.ack THEN {}
                    ELSE stale \cup (Span(addr, qty) \cap Mirrored)
                               \cup {r \in Mirrored : Shows(config, r) # Shows(done.config, r)}

(* The answer is sent before the command is run.                           *)
WriteMultiple(address, addr, qty, data) ==
    /\ InRange(addr, qty, MaxWrite)
    /\ ~Ignored(address)
    /\ Answer(address, address)
    /\ commanded' = (CommandCode \in Span(addr, qty))
    /\ LET regs == [r \in Registers |-> IF r \in Span(addr, qty) THEN data[r] ELSE holding[r]]
       IN  IF Carries(addr, qty)
           THEN RunCommand(regs, addr, qty)
           ELSE /\ holding' = regs
                /\ slave' = config.id
                /\ stale' = stale \cup (Span(addr, qty) \cap Mirrored)
                /\ UNCHANGED <<config, saveDev, saveSensor>>

(* A write outside the register file, or of too many registers.            *)
RefuseWrite(address, addr, qty) == /\ ~InRange(addr, qty, MaxWrite)
                                   /\ Reply(address)

(* Application::run, after a successful save.                              *)
Saved == /\ saveDev \/ saveSensor
         /\ saveDev' = FALSE
         /\ saveSensor' = FALSE
         /\ response' = NoFrame
         /\ commanded' = FALSE
         /\ UNCHANGED <<config, holding, slave, stale>>

(* The writes of several registers the master sends.                       *)
Payloads(addr, qty) ==
    {data \in [Span(addr, qty) -> Values] : \A r \in Span(addr, qty) : data[r] \in Contents[r]}

Writes == UNION { [addr : {span[1]}, qty : {span[2]}, data : Payloads(span[1], span[2])] :
                      span \in {sp \in Spans : InRange(sp[1], sp[2], MaxWrite)} }

SingleWrites(address) ==
    \E r \in Registers : \E value \in Contents[r] : WriteSingle(address, r, value)

MultipleWrites(address) ==
    \/ \E span \in Spans : RefuseWrite(address, span[1], span[2])
    \/ \E w \in Writes : WriteMultiple(address, w.addr, w.qty, w.data)

Next == \/ DropFrame
        \/ \E address \in Addresses :
               \/ IgnoreFrame(address)
               \/ UnknownFunction(address)
               \/ Read(address)
               \/ SingleWrites(address)
               \/ MultipleWrites(address)
        \/ Saved

Spec == Init /\ [][Next]_vars

-----------------------------------------------------------------------------
(* Registers within their width, flags and frames of their shape.          *)
TypeOK ==
    /\ config \in [id : Ids, base : Values, sensor : Values, threshold : Values]
    /\ holding \in [Registers -> Values]
    /\ slave \in Ids
    /\ saveDev \in BOOLEAN /\ saveSensor \in BOOLEAN
    /\ response \in [from : Ids, to : Ids] \cup {NoFrame}
    /\ commanded \in BOOLEAN
    /\ stale \subseteq Mirrored

(* On a shared bus two devices must not answer one request: whatever id    *)
(* the device had before and has after the frame, it answers only frames   *)
(* that name it, under the name they used, and a change of its id takes    *)
(* effect with the next frame.                                             *)
AnswersAsAddressed ==
    /\ response # NoFrame => response.from = response.to
    /\ slave = config.id

(* The configuration changes only by a frame that wrote the command        *)
(* register, never by a command code an earlier frame left there; and no   *)
(* command is run twice, for its register is cleared.                      *)
CommandsRunOnce ==
    [][ config' # config => /\ commanded'
                            /\ holding'[CommandCode] = 0 ]_vars

(* The sensor service compares with the thresholds in the registers, not   *)
(* in the configuration: after any sequence of accepted and refused        *)
(* commands they are the same, unless the master wrote the register itself *)
(* or the last settings command was refused.                               *)
RegistersShowConfig == \A r \in Mirrored \ stale : holding[r] = Shows(config, r)

(* Nothing is accepted and then forgotten: a change of the configuration   *)
(* after which the registers are synchronised, as they are for an accepted *)
(* command, raises the flags the main loop saves on.                       *)
AcceptedIsPending ==
    [][ config' # config /\ stale' = {} => /\ saveDev'
                                           /\ config'.sensor # config.sensor => saveSensor' ]_vars
=============================================================================
