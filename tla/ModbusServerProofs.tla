------------------------- MODULE ModbusServerProofs -------------------------
(***************************************************************************)
(* The Modbus server for every size of the register file, every choice of  *)
(* addresses, command codes and register contents.                         *)
(*                                                                         *)
(* A frame either leaves the configuration alone or runs one command.  The *)
(* lemmas say what a command does to the configuration it started from;    *)
(* the properties relate that to flags, registers and answers.             *)
(***************************************************************************)
EXTENDS ModbusServer, TLAPS

(* The layout of the registers and the values they take.                   *)
LEMMA LayoutFits ==
    /\ HoldingSize \in Nat
    /\ Registers \subseteq Nat
    /\ CommandCode \in Registers /\ Argument(0) \in Registers /\ Argument(1) \in Registers
    /\ Mirrored \subseteq Registers /\ CommandCode \notin Mirrored
    /\ ThresholdReg \in Registers /\ BaseReg \in Registers /\ BaseReg # ThresholdReg
    /\ \A r \in Registers : Contents[r] \subseteq Values
    /\ 0 \in Values
    /\ Ids \subseteq Values /\ 0 \notin Ids /\ FirstId \in Ids
BY ModbusConstants DEF Registers, CommandCode, Argument, Mirrored, Values

(* The type of the configuration.                                          *)
Configs == [id : Ids, base : Values, sensor : Values, threshold : Values]

(* Synchronised registers show the configuration they were taken from.     *)
LEMMA SyncedShows ==
    ASSUME NEW regs \in [Registers -> Values], NEW c \in Configs
    PROVE  /\ Synced(regs, c) \in [Registers -> Values]
           /\ \A r \in Mirrored : Synced(regs, c)[r] = Shows(c, r)
<1>1. \A r \in Registers : Shows(c, r) \in Values
  BY DEF Shows, Configs
<1>2. QED
  BY <1>1, LayoutFits DEF Synced

(* What the master writes are registers.                                   *)
LEMMA WritesFit ==
    ASSUME NEW w \in Writes
    PROVE  /\ w.addr \in Nat /\ w.qty \in Nat
           /\ \A r \in Span(w.addr, w.qty) \cap Registers : w.data[r] \in Values
<1>1. PICK span \in Spans : w \in [addr : {span[1]}, qty : {span[2]},
                                   data : Payloads(span[1], span[2])]
  BY DEF Writes
<1>2. w.addr = span[1] /\ w.qty = span[2] /\ w.data \in Payloads(span[1], span[2])
  BY <1>1
<1>3. span[1] \in Nat /\ span[2] \in Nat
  BY ModbusConstants
<1>4. \A r \in Span(w.addr, w.qty) : w.data[r] \in Contents[r]
  BY <1>2 DEF Payloads
<1>5. QED
  BY <1>2, <1>3, <1>4, LayoutFits

-----------------------------------------------------------------------------
(* What a command makes of the configuration: only an accepted one changes *)
(* the id or the sensor, a refused one may change the rest of the base     *)
(* settings.                                                               *)
LEMMA OutcomeFacts ==
    ASSUME config \in Configs, NEW regs \in [Registers -> Values], NEW qty \in Nat
    PROVE  LET done == Outcome(regs, qty) IN
           /\ done.config \in Configs
           /\ done.ack \in BOOLEAN
           /\ done.ack /\ done.config # config => regs[CommandCode] \in Saving
           /\ done.config.sensor # config.sensor => done.ack /\ regs[CommandCode] = SetSensor
           /\ ~done.ack /\ done.config # config => done.config.base # config.base
<1> DEFINE done == Outcome(regs, qty)
           Facts(d) == /\ d.config \in Configs
                       /\ d.ack \in BOOLEAN
                       /\ d.ack /\ d.config # config => regs[CommandCode] \in Saving
                       /\ d.config.sensor # config.sensor
                            => d.ack /\ regs[CommandCode] = SetSensor
                       /\ ~d.ack /\ d.config # config => d.config.base # config.base
<1>1. regs[Argument(0)] \in Values /\ regs[Argument(1)] \in Values
  BY LayoutFits
<1>2. ASSUME regs[CommandCode] = SetBase
      PROVE  Facts(BaseSettings(regs))
  <2> DEFINE id == IF regs[Argument(0)] \in Ids THEN regs[Argument(0)] ELSE config.id
             c == [config EXCEPT !.id = id, !.base = regs[Argument(1)]]
  <2>1. BaseSettings(regs) = [config |-> c, ack |-> regs[Argument(0)] \in Ids]
    BY DEF BaseSettings
  <2>2. id \in Ids
    BY DEF Configs
  <2>3. c \in Configs /\ c.sensor = config.sensor /\ c.base = regs[Argument(1)]
    BY <1>1, <2>2 DEF Configs
  <2>4. regs[Argument(0)] \notin Ids /\ c # config => c.base # config.base
    BY DEF Configs
  <2>5. SetBase \in Saving
    BY DEF Saving
  <2> HIDE DEF c
  <2>6. BaseSettings(regs).config = c /\ BaseSettings(regs).ack = (regs[Argument(0)] \in Ids)
    BY <2>1
  <2>7. BaseSettings(regs).ack \in BOOLEAN
    BY <2>6
  <2>8. ~BaseSettings(regs).ack <=> regs[Argument(0)] \notin Ids
    BY <2>6
  <2>9. QED
    BY <1>2, <2>3, <2>4, <2>5, <2>6, <2>7, <2>8
<1>3. ASSUME regs[CommandCode] = SetSensor
      PROVE  Facts(SensorSettings(regs))
  <2> DEFINE c == [config EXCEPT !.sensor = regs[Argument(0)],
                                 !.threshold = regs[Argument(1)]]
  <2>1. c \in Configs
    BY <1>1 DEF Configs
  <2>2. SetSensor \in Saving
    BY DEF Saving
  <2>3. QED
    BY <1>3, <2>1, <2>2 DEF SensorSettings
<1>4. Facts([config |-> config, ack |-> regs[CommandCode] = Harmless])
  OBVIOUS
<1>5. \/ regs[CommandCode] = SetBase /\ done = BaseSettings(regs)
      \/ regs[CommandCode] = SetSensor /\ done = SensorSettings(regs)
      \/ done = [config |-> config, ack |-> regs[CommandCode] = Harmless]
  BY DEF Outcome
<1>6. Facts(done)
  <2> HIDE DEF Facts, done
  <2>1. QED
    BY <1>2, <1>3, <1>4, <1>5
<1>7. QED
  BY <1>6

(* A step that changes the configuration runs a command.                   *)
Runs(regs, addr, qty) ==
    /\ regs \in [Registers -> Values]
    /\ addr \in Nat /\ qty \in Nat
    /\ \A r \in Registers \ Span(addr, qty) : regs[r] = holding[r]
    /\ commanded' = (CommandCode \in Span(addr, qty))
    /\ Carries(addr, qty)
    /\ RunCommand(regs, addr, qty)

(* Every other step leaves it alone, and what it writes to the registers   *)
(* that mirror it is on record.                                            *)
Plain ==
    /\ config' = config
    /\ slave' \in {slave, config.id}
    /\ saveDev' \in BOOLEAN /\ saveSensor' \in BOOLEAN /\ commanded' \in BOOLEAN
    /\ holding' \in [Registers -> Values]
    /\ stale' \subseteq Mirrored
    /\ \A r \in Mirrored \ stale' : r \notin stale /\ holding'[r] = holding[r]

(* An answer comes from the address the request named.                     *)
Matching == response' = NoFrame \/ \E id \in Ids : response' = [from |-> id, to |-> id]

(* A frame that is answered is answered in this way.                       *)
LEMMA AnswerMatches ==
    ASSUME NEW address \in Addresses, Answer(address, address)
    PROVE  Matching
BY LayoutFits DEF Answer, Matching, Addresses

(* The two kinds of steps.                                                 *)
LEMMA Steps ==
    ASSUME TypeOK, slave = config.id, Next
    PROVE  /\ Matching
           /\ Plain \/ \E regs, addr, qty : Runs(regs, addr, qty)
<1>1. /\ config \in Configs /\ holding \in [Registers -> Values]
      /\ saveDev \in BOOLEAN /\ saveSensor \in BOOLEAN /\ stale \subseteq Mirrored
  BY DEF TypeOK, Configs
<1>2. CASE DropFrame
  BY <1>1, <1>2 DEF DropFrame, state, Matching, Plain
<1>3. CASE Saved
  BY <1>1, <1>3 DEF Saved, Matching, Plain
<1>4. ASSUME NEW address \in Addresses, IgnoreFrame(address)
      PROVE  Matching /\ Plain
  BY <1>1, <1>4 DEF IgnoreFrame, Matching, Plain
<1>5. ASSUME NEW address \in Addresses, Reply(address)
      PROVE  Matching /\ Plain
  <2>1. Plain
    BY <1>1, <1>5 DEF Reply, Plain
  <2>2. Matching
    BY <1>5, LayoutFits DEF Reply, Ignored, Answer, Matching, Addresses
  <2>3. QED
    BY <2>1, <2>2
<1>6. ASSUME NEW address \in Addresses, NEW addr \in Registers, NEW value \in Contents[addr],
             WriteSingle(address, addr, value)
      PROVE  Matching /\ Plain
  <2>1. value \in Values
    BY LayoutFits
  <2>2. holding' = [holding EXCEPT ![addr] = value] /\ stale' = stale \cup ({addr} \cap Mirrored)
    BY <1>6 DEF WriteSingle
  <2>3. \A r \in Mirrored \ stale' : r \notin stale /\ holding'[r] = holding[r]
    BY <1>1, <2>2, LayoutFits
  <2>4. Plain
    BY <1>1, <1>6, <2>1, <2>2, <2>3 DEF WriteSingle, Plain
  <2>5. Matching
    BY <1>6, AnswerMatches DEF WriteSingle
  <2>6. QED
    BY <2>4, <2>5
<1>7. ASSUME NEW address \in Addresses, NEW w \in Writes,
             WriteMultiple(address, w.addr, w.qty, w.data)
      PROVE  Matching /\ (Plain \/ \E regs, addr, qty : Runs(regs, addr, qty))
  <2> DEFINE regs == [r \in Registers |-> IF r \in Span(w.addr, w.qty) THEN w.data[r]
                                          ELSE holding[r]]
  <2>1. /\ regs \in [Registers -> Values]
        /\ w.addr \in Nat /\ w.qty \in Nat
    BY <1>1, WritesFit
  <2>2. Matching
    BY <1>7, AnswerMatches DEF WriteMultiple
  <2>3. commanded' = (CommandCode \in Span(w.addr, w.qty))
    BY <1>7 DEF WriteMultiple
  <2>4. CASE Carries(w.addr, w.qty)
    <3>1. RunCommand(regs, w.addr, w.qty)
      BY <1>7, <2>4 DEF WriteMultiple
    <3>2. Runs(regs, w.addr, w.qty)
      BY <2>1, <2>3, <2>4, <3>1 DEF Runs
    <3>3. QED
      BY <2>2, <3>2
  <2>5. CASE ~Carries(w.addr, w.qty)
    <3>1. /\ holding' = regs
          /\ slave' = config.id
          /\ stale' = stale \cup (Span(w.addr, w.qty) \cap Mirrored)
          /\ UNCHANGED <<config, saveDev, saveSensor>>
      BY <1>7, <2>5 DEF WriteMultiple
    <3>2. \A r \in Mirrored \ stale' : r \notin stale /\ holding'[r] = holding[r]
      BY <3>1, LayoutFits
    <3>3. Plain
      BY <1>1, <2>1, <2>3, <3>1, <3>2 DEF Plain
    <3>4. QED
      BY <2>2, <3>3
  <2>6. QED
    BY <2>4, <2>5
<1>8. QED
  BY <1>2, <1>3, <1>4, <1>5, <1>6, <1>7
  DEF Next, UnknownFunction, Read, SingleWrites, MultipleWrites, RefuseWrite

-----------------------------------------------------------------------------
(* A command was written by the frame that runs it, is taken back when it  *)
(* has run, and leaves the registers and flags as the configuration asks.  *)
LEMMA CommandFacts ==
    ASSUME TypeOK, \A r \in Mirrored \ stale : holding[r] = Shows(config, r),
           NEW regs, NEW addr, NEW qty, Runs(regs, addr, qty)
    PROVE  /\ config' \in Configs
           /\ slave' = config'.id
           /\ saveDev' \in BOOLEAN /\ saveSensor' \in BOOLEAN
           /\ holding' \in [Registers -> Values]
           /\ stale' \subseteq Mirrored
           /\ commanded'
           /\ holding'[CommandCode] = 0
           /\ \A r \in Mirrored \ stale' : holding'[r] = Shows(config', r)
           /\ config' # config /\ stale' = {}
                => saveDev' /\ (config'.sensor # config.sensor => saveSensor')
<1> DEFINE done == Outcome(regs, qty)
           sets == regs[CommandCode] \in Saving
           kept == IF done.ack THEN Synced(regs, done.config) ELSE regs
<1>1. /\ config \in Configs /\ saveDev \in BOOLEAN /\ saveSensor \in BOOLEAN
      /\ stale \subseteq Mirrored
  BY DEF TypeOK, Configs
<1>2. regs \in [Registers -> Values] /\ addr \in Nat /\ qty \in Nat
  BY DEF Runs
<1>3. /\ done.config \in Configs
      /\ done.ack \in BOOLEAN
      /\ done.ack /\ done.config # config => sets
      /\ done.config.sensor # config.sensor => done.ack /\ regs[CommandCode] = SetSensor
      /\ ~done.ack /\ done.config # config => done.config.base # config.base
  BY <1>1, <1>2, OutcomeFacts
<1>4. /\ config' = done.config
      /\ slave' = done.config.id
      /\ saveDev' = (saveDev \/ (sets /\ done.ack))
      /\ saveSensor' = (saveSensor \/ (regs[CommandCode] = SetSensor /\ done.ack))
      /\ holding' = [kept EXCEPT ![CommandCode] = 0]
      /\ stale' = IF done.ack THEN {}
                  ELSE stale \cup (Span(addr, qty) \cap Mirrored)
                             \cup {r \in Mirrored : Shows(config, r) # Shows(done.config, r)}
  BY DEF Runs, RunCommand
<1>5. commanded'
  <2>1. CommandCode \in Span(addr, qty)
    BY <1>2 DEF Runs, Carries, Span, CommandCode
  <2>2. commanded' = (CommandCode \in Span(addr, qty))
    BY DEF Runs
  <2>3. QED
    BY <2>1, <2>2, Zenon
<1> HIDE DEF done
<1>6. kept \in [Registers -> Values]
      /\ (done.ack => \A r \in Mirrored : kept[r] = Shows(done.config, r))
  BY <1>2, <1>3, SyncedShows
<1>7. kept = regs \/ done.ack
  OBVIOUS
<1> HIDE DEF kept
<1>8. /\ holding' \in [Registers -> Values]
      /\ holding'[CommandCode] = 0
      /\ \A r \in Mirrored : holding'[r] = kept[r]
  BY <1>4, <1>6, LayoutFits
<1>9. \A r \in Mirrored \ stale' : holding'[r] = Shows(config', r)
  <2>1. CASE done.ack
    BY <1>4, <1>6, <1>8, <2>1
  <2>2. CASE ~done.ack
    <3> SUFFICES ASSUME NEW r \in Mirrored \ stale'
                 PROVE  holding'[r] = Shows(config', r)
      OBVIOUS
    <3>1. /\ r \in Mirrored \ stale
          /\ r \notin Span(addr, qty)
          /\ Shows(config, r) = Shows(done.config, r)
      BY <1>4, <2>2
    <3>2. holding'[r] = regs[r] /\ regs[r] = holding[r]
      BY <1>7, <1>8, <2>2, <3>1, LayoutFits DEF Runs
    <3>3. QED
      BY <1>4, <3>1, <3>2
  <2>3. QED
    BY <2>1, <2>2
<1>10. config' # config /\ stale' = {} => done.ack
  <2> SUFFICES ASSUME config' # config, stale' = {}, ~done.ack
               PROVE  FALSE
    OBVIOUS
  <2>1. Shows(config, BaseReg) # Shows(done.config, BaseReg) /\ BaseReg \in Mirrored
    BY <1>3, <1>4, LayoutFits DEF Shows, Mirrored
  <2>2. QED
    BY <1>4, <2>1
<1>11. QED
  BY <1>1, <1>3, <1>4, <1>5, <1>8, <1>9, <1>10, Zenon

-----------------------------------------------------------------------------
(* Types, answers and registers are one induction: the filter compares     *)
(* with the id, and a refused command is measured against registers that   *)
(* were consistent before it.                                              *)
IInv == TypeOK /\ AnswersAsAddressed /\ RegistersShowConfig

(* The server starts with registers that show what it loaded.              *)
LEMMA InvInit == Init => IInv
<1> SUFFICES ASSUME Init PROVE IInv
  OBVIOUS
<1>1. FirstConfig \in Configs /\ FirstConfig.id = FirstId
  BY LayoutFits DEF FirstConfig, Configs
<1>2. [r \in Registers |-> 0] \in [Registers -> Values]
  BY LayoutFits
<1>3. /\ holding \in [Registers -> Values]
      /\ \A r \in Mirrored : holding[r] = Shows(config, r)
  BY <1>1, <1>2, SyncedShows DEF Init
<1>4. TypeOK
  BY <1>1, <1>3, LayoutFits DEF Init, TypeOK, Configs
<1>5. QED
  BY <1>1, <1>3, <1>4 DEF Init, IInv, AnswersAsAddressed, RegistersShowConfig

(* Every step keeps the invariant; one that changes the configuration has  *)
(* written its command, cleared it, and raised the flags unless refused.   *)
LEMMA InvNext ==
    ASSUME IInv, [Next]_vars
    PROVE  /\ IInv'
           /\ config' # config => /\ commanded'
                                  /\ holding'[CommandCode] = 0
           /\ config' # config /\ stale' = {}
                => saveDev' /\ (config'.sensor # config.sensor => saveSensor')
<1>1. /\ TypeOK /\ slave = config.id
      /\ config \in Configs /\ config.id \in Ids
      /\ \A r \in Mirrored \ stale : holding[r] = Shows(config, r)
  BY DEF IInv, TypeOK, AnswersAsAddressed, RegistersShowConfig, Configs
<1>2. CASE UNCHANGED vars
  BY <1>2 DEF vars, state, IInv, TypeOK, AnswersAsAddressed, RegistersShowConfig, Shows
<1>3. CASE Next
  <2>1. Matching /\ (Plain \/ \E regs, addr, qty : Runs(regs, addr, qty))
    BY <1>1, <1>3, Steps
  <2>2. /\ response' \in [from : Ids, to : Ids] \cup {NoFrame}
        /\ response' # NoFrame => response'.from = response'.to
    BY <2>1 DEF Matching
  <2>3. CASE Plain
    <3>1. slave' = config'.id /\ slave' \in Ids /\ config' \in Configs
      BY <1>1, <2>3 DEF Plain
    <3>2. TypeOK'
      BY <2>2, <2>3, <3>1 DEF Plain, TypeOK, Configs
    <3>3. RegistersShowConfig'
      BY <1>1, <2>3 DEF Plain, RegistersShowConfig, Shows
    <3>4. QED
      BY <2>2, <2>3, <3>1, <3>2, <3>3 DEF Plain, IInv, AnswersAsAddressed
  <2>4. ASSUME NEW regs, NEW addr, NEW qty, Runs(regs, addr, qty)
        PROVE  /\ IInv'
               /\ commanded' /\ holding'[CommandCode] = 0
               /\ config' # config /\ stale' = {}
                    => saveDev' /\ (config'.sensor # config.sensor => saveSensor')
    <3>1. /\ config' \in Configs
          /\ slave' = config'.id
          /\ saveDev' \in BOOLEAN /\ saveSensor' \in BOOLEAN
          /\ holding' \in [Registers -> Values]
          /\ stale' \subseteq Mirrored
          /\ commanded'
          /\ holding'[CommandCode] = 0
          /\ \A r \in Mirrored \ stale' : holding'[r] = Shows(config', r)
          /\ config' # config /\ stale' = {}
               => saveDev' /\ (config'.sensor # config.sensor => saveSensor')
      BY <1>1, <2>4, CommandFacts
    <3>2. slave' \in Ids /\ commanded' \in BOOLEAN
      BY <2>4, <3>1 DEF Configs, Runs
    <3>3. TypeOK'
      BY <2>2, <3>1, <3>2 DEF TypeOK, Configs
    <3>4. AnswersAsAddressed' /\ RegistersShowConfig'
      BY <2>2, <3>1 DEF AnswersAsAddressed, RegistersShowConfig, Shows
    <3>5. QED
      BY <3>1, <3>3, <3>4 DEF IInv
  <2>5. QED
    BY <2>1, <2>3, <2>4
<1>4. QED
  BY <1>2, <1>3

(* The invariant holds throughout.                                         *)
LEMMA InvHolds == Spec => []IInv
<1>1. IInv /\ [Next]_vars => IInv'
  BY InvNext
<1>2. QED
  BY <1>1, InvInit, PTL DEF Spec

(* Registers and flags keep their type.                                    *)
THEOREM TypeCorrect == Spec => []TypeOK
<1>1. IInv => TypeOK
  BY DEF IInv
<1>2. QED
  BY <1>1, InvHolds, PTL

(* The device answers under the name it was asked by, whatever ids it is   *)
(* given.                                                                  *)
THEOREM AnswersMatch == Spec => []AnswersAsAddressed
<1>1. IInv => AnswersAsAddressed
  BY DEF IInv
<1>2. QED
  BY <1>1, InvHolds, PTL

(* Registers and configuration agree where the master left them alone.     *)
THEOREM RegistersAgree == Spec => []RegistersShowConfig
<1>1. IInv => RegistersShowConfig
  BY DEF IInv
<1>2. QED
  BY <1>1, InvHolds, PTL

(* Only the frame that carries a command runs it, and it runs once.        *)
THEOREM CommandsAreConsumed == Spec => CommandsRunOnce
<1>1. IInv /\ [Next]_vars
        => [config' # config => commanded' /\ holding'[CommandCode] = 0]_vars
  BY InvNext
<1>2. QED
  BY <1>1, InvHolds, PTL DEF Spec, CommandsRunOnce

(* An accepted command is never forgotten.                                 *)
THEOREM AcceptedIsKept == Spec => AcceptedIsPending
<1>1. IInv /\ [Next]_vars
        => [config' # config /\ stale' = {}
              => saveDev' /\ (config'.sensor # config.sensor => saveSensor')]_vars
  BY InvNext
<1>2. QED
  BY <1>1, InvHolds, PTL DEF Spec, AcceptedIsPending
=============================================================================
