------------------------------ MODULE ErrorOps ------------------------------
(***************************************************************************)
(* What each report of ErrorManager does to the part of its state that     *)
(* steers the program: the I2C error counters, the consecutive-failure     *)
(* counters and the three flags.  The diagnostic totals, which nothing in  *)
(* the program branches on, are in ErrorManager.                           *)
(*                                                                         *)
(* The operators are pure (record to record) so that the error manager on  *)
(* its own, the sensor service and the main loop share them.               *)
(***************************************************************************)
EXTENDS Integers

CONSTANTS
    CounterMax,                 \* largest value of a counter (255: uint8_t)
    I2cRecoveryThreshold,       \* 3: timeouts and bus errors
    SensorFailThreshold,        \* 3: consecutive sensor read failures
    UartOverflowThreshold,      \* 5: consecutive frame queue overflows
    I2cRecoveryFailThreshold,   \* 2: consecutive failed bus recoveries
    FlashSaveFailThreshold      \* 3: consecutive failed flash saves

Thresholds == { I2cRecoveryThreshold, SensorFailThreshold,
                UartOverflowThreshold, I2cRecoveryFailThreshold,
                FlashSaveFailThreshold }

(* Every threshold is a value its counter reaches, and no counter starts   *)
(* at its threshold.                                                       *)
ASSUME ErrorConstants == /\ CounterMax \in Nat
                         /\ Thresholds \subseteq 1 .. CounterMax

Count == 0 .. CounterMax

I2cErrorStatus == {"Timeout", "Nack", "BusError", "InvalidArgument"}
I2cStatus == I2cErrorStatus \cup {"Ok"}

ErrorState == [ timeoutCount              : Count,
                nackCount                 : Count,
                busErrorCount             : Count,
                consecutiveSensorReadFail : Count,
                consecutiveUartOverflow   : Count,
                consecutiveRecoveryFail   : Count,
                consecutiveFlashSaveFail  : Count,
                recoveryRequested         : BOOLEAN,
                recoveryDone              : BOOLEAN,
                fatalFault                : BOOLEAN ]

ErrorInit == [ timeoutCount              |-> 0,
               nackCount                 |-> 0,
               busErrorCount             |-> 0,
               consecutiveSensorReadFail |-> 0,
               consecutiveUartOverflow   |-> 0,
               consecutiveRecoveryFail   |-> 0,
               consecutiveFlashSaveFail  |-> 0,
               recoveryRequested         |-> FALSE,
               recoveryDone              |-> FALSE,
               fatalFault                |-> FALSE ]

(* incrementSaturated *)
Incremented(count) == IF count < CounterMax THEN count + 1 ELSE count

(* severeI2cCount: the sum is narrowed to the width of one counter.        *)
SevereI2c(e) == (e.timeoutCount + e.busErrorCount) % (CounterMax + 1)

(* Variant: > for >=.                                                      *)
WantsRecoveryLate(e) == \/ SevereI2c(e) > I2cRecoveryThreshold
                        \/ e.consecutiveSensorReadFail > SensorFailThreshold

WantsRecovery(e) == \/ SevereI2c(e) >= I2cRecoveryThreshold
                    \/ e.consecutiveSensorReadFail >= SensorFailThreshold

(* Variant: sensor failures count as critical.                             *)
FatalOnSensor(e) == \/ e.consecutiveRecoveryFail >= I2cRecoveryFailThreshold
                    \/ e.consecutiveUartOverflow >= UartOverflowThreshold
                    \/ e.consecutiveFlashSaveFail >= FlashSaveFailThreshold
                    \/ e.consecutiveSensorReadFail >= SensorFailThreshold

IsFatal(e) == \/ e.consecutiveRecoveryFail >= I2cRecoveryFailThreshold
              \/ e.consecutiveUartOverflow >= UartOverflowThreshold
              \/ e.consecutiveFlashSaveFail >= FlashSaveFailThreshold

(* Variant: the fatal flag follows the counters.                           *)
ProcessedWithoutLatch(e) == [e EXCEPT !.recoveryRequested = @ \/ WantsRecovery(e),
                                      !.fatalFault        = IsFatal(e)]

(* process(): flags are only ever raised here.                             *)
Processed(e) == [e EXCEPT !.recoveryRequested = @ \/ WantsRecovery(e),
                          !.fatalFault        = @ \/ IsFatal(e)]

-----------------------------------------------------------------------------
AfterI2cSuccess(e) == [e EXCEPT !.timeoutCount            = 0,
                                !.nackCount               = 0,
                                !.busErrorCount           = 0,
                                !.consecutiveRecoveryFail = 0]

CountedI2cError(e, status) ==
    CASE status = "Timeout"  -> [e EXCEPT !.timeoutCount  = Incremented(@)]
      [] status = "Nack"     -> [e EXCEPT !.nackCount     = Incremented(@)]
      [] status = "BusError" -> [e EXCEPT !.busErrorCount = Incremented(@)]
      [] OTHER               -> e

AfterI2cError(e, status) == Processed(CountedI2cError(e, status))

AfterSensorReadFailure(e) ==
    Processed([e EXCEPT !.consecutiveSensorReadFail = Incremented(@)])

(* Variant: a success takes one failure back.                              *)
SensorSuccessDecrements(e) == [e EXCEPT !.consecutiveSensorReadFail = @ - 1]

AfterSensorReadSuccess(e) == [e EXCEPT !.consecutiveSensorReadFail = 0]

AfterValidModbusFrame(e) == [e EXCEPT !.consecutiveUartOverflow = 0]

AfterUartOverflow(e) ==
    Processed([e EXCEPT !.consecutiveUartOverflow = Incremented(@)])

AfterI2cRecovery(e, success) ==
    Processed(IF success
              THEN [e EXCEPT !.timeoutCount            = 0,
                             !.busErrorCount           = 0,
                             !.consecutiveRecoveryFail = 0,
                             !.recoveryRequested       = FALSE,
                             !.recoveryDone            = TRUE]
              ELSE [e EXCEPT !.consecutiveRecoveryFail = Incremented(@)])

(* Variant: the call of process() is missing.                              *)
FlashFailureUnprocessed(e) == [e EXCEPT !.consecutiveFlashSaveFail = Incremented(@)]

AfterFlashSaveFailure(e) ==
    Processed([e EXCEPT !.consecutiveFlashSaveFail = Incremented(@)])

AfterFlashSaveSuccess(e) == [e EXCEPT !.consecutiveFlashSaveFail = 0]

AfterRecoveryRequestCleared(e) == [e EXCEPT !.recoveryRequested = FALSE]

AfterRecoveryMarkedDone(e) == [e EXCEPT !.recoveryRequested = FALSE,
                                        !.recoveryDone      = TRUE]
=============================================================================
