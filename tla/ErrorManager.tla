---------------------------- MODULE ErrorManager ----------------------------
(***************************************************************************)
(* Services/Src/ErrorManager.cpp: one action for each public operation     *)
(* that changes state, called in any order.  err steers the program, total *)
(* holds the diagnostic counters the Modbus registers show.                *)
(***************************************************************************)
EXTENDS ErrorOps

VARIABLES err, total

vars == <<err, total>>

TotalState == [ crc           : Count,
                sensorReadFail: Count,
                uartOverflow  : Count,
                i2cRecovery   : Count,
                watchdogReset : Count,
                flashSaveFail : Count ]

TotalInit == [ crc            |-> 0,
               sensorReadFail |-> 0,
               uartOverflow   |-> 0,
               i2cRecovery    |-> 0,
               watchdogReset  |-> 0,
               flashSaveFail  |-> 0 ]

Init == /\ err = ErrorInit
        /\ total = TotalInit

-----------------------------------------------------------------------------
Initialize == /\ err' = ErrorInit
              /\ total' = TotalInit

Process == /\ err' = Processed(err)
           /\ UNCHANGED total

ReportI2cSuccess == /\ err' = AfterI2cSuccess(err)
                    /\ UNCHANGED total

ReportI2cError(status) == /\ err' = AfterI2cError(err, status)
                          /\ UNCHANGED total

ReportSensorReadFailure ==
    /\ err' = AfterSensorReadFailure(err)
    /\ total' = [total EXCEPT !.sensorReadFail = Incremented(@)]

ReportSensorReadSuccess == /\ err' = AfterSensorReadSuccess(err)
                           /\ UNCHANGED total

ReportCrcError == /\ total' = [total EXCEPT !.crc = Incremented(@)]
                  /\ UNCHANGED err

ReportValidModbusFrame == /\ err' = AfterValidModbusFrame(err)
                          /\ UNCHANGED total

ReportUartOverflow ==
    /\ err' = AfterUartOverflow(err)
    /\ total' = [total EXCEPT !.uartOverflow = Incremented(@)]

ReportI2cRecovery(success) ==
    /\ err' = AfterI2cRecovery(err, success)
    /\ total' = [total EXCEPT !.i2cRecovery = Incremented(@)]

ReportWatchdogReset ==
    /\ total' = [total EXCEPT !.watchdogReset = Incremented(@)]
    /\ UNCHANGED err

ReportFlashSaveFailure ==
    /\ err' = AfterFlashSaveFailure(err)
    /\ total' = [total EXCEPT !.flashSaveFail = Incremented(@)]

ReportFlashSaveSuccess == /\ err' = AfterFlashSaveSuccess(err)
                          /\ UNCHANGED total

ClearRecoveryRequest == /\ err' = AfterRecoveryRequestCleared(err)
                        /\ UNCHANGED total

MarkRecoveryDone == /\ err' = AfterRecoveryMarkedDone(err)
                    /\ UNCHANGED total

Next == \/ Initialize
        \/ Process
        \/ ReportI2cSuccess
        \/ \E status \in I2cErrorStatus : ReportI2cError(status)
        \/ ReportSensorReadFailure
        \/ ReportSensorReadSuccess
        \/ ReportCrcError
        \/ ReportValidModbusFrame
        \/ ReportUartOverflow
        \/ \E success \in BOOLEAN : ReportI2cRecovery(success)
        \/ ReportWatchdogReset
        \/ ReportFlashSaveFailure
        \/ ReportFlashSaveSuccess
        \/ ClearRecoveryRequest
        \/ MarkRecoveryDone

Spec == Init /\ [][Next]_vars

-----------------------------------------------------------------------------
(* The counters stay within a byte and the flags are Boolean.              *)
TypeOK == /\ err \in ErrorState
          /\ total \in TotalState

(* A run of consecutive failures is part of the failures ever counted: no  *)
(* order of reports, resets of the run and saturation of either counter    *)
(* makes the diagnostic total lag behind the run it contains.              *)
RunWithinTotal ==
    /\ err.consecutiveSensorReadFail <= total.sensorReadFail
    /\ err.consecutiveUartOverflow   <= total.uartOverflow
    /\ err.consecutiveRecoveryFail   <= total.i2cRecovery
    /\ err.consecutiveFlashSaveFail  <= total.flashSaveFail

(* reportCrcError promises that noisy frames are "diagnosable, not fatal"; *)
(* the same goes for NACKs, failed sensor reads and watchdog resets.  The  *)
(* latch, however old, is explained by enough failures of one of the three *)
(* critical kinds.                                                         *)
FatalHasCause ==
    err.fatalFault => \/ total.i2cRecovery   >= I2cRecoveryFailThreshold
                      \/ total.uartOverflow  >= UartOverflowThreshold
                      \/ total.flashSaveFail >= FlashSaveFailThreshold

(* A critical counter never stands at its threshold with the latch open:   *)
(* every report that raises one also evaluates it, so the watchdog is      *)
(* starved from the very report that reaches the threshold.                *)
ThresholdLatches == IsFatal(err) => err.fatalFault

(* Only initialize() opens the latch.  In particular the successes that    *)
(* restart a run of failures do not take the verdict back.                 *)
FatalIsLatched ==
    [][err.fatalFault /\ ~err'.fatalFault => err' = ErrorInit /\ total' = TotalInit]_vars

(* The report that brings a recoverable counter to its threshold leaves a  *)
(* recovery request behind (as long as the sum of timeouts and bus errors  *)
(* fits a byte), even if an earlier request for the same run was cleared.  *)
RepeatedFailureRequestsRecovery ==
    [][ \/ /\ err'.consecutiveSensorReadFail > err.consecutiveSensorReadFail
           /\ err'.consecutiveSensorReadFail >= SensorFailThreshold
        \/ /\ err'.timeoutCount + err'.busErrorCount > err.timeoutCount + err.busErrorCount
           /\ err'.timeoutCount + err'.busErrorCount \in I2cRecoveryThreshold .. CounterMax
        => err'.recoveryRequested ]_vars

(* test_error_manager_extended.cpp, TC-ERROR-008: "successful recovery     *)
(* clears recovery request".  Refuted: reportI2cRecovery(true) ends with   *)
(* process(), which raises the request again while the run of failed       *)
(* sensor reads is at its threshold.                                       *)
SuccessfulRecoveryClearsRequest ==
    [][ReportI2cRecovery(TRUE) => ~err'.recoveryRequested]_vars
=============================================================================
