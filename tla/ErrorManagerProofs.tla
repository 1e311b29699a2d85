------------------------- MODULE ErrorManagerProofs -------------------------
(***************************************************************************)
(* The safety properties of ErrorManager for every counter width and every *)
(* choice of thresholds.                                                   *)
(***************************************************************************)
EXTENDS ErrorManager, TLAPS

(* The counters keep their type, and what process() does to a record of    *)
(* the right type is another one with the same counters.                   *)
LEMMA IncrementedInCount ==
    ASSUME NEW count \in Count
    PROVE  /\ Incremented(count) \in Count
           /\ count <= Incremented(count)
           /\ Incremented(count) # 0
BY ErrorConstants DEF Incremented, Count, Thresholds

(* Saturation is monotone: two counters incremented together keep their    *)
(* order.                                                                  *)
LEMMA IncrementedMonotone ==
    ASSUME NEW low \in Count, NEW high \in Count, low <= high
    PROVE  /\ Incremented(low) <= Incremented(high)
           /\ low <= Incremented(high)
BY ErrorConstants DEF Incremented, Count

(* process() keeps the type.                                               *)
LEMMA ProcessedKeepsType ==
    ASSUME NEW e \in ErrorState
    PROVE  Processed(e) \in ErrorState
<1>1. WantsRecovery(e) \in BOOLEAN /\ IsFatal(e) \in BOOLEAN
  BY DEF WantsRecovery, IsFatal
<1>2. QED
  BY <1>1 DEF Processed, ErrorState

(* No report takes the state out of its type.                              *)
THEOREM TypeCorrect == Spec => []TypeOK
<1>1. Init => TypeOK
  BY ErrorConstants DEF Init, TypeOK, ErrorInit, TotalInit, ErrorState, TotalState, Count
<1>2. TypeOK /\ [Next]_vars => TypeOK'
  <2> SUFFICES ASSUME TypeOK, [Next]_vars
               PROVE  TypeOK'
    OBVIOUS
  <2> USE DEF TypeOK
  <2>1. 0 \in Count
    BY ErrorConstants DEF Count
  <2>2. CASE Initialize
    BY <2>1, <2>2 DEF Initialize, ErrorInit, TotalInit, ErrorState, TotalState
  <2>3. CASE Process
    BY <2>3, ProcessedKeepsType DEF Process
  <2>4. CASE ReportI2cSuccess
    BY <2>1, <2>4 DEF ReportI2cSuccess, AfterI2cSuccess, ErrorState
  <2>5. ASSUME NEW status \in I2cErrorStatus, ReportI2cError(status)
        PROVE  TypeOK'
    <3>1. CountedI2cError(err, status) \in ErrorState
      BY IncrementedInCount DEF CountedI2cError, ErrorState
    <3>2. QED
      BY <2>5, <3>1, ProcessedKeepsType DEF ReportI2cError, AfterI2cError
  <2>6. CASE ReportSensorReadFailure
    <3>1. [err EXCEPT !.consecutiveSensorReadFail = Incremented(@)] \in ErrorState
      BY IncrementedInCount DEF ErrorState
    <3>2. total' \in TotalState
      BY <2>6, IncrementedInCount DEF ReportSensorReadFailure, TotalState
    <3>3. QED
      BY <2>6, <3>1, <3>2, ProcessedKeepsType
      DEF ReportSensorReadFailure, AfterSensorReadFailure
  <2>7. CASE ReportSensorReadSuccess
    BY <2>1, <2>7 DEF ReportSensorReadSuccess, AfterSensorReadSuccess, ErrorState
  <2>8. CASE ReportCrcError
    BY <2>8, IncrementedInCount DEF ReportCrcError, TotalState
  <2>9. CASE ReportValidModbusFrame
    BY <2>1, <2>9 DEF ReportValidModbusFrame, AfterValidModbusFrame, ErrorState
  <2>10. CASE ReportUartOverflow
    <3>1. [err EXCEPT !.consecutiveUartOverflow = Incremented(@)] \in ErrorState
      BY IncrementedInCount DEF ErrorState
    <3>2. total' \in TotalState
      BY <2>10, IncrementedInCount DEF ReportUartOverflow, TotalState
    <3>3. QED
      BY <2>10, <3>1, <3>2, ProcessedKeepsType DEF ReportUartOverflow, AfterUartOverflow
  <2>11. ASSUME NEW success \in BOOLEAN, ReportI2cRecovery(success)
         PROVE  TypeOK'
    <3>1. [err EXCEPT !.timeoutCount = 0, !.busErrorCount = 0,
                      !.consecutiveRecoveryFail = 0,
                      !.recoveryRequested = FALSE, !.recoveryDone = TRUE] \in ErrorState
      BY <2>1 DEF ErrorState
    <3>2. [err EXCEPT !.consecutiveRecoveryFail = Incremented(@)] \in ErrorState
      BY IncrementedInCount DEF ErrorState
    <3>3. total' \in TotalState
      BY <2>11, IncrementedInCount DEF ReportI2cRecovery, TotalState
    <3>4. err' \in ErrorState
      BY <2>11, <3>1, <3>2, ProcessedKeepsType DEF ReportI2cRecovery, AfterI2cRecovery
    <3>5. QED
      BY <3>3, <3>4
  <2>12. CASE ReportWatchdogReset
    BY <2>12, IncrementedInCount DEF ReportWatchdogReset, TotalState
  <2>13. CASE ReportFlashSaveFailure
    <3>1. [err EXCEPT !.consecutiveFlashSaveFail = Incremented(@)] \in ErrorState
      BY IncrementedInCount DEF ErrorState
    <3>2. total' \in TotalState
      BY <2>13, IncrementedInCount DEF ReportFlashSaveFailure, TotalState
    <3>3. QED
      BY <2>13, <3>1, <3>2, ProcessedKeepsType
      DEF ReportFlashSaveFailure, AfterFlashSaveFailure
  <2>14. CASE ReportFlashSaveSuccess
    BY <2>1, <2>14 DEF ReportFlashSaveSuccess, AfterFlashSaveSuccess, ErrorState
  <2>15. CASE ClearRecoveryRequest
    BY <2>15 DEF ClearRecoveryRequest, AfterRecoveryRequestCleared, ErrorState
  <2>16. CASE MarkRecoveryDone
    BY <2>16 DEF MarkRecoveryDone, AfterRecoveryMarkedDone, ErrorState
  <2>17. CASE UNCHANGED vars
    BY <2>17 DEF vars
  <2>18. QED
    BY <2>2, <2>3, <2>4, <2>5, <2>6, <2>7, <2>8, <2>9, <2>10, <2>11, <2>12,
       <2>13, <2>14, <2>15, <2>16, <2>17 DEF Next
<1>3. QED
  BY <1>1, <1>2, PTL DEF Spec

-----------------------------------------------------------------------------
(* process() leaves every counter alone, raises the request exactly when   *)
(* recovery is wanted and latches exactly the critical verdict.            *)
LEMMA ProcessedFacts ==
    ASSUME NEW e \in ErrorState
    PROVE  LET p == Processed(e) IN
           /\ p.consecutiveSensorReadFail = e.consecutiveSensorReadFail
           /\ p.consecutiveUartOverflow   = e.consecutiveUartOverflow
           /\ p.consecutiveRecoveryFail   = e.consecutiveRecoveryFail
           /\ p.consecutiveFlashSaveFail  = e.consecutiveFlashSaveFail
           /\ p.timeoutCount              = e.timeoutCount
           /\ p.busErrorCount             = e.busErrorCount
           /\ p.recoveryRequested <=> (e.recoveryRequested \/ WantsRecovery(e))
           /\ p.fatalFault <=> (e.fatalFault \/ IsFatal(e))
           /\ IsFatal(p) <=> IsFatal(e)
<1>1. WantsRecovery(e) \in BOOLEAN /\ IsFatal(e) \in BOOLEAN
  BY DEF WantsRecovery, IsFatal
<1>2. QED
  BY <1>1 DEF Processed, ErrorState, IsFatal

(* The inductive invariant: the three safety properties need each other.   *)
(* FatalHasCause at the step that latches is RunWithinTotal applied to the *)
(* run that reached its threshold, and ThresholdLatches is what makes the  *)
(* verdict depend on nothing but the latch once the run restarts.          *)
IInv == TypeOK /\ RunWithinTotal /\ ThresholdLatches /\ FatalHasCause

(* The totals compared with thresholds are numbers.                        *)
LEMMA TotalsAreNumbers ==
    ASSUME NEW t \in TotalState
    PROVE  t.i2cRecovery \in Nat /\ t.uartOverflow \in Nat /\ t.flashSaveFail \in Nat
<1>1. Count \subseteq Nat
  BY ErrorConstants DEF Count
<1>2. t.i2cRecovery \in Count /\ t.uartOverflow \in Count /\ t.flashSaveFail \in Count
  BY DEF TotalState
<1>3. QED
  BY <1>1, <1>2

(* What a report that ends in process() has to show: raised is the record  *)
(* it hands to process(), all of it within the totals after the step.      *)
LEMMA ProcessedStep ==
    ASSUME IInv, TypeOK',
           NEW raised \in ErrorState,
           err' = Processed(raised),
           raised.fatalFault = err.fatalFault,
           raised.consecutiveSensorReadFail <= total'.sensorReadFail,
           raised.consecutiveUartOverflow   <= total'.uartOverflow,
           raised.consecutiveRecoveryFail   <= total'.i2cRecovery,
           raised.consecutiveFlashSaveFail  <= total'.flashSaveFail,
           total.i2cRecovery   <= total'.i2cRecovery,
           total.uartOverflow  <= total'.uartOverflow,
           total.flashSaveFail <= total'.flashSaveFail
    PROVE  IInv'
<1>1. RunWithinTotal'
  BY ProcessedFacts DEF RunWithinTotal
<1>2. ThresholdLatches'
  BY ProcessedFacts DEF ThresholdLatches
<1>3. FatalHasCause'
  <2> SUFFICES ASSUME err'.fatalFault
               PROVE  \/ total'.i2cRecovery   >= I2cRecoveryFailThreshold
                      \/ total'.uartOverflow  >= UartOverflowThreshold
                      \/ total'.flashSaveFail >= FlashSaveFailThreshold
    BY DEF FatalHasCause
  <2> USE ErrorConstants DEF Thresholds, Count, IInv, TypeOK, TotalState, ErrorState
  <2>1. CASE err.fatalFault
    BY <2>1 DEF FatalHasCause
  <2>2. CASE IsFatal(raised)
    BY <2>2 DEF IsFatal
  <2>3. QED
    BY <2>1, <2>2, ProcessedFacts
<1>4. QED
  BY <1>1, <1>2, <1>3 DEF IInv

(* RunWithinTotal, ThresholdLatches and FatalHasCause hold of every        *)
(* sequence of reports.                                                    *)
THEOREM Safety == Spec => [](RunWithinTotal /\ ThresholdLatches /\ FatalHasCause)
<1>1. Init => IInv
  <2> SUFFICES ASSUME Init PROVE IInv
    OBVIOUS
  <2>1. TypeOK
    BY ErrorConstants DEF Init, TypeOK, ErrorInit, TotalInit, ErrorState, TotalState, Count
  <2>2. RunWithinTotal /\ FatalHasCause
    BY DEF Init, ErrorInit, TotalInit, RunWithinTotal, FatalHasCause
  <2>3. ThresholdLatches
    BY ErrorConstants DEF Init, ErrorInit, ThresholdLatches, IsFatal, Thresholds
  <2>4. QED
    BY <2>1, <2>2, <2>3 DEF IInv
<1>2. IInv /\ TypeOK' /\ [Next]_vars => IInv'
  <2> SUFFICES ASSUME IInv, TypeOK', [Next]_vars
               PROVE  IInv'
    OBVIOUS
  <2> USE DEF IInv
  <2>0. 0 \in Count /\ Count \subseteq Nat
    BY ErrorConstants DEF Count
  <2>1. TypeOK /\ RunWithinTotal /\ ThresholdLatches /\ FatalHasCause
    OBVIOUS
  <2>2. CASE Initialize
    BY <2>2, ErrorConstants
    DEF Initialize, ErrorInit, TotalInit, RunWithinTotal, FatalHasCause,
        ThresholdLatches, IsFatal, Thresholds
  <2>3. CASE Process
    <3>1. /\ err \in ErrorState
          /\ err' = Processed(err)
          /\ total' = total
      BY <2>3 DEF Process, TypeOK
    <3>2. /\ total.i2cRecovery   <= total'.i2cRecovery
          /\ total.uartOverflow  <= total'.uartOverflow
          /\ total.flashSaveFail <= total'.flashSaveFail
      BY <3>1, TotalsAreNumbers DEF TypeOK
    <3>3. QED
      BY <3>1, <3>2, ProcessedStep DEF RunWithinTotal
  <2>4. CASE ReportI2cSuccess
    BY <2>4, <2>0, ErrorConstants
    DEF ReportI2cSuccess, AfterI2cSuccess, TypeOK, ErrorState, TotalState,
        RunWithinTotal, ThresholdLatches, FatalHasCause, IsFatal, Thresholds
  <2>5. ASSUME NEW status \in I2cErrorStatus, ReportI2cError(status)
        PROVE  IInv'
    <3> DEFINE raised == CountedI2cError(err, status)
    <3>1. /\ raised \in ErrorState
          /\ raised.fatalFault = err.fatalFault
          /\ raised.consecutiveSensorReadFail = err.consecutiveSensorReadFail
          /\ raised.consecutiveUartOverflow   = err.consecutiveUartOverflow
          /\ raised.consecutiveRecoveryFail   = err.consecutiveRecoveryFail
          /\ raised.consecutiveFlashSaveFail  = err.consecutiveFlashSaveFail
      BY IncrementedInCount DEF CountedI2cError, TypeOK, ErrorState
    <3>2. err' = Processed(raised) /\ total' = total
      BY <2>5 DEF ReportI2cError, AfterI2cError
    <3> HIDE DEF raised
    <3>3. /\ total.i2cRecovery   <= total'.i2cRecovery
          /\ total.uartOverflow  <= total'.uartOverflow
          /\ total.flashSaveFail <= total'.flashSaveFail
      BY <3>2, TotalsAreNumbers DEF TypeOK
    <3>4. QED
      BY <3>1, <3>2, <3>3, ProcessedStep DEF RunWithinTotal
  <2>6. CASE ReportSensorReadFailure
    <3> DEFINE raised == [err EXCEPT !.consecutiveSensorReadFail = Incremented(@)]
    <3>1. raised \in ErrorState
      BY IncrementedInCount DEF TypeOK, ErrorState
    <3>2. /\ err' = Processed(raised)
          /\ total' = [total EXCEPT !.sensorReadFail = Incremented(@)]
      BY <2>6 DEF ReportSensorReadFailure, AfterSensorReadFailure
    <3>3. raised.consecutiveSensorReadFail <= total'.sensorReadFail
      BY <3>2, IncrementedMonotone DEF RunWithinTotal, TypeOK, ErrorState, TotalState
    <3>4. /\ raised.fatalFault = err.fatalFault
          /\ raised.consecutiveUartOverflow   <= total'.uartOverflow
          /\ raised.consecutiveRecoveryFail   <= total'.i2cRecovery
          /\ raised.consecutiveFlashSaveFail  <= total'.flashSaveFail
          /\ total.i2cRecovery   <= total'.i2cRecovery
          /\ total.uartOverflow  <= total'.uartOverflow
          /\ total.flashSaveFail <= total'.flashSaveFail
      BY <3>2, <2>0 DEF RunWithinTotal, TypeOK, ErrorState, TotalState
    <3> HIDE DEF raised
    <3>5. QED
      BY <3>1, <3>2, <3>3, <3>4, ProcessedStep
  <2>7. CASE ReportSensorReadSuccess
    BY <2>7, <2>0
    DEF ReportSensorReadSuccess, AfterSensorReadSuccess, TypeOK, ErrorState, TotalState,
        RunWithinTotal, ThresholdLatches, FatalHasCause, IsFatal
  <2>8. CASE ReportCrcError
    BY <2>8 DEF ReportCrcError, TypeOK, TotalState, RunWithinTotal, ThresholdLatches,
                FatalHasCause, IsFatal
  <2>9. CASE ReportValidModbusFrame
    BY <2>9, <2>0, ErrorConstants
    DEF ReportValidModbusFrame, AfterValidModbusFrame, TypeOK, ErrorState, TotalState,
        RunWithinTotal, ThresholdLatches, FatalHasCause, IsFatal, Thresholds
  <2>10. CASE ReportUartOverflow
    <3> DEFINE raised == [err EXCEPT !.consecutiveUartOverflow = Incremented(@)]
    <3>1. raised \in ErrorState
      BY IncrementedInCount DEF TypeOK, ErrorState
    <3>2. /\ err' = Processed(raised)
          /\ total' = [total EXCEPT !.uartOverflow = Incremented(@)]
      BY <2>10 DEF ReportUartOverflow, AfterUartOverflow
    <3>3. /\ raised.consecutiveUartOverflow <= total'.uartOverflow
          /\ total.uartOverflow <= total'.uartOverflow
      BY <3>2, IncrementedMonotone, IncrementedInCount
      DEF RunWithinTotal, TypeOK, ErrorState, TotalState
    <3>4. /\ raised.fatalFault = err.fatalFault
          /\ raised.consecutiveSensorReadFail <= total'.sensorReadFail
          /\ raised.consecutiveRecoveryFail   <= total'.i2cRecovery
          /\ raised.consecutiveFlashSaveFail  <= total'.flashSaveFail
          /\ total.i2cRecovery   <= total'.i2cRecovery
          /\ total.flashSaveFail <= total'.flashSaveFail
      BY <3>2, <2>0 DEF RunWithinTotal, TypeOK, ErrorState, TotalState
    <3> HIDE DEF raised
    <3>5. QED
      BY <3>1, <3>2, <3>3, <3>4, ProcessedStep
  <2>11. ASSUME NEW success \in BOOLEAN, ReportI2cRecovery(success)
         PROVE  IInv'
    <3> DEFINE raised ==
          IF success
          THEN [err EXCEPT !.timeoutCount = 0, !.busErrorCount = 0,
                           !.consecutiveRecoveryFail = 0,
                           !.recoveryRequested = FALSE, !.recoveryDone = TRUE]
          ELSE [err EXCEPT !.consecutiveRecoveryFail = Incremented(@)]
    <3>1. raised \in ErrorState
      BY <2>0, IncrementedInCount DEF TypeOK, ErrorState
    <3>2. /\ err' = Processed(raised)
          /\ total' = [total EXCEPT !.i2cRecovery = Incremented(@)]
      BY <2>11 DEF ReportI2cRecovery, AfterI2cRecovery
    <3>3. /\ raised.consecutiveRecoveryFail <= total'.i2cRecovery
          /\ total.i2cRecovery <= total'.i2cRecovery
      <4>1. /\ total'.i2cRecovery = Incremented(total.i2cRecovery)
            /\ total'.i2cRecovery \in Nat
            /\ total.i2cRecovery <= Incremented(total.i2cRecovery)
        BY <3>2, <2>0, IncrementedInCount DEF TypeOK, TotalState
      <4>2. CASE success
        BY <4>1, <4>2 DEF TypeOK, ErrorState
      <4>3. CASE ~success
        BY <4>1, <4>3, IncrementedMonotone DEF RunWithinTotal, TypeOK, ErrorState, TotalState
      <4>4. QED
        BY <4>2, <4>3
    <3>4. /\ raised.fatalFault = err.fatalFault
          /\ raised.consecutiveSensorReadFail <= total'.sensorReadFail
          /\ raised.consecutiveUartOverflow   <= total'.uartOverflow
          /\ raised.consecutiveFlashSaveFail  <= total'.flashSaveFail
          /\ total.uartOverflow  <= total'.uartOverflow
          /\ total.flashSaveFail <= total'.flashSaveFail
      BY <3>2, <2>0 DEF RunWithinTotal, TypeOK, ErrorState, TotalState
    <3> HIDE DEF raised
    <3>5. QED
      BY <3>1, <3>2, <3>3, <3>4, ProcessedStep
  <2>12. CASE ReportWatchdogReset
    BY <2>12 DEF ReportWatchdogReset, TypeOK, TotalState, RunWithinTotal,
                 ThresholdLatches, FatalHasCause, IsFatal
  <2>13. CASE ReportFlashSaveFailure
    <3> DEFINE raised == [err EXCEPT !.consecutiveFlashSaveFail = Incremented(@)]
    <3>1. raised \in ErrorState
      BY IncrementedInCount DEF TypeOK, ErrorState
    <3>2. /\ err' = Processed(raised)
          /\ total' = [total EXCEPT !.flashSaveFail = Incremented(@)]
      BY <2>13 DEF ReportFlashSaveFailure, AfterFlashSaveFailure
    <3>3. /\ raised.consecutiveFlashSaveFail <= total'.flashSaveFail
          /\ total.flashSaveFail <= total'.flashSaveFail
      BY <3>2, IncrementedMonotone, IncrementedInCount
      DEF RunWithinTotal, TypeOK, ErrorState, TotalState
    <3>4. /\ raised.fatalFault = err.fatalFault
          /\ raised.consecutiveSensorReadFail <= total'.sensorReadFail
          /\ raised.consecutiveUartOverflow   <= total'.uartOverflow
          /\ raised.consecutiveRecoveryFail   <= total'.i2cRecovery
          /\ total.i2cRecovery  <= total'.i2cRecovery
          /\ total.uartOverflow <= total'.uartOverflow
      BY <3>2, <2>0 DEF RunWithinTotal, TypeOK, ErrorState, TotalState
    <3> HIDE DEF raised
    <3>5. QED
      BY <3>1, <3>2, <3>3, <3>4, ProcessedStep
  <2>14. CASE ReportFlashSaveSuccess
    BY <2>14, <2>0, ErrorConstants
    DEF ReportFlashSaveSuccess, AfterFlashSaveSuccess, TypeOK, ErrorState, TotalState,
        RunWithinTotal, ThresholdLatches, FatalHasCause, IsFatal, Thresholds
  <2>15. CASE ClearRecoveryRequest
    BY <2>15 DEF ClearRecoveryRequest, AfterRecoveryRequestCleared, TypeOK, ErrorState,
                 RunWithinTotal, ThresholdLatches, FatalHasCause, IsFatal
  <2>16. CASE MarkRecoveryDone
    BY <2>16 DEF MarkRecoveryDone, AfterRecoveryMarkedDone, TypeOK, ErrorState,
                 RunWithinTotal, ThresholdLatches, FatalHasCause, IsFatal
  <2>17. CASE UNCHANGED vars
    BY <2>17 DEF vars, TypeOK, RunWithinTotal, ThresholdLatches, FatalHasCause, IsFatal
  <2>18. QED
    BY <2>2, <2>3, <2>4, <2>5, <2>6, <2>7, <2>8, <2>9, <2>10, <2>11, <2>12,
       <2>13, <2>14, <2>15, <2>16, <2>17 DEF Next
<1>3. QED
  BY <1>1, <1>2, TypeCorrect, PTL DEF Spec, IInv

(* The latch is explained by the totals of the critical failures.          *)
THEOREM LatchHasCause == Spec => []FatalHasCause
BY Safety, PTL

(* No critical counter stands at its threshold with the latch open.        *)
THEOREM ThresholdsLatch == Spec => []ThresholdLatches
BY Safety, PTL

-----------------------------------------------------------------------------
(* The latch opens in initialize() and nowhere else.                       *)
THEOREM LatchStays == Spec => FatalIsLatched
<1>1. TypeOK /\ [Next]_vars =>
        [err.fatalFault /\ ~err'.fatalFault => err' = ErrorInit /\ total' = TotalInit]_vars
  <2> SUFFICES ASSUME TypeOK, Next, err.fatalFault, ~Initialize
               PROVE  err'.fatalFault
    BY DEF Initialize
  <2>1. err \in ErrorState
    BY DEF TypeOK
  <2>2. ASSUME NEW e \in ErrorState, e.fatalFault
        PROVE  Processed(e).fatalFault
    BY <2>2, ProcessedFacts
  <2>3. CASE Process
    BY <2>1, <2>2, <2>3 DEF Process
  <2>4. CASE ReportI2cSuccess
    BY <2>1, <2>4 DEF ReportI2cSuccess, AfterI2cSuccess, ErrorState
  <2>5. ASSUME NEW status \in I2cErrorStatus, ReportI2cError(status)
        PROVE  err'.fatalFault
    <3>1. /\ CountedI2cError(err, status) \in ErrorState
          /\ CountedI2cError(err, status).fatalFault
      BY <2>1, IncrementedInCount DEF CountedI2cError, ErrorState
    <3>2. QED
      BY <2>2, <2>5, <3>1 DEF ReportI2cError, AfterI2cError
  <2>6. CASE ReportSensorReadFailure
    <3>1. /\ [err EXCEPT !.consecutiveSensorReadFail = Incremented(@)] \in ErrorState
          /\ [err EXCEPT !.consecutiveSensorReadFail = Incremented(@)].fatalFault
      BY <2>1, IncrementedInCount DEF ErrorState
    <3>2. QED
      BY <2>2, <2>6, <3>1 DEF ReportSensorReadFailure, AfterSensorReadFailure
  <2>7. CASE ReportSensorReadSuccess
    BY <2>1, <2>7 DEF ReportSensorReadSuccess, AfterSensorReadSuccess, ErrorState
  <2>8. CASE ReportCrcError \/ ReportWatchdogReset
    BY <2>8 DEF ReportCrcError, ReportWatchdogReset
  <2>9. CASE ReportValidModbusFrame
    BY <2>1, <2>9 DEF ReportValidModbusFrame, AfterValidModbusFrame, ErrorState
  <2>10. CASE ReportUartOverflow
    <3>1. /\ [err EXCEPT !.consecutiveUartOverflow = Incremented(@)] \in ErrorState
          /\ [err EXCEPT !.consecutiveUartOverflow = Incremented(@)].fatalFault
      BY <2>1, IncrementedInCount DEF ErrorState
    <3>2. QED
      BY <2>2, <2>10, <3>1 DEF ReportUartOverflow, AfterUartOverflow
  <2>11. ASSUME NEW success \in BOOLEAN, ReportI2cRecovery(success)
         PROVE  err'.fatalFault
    <3> DEFINE raised ==
          IF success
          THEN [err EXCEPT !.timeoutCount = 0, !.busErrorCount = 0,
                           !.consecutiveRecoveryFail = 0,
                           !.recoveryRequested = FALSE, !.recoveryDone = TRUE]
          ELSE [err EXCEPT !.consecutiveRecoveryFail = Incremented(@)]
    <3>1. 0 \in Count
      BY ErrorConstants DEF Count
    <3>2. raised \in ErrorState /\ raised.fatalFault
      BY <2>1, <3>1, IncrementedInCount DEF ErrorState
    <3>3. err' = Processed(raised)
      BY <2>11 DEF ReportI2cRecovery, AfterI2cRecovery
    <3> HIDE DEF raised
    <3>4. QED
      BY <2>2, <3>2, <3>3
  <2>12. CASE ReportFlashSaveFailure
    <3>1. /\ [err EXCEPT !.consecutiveFlashSaveFail = Incremented(@)] \in ErrorState
          /\ [err EXCEPT !.consecutiveFlashSaveFail = Incremented(@)].fatalFault
      BY <2>1, IncrementedInCount DEF ErrorState
    <3>2. QED
      BY <2>2, <2>12, <3>1 DEF ReportFlashSaveFailure, AfterFlashSaveFailure
  <2>13. CASE ReportFlashSaveSuccess
    BY <2>1, <2>13 DEF ReportFlashSaveSuccess, AfterFlashSaveSuccess, ErrorState
  <2>14. CASE ClearRecoveryRequest
    BY <2>1, <2>14 DEF ClearRecoveryRequest, AfterRecoveryRequestCleared, ErrorState
  <2>15. CASE MarkRecoveryDone
    BY <2>1, <2>15 DEF MarkRecoveryDone, AfterRecoveryMarkedDone, ErrorState
  <2>16. QED
    BY <2>3, <2>4, <2>5, <2>6, <2>7, <2>8, <2>9, <2>10, <2>11, <2>12, <2>13,
       <2>14, <2>15 DEF Next
<1>2. QED
  BY <1>1, TypeCorrect, PTL DEF Spec, FatalIsLatched

-----------------------------------------------------------------------------
(* A sum of counters that fits a byte is not changed by the narrowing.     *)
LEMMA SumFits ==
    ASSUME NEW e \in ErrorState,
           e.timeoutCount + e.busErrorCount \in I2cRecoveryThreshold .. CounterMax
    PROVE  WantsRecovery(e)
<1>1. /\ e.timeoutCount + e.busErrorCount \in 0 .. CounterMax
      /\ CounterMax + 1 \in Nat \ {0}
  BY ErrorConstants DEF ErrorState, Count, Thresholds
<1>2. ASSUME NEW sum \in Nat, NEW width \in Nat \ {0}, sum < width
      PROVE  sum % width = sum
  BY <1>2, Z3
<1>3. SevereI2c(e) = e.timeoutCount + e.busErrorCount
  <2> DEFINE sum == e.timeoutCount + e.busErrorCount
             width == CounterMax + 1
  <2>1. sum \in Nat /\ width \in Nat \ {0} /\ sum < width
    BY <1>1, ErrorConstants
  <2>2. SevereI2c(e) = sum % width
    BY DEF SevereI2c
  <2> HIDE DEF sum, width
  <2>3. SevereI2c(e) = sum
    BY <1>2, <2>1, <2>2
  <2>4. QED
    BY <2>3 DEF sum
<1>4. QED
  BY <1>3, ErrorConstants DEF WantsRecovery, Thresholds

(* The counters whose rise can call for a recovery do not rise.            *)
NoRise == /\ err'.consecutiveSensorReadFail <= err.consecutiveSensorReadFail
          /\ err'.timeoutCount <= err.timeoutCount
          /\ err'.busErrorCount <= err.busErrorCount

(* The same failure is reported to the counters and to process() in one    *)
(* call, so the request it calls for is there when the call returns, for   *)
(* every threshold and as long as the sum of timeouts and bus errors fits. *)
THEOREM FailureRequests == Spec => RepeatedFailureRequestsRecovery
<1> DEFINE Called == \/ /\ err'.consecutiveSensorReadFail > err.consecutiveSensorReadFail
                        /\ err'.consecutiveSensorReadFail >= SensorFailThreshold
                     \/ /\ err'.timeoutCount + err'.busErrorCount
                             > err.timeoutCount + err.busErrorCount
                        /\ err'.timeoutCount + err'.busErrorCount
                             \in I2cRecoveryThreshold .. CounterMax
<1>1. ASSUME TypeOK, TypeOK', Next
      PROVE  Called => err'.recoveryRequested
  <2>1. err \in ErrorState /\ err' \in ErrorState
    BY <1>1 DEF TypeOK
  <2>2. /\ {err.consecutiveSensorReadFail, err.timeoutCount, err.busErrorCount} \subseteq Nat
        /\ {err'.consecutiveSensorReadFail, err'.timeoutCount, err'.busErrorCount} \subseteq Nat
    BY <2>1, ErrorConstants DEF ErrorState, Count
  <2>3. NoRise => ~Called
    BY <2>2 DEF NoRise
  <2>4. CASE ReportSensorReadFailure
    <3> DEFINE counted == [err EXCEPT !.consecutiveSensorReadFail = Incremented(@)]
    <3>1. counted \in ErrorState /\ err' = Processed(counted)
      BY <2>1, <2>4, IncrementedInCount
         DEF ErrorState, ReportSensorReadFailure, AfterSensorReadFailure
    <3>2. /\ counted.timeoutCount = err.timeoutCount
          /\ counted.busErrorCount = err.busErrorCount
      BY <2>1 DEF ErrorState
    <3> HIDE DEF counted
    <3>3. /\ err'.consecutiveSensorReadFail = counted.consecutiveSensorReadFail
          /\ err'.timeoutCount = err.timeoutCount
          /\ err'.busErrorCount = err.busErrorCount
          /\ WantsRecovery(counted) => err'.recoveryRequested
      BY <3>1, <3>2, ProcessedFacts
    <3>4. Called => counted.consecutiveSensorReadFail >= SensorFailThreshold
      BY <2>2, <3>3
    <3>5. QED
      BY <3>3, <3>4 DEF WantsRecovery
  <2>5. ASSUME NEW status \in I2cErrorStatus, ReportI2cError(status)
        PROVE  Called => err'.recoveryRequested
    <3> DEFINE counted == CountedI2cError(err, status)
    <3>1. counted \in ErrorState /\ err' = Processed(counted)
      BY <2>1, <2>5, IncrementedInCount
         DEF CountedI2cError, ErrorState, ReportI2cError, AfterI2cError
    <3>2. counted.consecutiveSensorReadFail = err.consecutiveSensorReadFail
      BY <2>1 DEF CountedI2cError, ErrorState
    <3> HIDE DEF counted
    <3>3. /\ err'.consecutiveSensorReadFail = err.consecutiveSensorReadFail
          /\ err'.timeoutCount = counted.timeoutCount
          /\ err'.busErrorCount = counted.busErrorCount
          /\ WantsRecovery(counted) => err'.recoveryRequested
      BY <3>1, <3>2, ProcessedFacts
    <3>4. Called => counted.timeoutCount + counted.busErrorCount
                      \in I2cRecoveryThreshold .. CounterMax
      BY <2>2, <3>3
    <3>5. QED
      BY <3>1, <3>3, <3>4, SumFits
  <2>6. ASSUME NEW success \in BOOLEAN, ReportI2cRecovery(success)
        PROVE  NoRise
    <3> DEFINE counted ==
          IF success
          THEN [err EXCEPT !.timeoutCount = 0, !.busErrorCount = 0,
                           !.consecutiveRecoveryFail = 0,
                           !.recoveryRequested = FALSE, !.recoveryDone = TRUE]
          ELSE [err EXCEPT !.consecutiveRecoveryFail = Incremented(@)]
    <3>1. 0 \in Count
      BY ErrorConstants DEF Count
    <3>2. counted \in ErrorState /\ err' = Processed(counted)
      BY <2>1, <2>6, <3>1, IncrementedInCount
         DEF ErrorState, ReportI2cRecovery, AfterI2cRecovery
    <3>3. /\ counted.consecutiveSensorReadFail = err.consecutiveSensorReadFail
          /\ counted.timeoutCount \in {0, err.timeoutCount}
          /\ counted.busErrorCount \in {0, err.busErrorCount}
      BY <2>1 DEF ErrorState
    <3> HIDE DEF counted
    <3>4. QED
      BY <2>2, <3>2, <3>3, ProcessedFacts DEF NoRise
  <2>7. CASE ReportUartOverflow \/ ReportFlashSaveFailure \/ Process
    <3>1. PICK counted \in { err,
                             [err EXCEPT !.consecutiveUartOverflow = Incremented(@)],
                             [err EXCEPT !.consecutiveFlashSaveFail = Incremented(@)] } :
             err' = Processed(counted)
      BY <2>7 DEF ReportUartOverflow, AfterUartOverflow, ReportFlashSaveFailure,
                  AfterFlashSaveFailure, Process
    <3>2. /\ counted \in ErrorState
          /\ counted.consecutiveSensorReadFail = err.consecutiveSensorReadFail
          /\ counted.timeoutCount = err.timeoutCount
          /\ counted.busErrorCount = err.busErrorCount
      BY <2>1, <3>1, IncrementedInCount DEF ErrorState
    <3>3. NoRise
      BY <2>2, <3>1, <3>2, ProcessedFacts DEF NoRise
    <3>4. QED
      BY <2>3, <3>3
  <2>8. CASE \/ Initialize \/ ReportI2cSuccess \/ ReportSensorReadSuccess
             \/ ReportCrcError \/ ReportWatchdogReset \/ ReportValidModbusFrame
             \/ ReportFlashSaveSuccess \/ ClearRecoveryRequest \/ MarkRecoveryDone
    <3>1. /\ err'.consecutiveSensorReadFail \in {0, err.consecutiveSensorReadFail}
          /\ err'.timeoutCount \in {0, err.timeoutCount}
          /\ err'.busErrorCount \in {0, err.busErrorCount}
      <4>1. CASE Initialize
        BY <4>1 DEF Initialize, ErrorInit
      <4>2. CASE ReportI2cSuccess
        BY <2>1, <4>2 DEF ReportI2cSuccess, AfterI2cSuccess, ErrorState
      <4>3. CASE ReportSensorReadSuccess
        BY <2>1, <4>3 DEF ReportSensorReadSuccess, AfterSensorReadSuccess, ErrorState
      <4>4. CASE ReportCrcError \/ ReportWatchdogReset
        BY <4>4 DEF ReportCrcError, ReportWatchdogReset
      <4>5. CASE ReportValidModbusFrame
        BY <2>1, <4>5 DEF ReportValidModbusFrame, AfterValidModbusFrame, ErrorState
      <4>6. CASE ReportFlashSaveSuccess
        BY <2>1, <4>6 DEF ReportFlashSaveSuccess, AfterFlashSaveSuccess, ErrorState
      <4>7. CASE ClearRecoveryRequest
        BY <2>1, <4>7 DEF ClearRecoveryRequest, AfterRecoveryRequestCleared, ErrorState
      <4>8. CASE MarkRecoveryDone
        BY <2>1, <4>8 DEF MarkRecoveryDone, AfterRecoveryMarkedDone, ErrorState
      <4>9. QED
        BY <2>8, <4>1, <4>2, <4>3, <4>4, <4>5, <4>6, <4>7, <4>8
    <3>2. NoRise
      BY <2>2, <3>1 DEF NoRise
    <3>3. QED
      BY <2>3, <3>2
  <2>9. QED
    BY <1>1, <2>3, <2>4, <2>5, <2>6, <2>7, <2>8 DEF Next
<1>2. TypeOK /\ TypeOK' /\ [Next]_vars => [Called => err'.recoveryRequested]_vars
  BY <1>1
<1>3. QED
  BY <1>2, TypeCorrect, PTL DEF Spec, RepeatedFailureRequestsRecovery
=============================================================================
