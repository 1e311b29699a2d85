-------------------------- MODULE ApplicationProofs -------------------------
(***************************************************************************)
(* The safety of the main loop for every choice of thresholds, counter     *)
(* width, queue size, watchdog period and configurations.                  *)
(*                                                                         *)
(* The loop is safe because of the order of its calls: one frame is taken  *)
(* before one is served, and a bus is recovered right after the sensor     *)
(* call that may have found it broken.  The invariant says at which call   *)
(* which excess may exist.                                                 *)
(***************************************************************************)
EXTENDS Application, TLAPS

(* The arithmetic of thresholds and counters.                              *)
LEMMA CountersFit ==
    /\ CounterMax \in Nat
    /\ \A threshold \in Thresholds : threshold \in Nat \ {0} /\ threshold <= CounterMax
    /\ 0 \in Count
    /\ Count \subseteq Nat
    /\ \A count \in Count : Incremented(count) \in Count /\ Incremented(count) <= count + 1
BY ErrorConstants DEF Count, Incremented

(* The sum severeI2cCount narrows, before it is narrowed.                  *)
Severe(e) == e.timeoutCount + e.busErrorCount

(* Neither the queue nor a recovery has failed.                            *)
Calm(e) == e.consecutiveUartOverflow = 0 /\ e.consecutiveRecoveryFail = 0

(* A request is out by the time the I2C counters reach the threshold.      *)
Alarmed(e) == /\ Severe(e) <= I2cRecoveryThreshold
              /\ Severe(e) = I2cRecoveryThreshold => e.recoveryRequested

(* Only saves that failed can have raised the latch from e to f.           *)
LatchedByFlash(e, f) ==
    f.fatalFault => e.fatalFault \/ f.consecutiveFlashSaveFail >= FlashSaveFailThreshold

(* What every report of the sensor service makes of e, except that an I2C  *)
(* error adds to the sum.                                                  *)
Follows(e, f) ==
    /\ f \in ErrorState
    /\ Calm(f)
    /\ LatchedByFlash(e, f)
    /\ f.consecutiveFlashSaveFail = e.consecutiveFlashSaveFail
    /\ e.recoveryRequested => f.recoveryRequested
    /\ Severe(f) <= Severe(e)

(* The counters of the record are numbers, and so is the sum.              *)
LEMMA SevereIsNumber ==
    ASSUME NEW e \in ErrorState
    PROVE  /\ e.timeoutCount \in Count /\ e.busErrorCount \in Count
           /\ e.timeoutCount \in Nat /\ e.busErrorCount \in Nat
           /\ Severe(e) \in Nat
<1>1. e.timeoutCount \in Count /\ e.busErrorCount \in Count
  BY DEF ErrorState
<1>2. e.timeoutCount \in Nat /\ e.busErrorCount \in Nat
  BY <1>1, CountersFit
<1>3. QED
  BY <1>1, <1>2 DEF Severe

(* Reports come one after the other.                                       *)
LEMMA FollowsTransitive ==
    ASSUME NEW e \in ErrorState, NEW f \in ErrorState, NEW g, Follows(e, f), Follows(f, g)
    PROVE  Follows(e, g)
<1>1. Severe(e) \in Nat /\ Severe(f) \in Nat /\ Severe(g) \in Nat
  BY SevereIsNumber DEF Follows
<1>2. QED
  BY <1>1 DEF Follows, LatchedByFlash

(* A request that was out stays out, and the sum does not grow.            *)
LEMMA AlarmedKept ==
    ASSUME NEW e \in ErrorState, NEW f \in ErrorState, Alarmed(e), Follows(e, f)
    PROVE  Alarmed(f)
<1>1. Severe(e) \in Nat /\ Severe(f) \in Nat /\ I2cRecoveryThreshold \in Nat
  BY SevereIsNumber, CountersFit DEF Thresholds
<1>2. QED
  BY <1>1 DEF Follows, Alarmed

(* process() of a calm record latches for failed saves only.               *)
LEMMA ProcessedFollows ==
    ASSUME NEW e \in ErrorState, Calm(e)
    PROVE  /\ Follows(e, Processed(e))
           /\ WantsRecovery(e) => Processed(e).recoveryRequested
<1>1. WantsRecovery(e) \in BOOLEAN /\ IsFatal(e) \in BOOLEAN
  BY DEF WantsRecovery, IsFatal
<1>2. IsFatal(e) => e.consecutiveFlashSaveFail >= FlashSaveFailThreshold
  BY CountersFit DEF IsFatal, Calm, Thresholds
<1>3. Processed(e) = [e EXCEPT !.recoveryRequested = e.recoveryRequested \/ WantsRecovery(e),
                               !.fatalFault        = e.fatalFault \/ IsFatal(e)]
  BY DEF Processed
<1>4. /\ Processed(e) \in ErrorState
      /\ Processed(e).recoveryRequested = (e.recoveryRequested \/ WantsRecovery(e))
      /\ Processed(e).fatalFault = (e.fatalFault \/ IsFatal(e))
      /\ Processed(e).consecutiveFlashSaveFail = e.consecutiveFlashSaveFail
      /\ Processed(e).timeoutCount = e.timeoutCount
      /\ Processed(e).busErrorCount = e.busErrorCount
      /\ Calm(Processed(e))
  BY <1>1, <1>3 DEF ErrorState, Calm
<1>5. Severe(Processed(e)) = Severe(e) /\ Severe(e) \in Nat
  BY <1>4, SevereIsNumber DEF Severe
<1>6. Severe(Processed(e)) <= Severe(e)
  BY <1>5
<1>7. LatchedByFlash(e, Processed(e))
  BY <1>1, <1>2, <1>4 DEF LatchedByFlash
<1>8. QED
  BY <1>1, <1>4, <1>6, <1>7 DEF Follows

(* The reports of a transfer that succeeded and of a reading.              *)
LEMMA SuccessFollows ==
    ASSUME NEW e \in ErrorState, Calm(e)
    PROVE  /\ Follows(e, AfterI2cSuccess(e))
           /\ Follows(e, AfterSensorReadSuccess(e))
           /\ Follows(e, AfterSensorReadFailure(e))
<1>0. Severe(e) \in Nat /\ Severe(e) <= Severe(e)
  BY SevereIsNumber
<1>1. Follows(e, AfterI2cSuccess(e))
  <2>1. AfterI2cSuccess(e) \in ErrorState
    BY CountersFit DEF AfterI2cSuccess, ErrorState
  <2>2. Severe(AfterI2cSuccess(e)) = 0
    BY DEF AfterI2cSuccess, Severe, ErrorState
  <2>3. QED
    BY <1>0, <2>1, <2>2 DEF AfterI2cSuccess, Follows, Calm, LatchedByFlash, ErrorState
<1>2. Follows(e, AfterSensorReadSuccess(e))
  <2>1. AfterSensorReadSuccess(e) \in ErrorState
    BY CountersFit DEF AfterSensorReadSuccess, ErrorState
  <2>2. Severe(AfterSensorReadSuccess(e)) = Severe(e)
    BY DEF AfterSensorReadSuccess, Severe, ErrorState
  <2>3. QED
    BY <1>0, <2>1, <2>2 DEF AfterSensorReadSuccess, Follows, Calm, LatchedByFlash, ErrorState
<1>3. Follows(e, AfterSensorReadFailure(e))
  <2> DEFINE counted == [e EXCEPT !.consecutiveSensorReadFail =
                                      Incremented(e.consecutiveSensorReadFail)]
  <2>1. Follows(e, counted)
    <3>1. counted \in ErrorState
      BY CountersFit DEF ErrorState
    <3>2. Severe(counted) = Severe(e)
      BY DEF Severe, ErrorState
    <3>3. QED
      BY <1>0, <3>1, <3>2 DEF Follows, Calm, LatchedByFlash, ErrorState
  <2>2. Follows(counted, Processed(counted))
    BY <2>1, ProcessedFollows DEF Follows
  <2>3. AfterSensorReadFailure(e) = Processed(counted)
    BY DEF AfterSensorReadFailure
  <2>4. counted \in ErrorState
    BY <2>1 DEF Follows
  <2> HIDE DEF counted
  <2>5. QED
    BY <2>1, <2>2, <2>3, <2>4, FollowsTransitive
<1>4. QED
  BY <1>1, <1>2, <1>3

(* The report of a transfer that failed, from below the threshold.         *)
LEMMA ErrorAlarms ==
    ASSUME NEW e \in ErrorState, Calm(e), NEW status \in I2cErrorStatus,
           Severe(e) < I2cRecoveryThreshold
    PROVE  LET f == AfterI2cError(e, status) IN
           /\ f \in ErrorState
           /\ Calm(f)
           /\ LatchedByFlash(e, f)
           /\ f.consecutiveFlashSaveFail = e.consecutiveFlashSaveFail
           /\ Alarmed(f)
<1> DEFINE counted == CountedI2cError(e, status)
<1>1. /\ counted \in ErrorState
      /\ Calm(counted)
      /\ counted.fatalFault = e.fatalFault
      /\ counted.consecutiveFlashSaveFail = e.consecutiveFlashSaveFail
      /\ counted.timeoutCount \in Count /\ counted.busErrorCount \in Count
      /\ \/ /\ counted.timeoutCount = Incremented(e.timeoutCount)
            /\ counted.busErrorCount = e.busErrorCount
         \/ /\ counted.timeoutCount = e.timeoutCount
            /\ counted.busErrorCount = Incremented(e.busErrorCount)
         \/ /\ counted.timeoutCount = e.timeoutCount
            /\ counted.busErrorCount = e.busErrorCount
  <2>1. CASE status = "Timeout"
    BY <2>1, CountersFit DEF CountedI2cError, ErrorState, Calm
  <2>2. CASE status = "Nack"
    BY <2>2, CountersFit DEF CountedI2cError, ErrorState, Calm
  <2>3. CASE status = "BusError"
    BY <2>3, CountersFit DEF CountedI2cError, ErrorState, Calm
  <2>4. CASE status = "InvalidArgument"
    BY <2>4, CountersFit DEF CountedI2cError, ErrorState, Calm
  <2>5. QED
    BY <2>1, <2>2, <2>3, <2>4 DEF I2cErrorStatus
<1> HIDE DEF counted
<1>2. Severe(counted) \in Nat /\ Severe(counted) <= Severe(e) + 1 /\ Severe(e) \in Nat
  <2>1. /\ e.timeoutCount \in Count /\ e.busErrorCount \in Count
        /\ e.timeoutCount \in Nat /\ e.busErrorCount \in Nat
        /\ counted.timeoutCount \in Nat /\ counted.busErrorCount \in Nat
    BY <1>1, SevereIsNumber
  <2>2. /\ Incremented(e.timeoutCount) \in Nat
        /\ Incremented(e.timeoutCount) <= e.timeoutCount + 1
        /\ Incremented(e.busErrorCount) \in Nat
        /\ Incremented(e.busErrorCount) <= e.busErrorCount + 1
    BY <2>1, CountersFit
  <2>3. QED
    BY <1>1, <2>1, <2>2 DEF Severe
<1>3. I2cRecoveryThreshold \in Nat /\ I2cRecoveryThreshold <= CounterMax
  BY CountersFit DEF Thresholds
<1>4. Severe(counted) <= I2cRecoveryThreshold
  BY <1>2, <1>3
<1>5. SevereI2c(counted) = Severe(counted)
  BY <1>2, <1>3, <1>4, CountersFit DEF SevereI2c, Severe
<1>6. Severe(counted) = I2cRecoveryThreshold => WantsRecovery(counted)
  BY <1>3, <1>5 DEF WantsRecovery
<1>7. Follows(counted, Processed(counted))
      /\ (WantsRecovery(counted) => Processed(counted).recoveryRequested)
  BY <1>1, ProcessedFollows
<1>8. Severe(Processed(counted)) \in Nat /\ Severe(Processed(counted)) <= Severe(counted)
  BY <1>1, <1>7, SevereIsNumber DEF Follows
<1>9. Alarmed(Processed(counted))
  BY <1>2, <1>3, <1>4, <1>6, <1>7, <1>8 DEF Alarmed
<1>10. AfterI2cError(e, status) = Processed(counted)
  BY DEF AfterI2cError, counted
<1>11. QED
  BY <1>1, <1>7, <1>9, <1>10 DEF Follows, LatchedByFlash

-----------------------------------------------------------------------------
(* The three reports a sensor call can consist of, and process() at its    *)
(* end.                                                                    *)
LEMMA SensorCallAlarms ==
    ASSUME NEW e \in ErrorState, Calm(e), Severe(e) < I2cRecoveryThreshold, NEW f,
           \/ f = e
           \/ f = AfterI2cSuccess(e)
           \/ \E status \in I2cErrorStatus : f = AfterI2cError(e, status)
           \/ \E status \in I2cErrorStatus : f = AfterSensorReadFailure(AfterI2cError(e, status))
           \/ f = AfterSensorReadFailure(AfterI2cSuccess(e))
           \/ f = AfterSensorReadSuccess(AfterI2cSuccess(e))
    PROVE  LET g == Processed(f) IN
           g \in ErrorState /\ Calm(g) /\ LatchedByFlash(e, g) /\ Alarmed(g)
<1> DEFINE Good(g) == /\ g \in ErrorState
                      /\ Calm(g)
                      /\ LatchedByFlash(e, g)
                      /\ g.consecutiveFlashSaveFail = e.consecutiveFlashSaveFail
                      /\ Alarmed(g)
<1>1. ASSUME NEW g, NEW h, Good(g), Follows(g, h)
      PROVE  Good(h)
  BY <1>1, AlarmedKept DEF Follows, LatchedByFlash
<1>2. Good(e)
  BY SevereIsNumber, CountersFit DEF Alarmed, LatchedByFlash, Thresholds
<1>3. \A status \in I2cErrorStatus : Good(AfterI2cError(e, status))
  BY ErrorAlarms
<1>4. ASSUME NEW g, Good(g)
      PROVE  /\ Good(AfterI2cSuccess(g))
             /\ Good(AfterSensorReadSuccess(g))
             /\ Good(AfterSensorReadFailure(g))
             /\ Good(Processed(g))
  <2>1. g \in ErrorState /\ Calm(g)
    BY <1>4
  <2>2. /\ Follows(g, AfterI2cSuccess(g))
        /\ Follows(g, AfterSensorReadSuccess(g))
        /\ Follows(g, AfterSensorReadFailure(g))
        /\ Follows(g, Processed(g))
    BY <2>1, SuccessFollows, ProcessedFollows
  <2> HIDE DEF Good
  <2>3. QED
    BY <1>1, <1>4, <2>2
<1>5. Good(Processed(f))
  <2> HIDE DEF Good
  <2>1. Good(f)
    BY <1>2, <1>3, <1>4
  <2>2. QED
    BY <1>4, <2>1
<1>6. QED
  BY <1>5

(* Reports of a save.  A request may come out of the one that failed.      *)
LEMMA SaveReports ==
    ASSUME NEW e \in ErrorState, Calm(e)
    PROVE  /\ AfterFlashSaveSuccess(e) \in ErrorState
           /\ Calm(AfterFlashSaveSuccess(e))
           /\ LatchedByFlash(e, AfterFlashSaveSuccess(e))
           /\ Severe(AfterFlashSaveSuccess(e)) = Severe(e)
           /\ AfterFlashSaveFailure(e) \in ErrorState
           /\ Calm(AfterFlashSaveFailure(e))
           /\ LatchedByFlash(e, AfterFlashSaveFailure(e))
           /\ Severe(AfterFlashSaveFailure(e)) <= Severe(e)
<1> DEFINE counted == [e EXCEPT !.consecutiveFlashSaveFail =
                                    Incremented(e.consecutiveFlashSaveFail)]
<1>1. AfterFlashSaveSuccess(e) \in ErrorState
  BY CountersFit DEF AfterFlashSaveSuccess, ErrorState
<1>2. /\ Calm(AfterFlashSaveSuccess(e))
      /\ LatchedByFlash(e, AfterFlashSaveSuccess(e))
      /\ Severe(AfterFlashSaveSuccess(e)) = Severe(e)
  BY DEF AfterFlashSaveSuccess, ErrorState, Calm, LatchedByFlash, Severe
<1>3. counted \in ErrorState
  BY CountersFit DEF ErrorState
<1>4. Calm(counted) /\ Severe(counted) = Severe(e) /\ counted.fatalFault = e.fatalFault
  BY DEF Calm, Severe, ErrorState
<1>5. AfterFlashSaveFailure(e) = Processed(counted)
  BY DEF AfterFlashSaveFailure
<1> HIDE DEF counted
<1>6. Follows(counted, Processed(counted))
  BY <1>3, <1>4, ProcessedFollows
<1>7. QED
  BY <1>1, <1>2, <1>4, <1>5, <1>6 DEF Follows, LatchedByFlash

(* A recovery takes the sum to zero and the request back, though process() *)
(* may raise it once more before it is marked as done.                     *)
LEMMA RecoveryServes ==
    ASSUME NEW e \in ErrorState, Calm(e)
    PROVE  LET f == AfterRecoveryMarkedDone(AfterI2cRecovery(e, TRUE)) IN
           /\ f \in ErrorState
           /\ Calm(f)
           /\ LatchedByFlash(e, f)
           /\ Severe(f) = 0
           /\ ~f.recoveryRequested
<1> DEFINE recovered == [e EXCEPT !.timeoutCount            = 0,
                                  !.busErrorCount           = 0,
                                  !.consecutiveRecoveryFail = 0,
                                  !.recoveryRequested       = FALSE,
                                  !.recoveryDone            = TRUE]
           p == Processed(recovered)
<1>1. recovered \in ErrorState
  BY CountersFit DEF ErrorState
<1>2. /\ Calm(recovered)
      /\ Severe(recovered) = 0
      /\ recovered.fatalFault = e.fatalFault
      /\ recovered.consecutiveFlashSaveFail = e.consecutiveFlashSaveFail
  BY DEF Calm, Severe, ErrorState
<1>3. AfterI2cRecovery(e, TRUE) = p
  BY DEF AfterI2cRecovery
<1> HIDE DEF recovered
<1>4. Follows(recovered, p)
  BY <1>1, <1>2, ProcessedFollows
<1> HIDE DEF p
<1>5. p \in ErrorState /\ Calm(p) /\ LatchedByFlash(e, p) /\ Severe(p) = 0
  <2>1. Severe(p) \in Nat
    BY <1>4, SevereIsNumber DEF Follows
  <2>2. QED
    BY <1>2, <1>4, <2>1 DEF Follows, LatchedByFlash
<1>6. AfterRecoveryMarkedDone(p) \in ErrorState
  BY <1>5 DEF AfterRecoveryMarkedDone, ErrorState
<1>7. /\ Calm(AfterRecoveryMarkedDone(p))
      /\ LatchedByFlash(e, AfterRecoveryMarkedDone(p))
      /\ Severe(AfterRecoveryMarkedDone(p)) = 0
      /\ ~AfterRecoveryMarkedDone(p).recoveryRequested
  BY <1>5 DEF AfterRecoveryMarkedDone, ErrorState, Calm, LatchedByFlash, Severe
<1>8. QED
  BY <1>3, <1>6, <1>7

-----------------------------------------------------------------------------
(* At most one frame is queued, and only until it is served.               *)
OneFrame == queued = 0 \/ (queued = 1 /\ pc = "serve")

(* The sum reaches its threshold in the sensor call only, and the request  *)
(* that then is out does not outlive the next call.                        *)
ErrorsInOrder ==
    /\ Calm(err)
    /\ IF pc = "recover" THEN Alarmed(err) ELSE Severe(err) < I2cRecoveryThreshold
    /\ err.recoveryRequested => pc \in {"sensor", "recover"}

(* The report of the reset is in the flag before the loop, then counted.   *)
ResetNoted ==
    IF Looping THEN watchdogResets = 1 <=> cause = "watchdog"
               ELSE iwdgFlag <=> cause = "watchdog"

(* Saves are begun only when one is outstanding; the loop is entered with  *)
(* what the sector holds, if anything can be loaded from there.            *)
RestartInv ==
    /\ pc = "bootSave" => stored \notin Loadable
    /\ pc = "init" => (stored \in Loadable => stored = ram)
    /\ pc = "saving" => Pending
    /\ RestartIsTransparent

(* The record at boot asks for nothing.                                    *)
LEMMA ErrInitCalm ==
    /\ ErrorInit \in ErrorState
    /\ Calm(ErrorInit)
    /\ Severe(ErrorInit) < I2cRecoveryThreshold
    /\ ~ErrorInit.recoveryRequested /\ ~ErrorInit.fatalFault
<1>1. ErrorInit \in ErrorState /\ Severe(ErrorInit) = 0
  BY CountersFit DEF ErrorInit, ErrorState, Severe
<1>2. QED
  BY <1>1, CountersFit DEF ErrorInit, Calm, Thresholds

(* A valid frame resets a run of overflows that is not there.              *)
LEMMA FrameReport ==
    ASSUME NEW e \in ErrorState, Calm(e)
    PROVE  AfterValidModbusFrame(e) = e
BY DEF AfterValidModbusFrame, Calm, ErrorState

(* Each step does to the error manager one of these things.                *)
LEMMA ErrorSteps ==
    ASSUME TypeOK, OneFrame, ErrorsInOrder, [Next]_vars
    PROVE  /\ err' \in ErrorState
           /\ ErrorsInOrder'
           /\ LatchedByFlash(err, err')
<1> DEFINE Goal == err' \in ErrorState /\ ErrorsInOrder' /\ LatchedByFlash(err, err')
<1>1. /\ err \in ErrorState
      /\ Calm(err)
      /\ Severe(err) \in Nat
      /\ I2cRecoveryThreshold \in Nat \ {0}
      /\ pc # "recover" => Severe(err) < I2cRecoveryThreshold
      /\ queued \in Nat
  BY SevereIsNumber, CountersFit DEF TypeOK, ErrorsInOrder, Thresholds
<1>2. ASSUME err' = err, pc' # "recover", pc # "recover",
             pc' \in {"sensor", "recover"} \/ pc \notin {"sensor", "recover"}
      PROVE  Goal
  BY <1>1, <1>2 DEF ErrorsInOrder, LatchedByFlash
<1>3. ASSUME err' = ErrorInit, pc' # "recover"
      PROVE  Goal
  BY <1>3, ErrInitCalm DEF ErrorsInOrder, LatchedByFlash
<1>4. CASE LoadStored \/ LoadDefaults \/ SaveDefaults
  BY <1>2, <1>4 DEF LoadStored, LoadDefaults, SaveDefaults, errors
<1>5. CASE Initialize
  BY <1>3, <1>5 DEF Initialize
<1>6. CASE NoFrame \/ QueueEmpty \/ NothingToSave \/ StartSave
  BY <1>2, <1>6 DEF NoFrame, QueueEmpty, NothingToSave, StartSave, errors
<1>7. CASE QueueFrame
  <2>1. queued < QueueSize
    BY <1>7, ApplicationConstants DEF QueueFrame, OneFrame
  <2>2. QED
    BY <1>2, <1>7, <2>1 DEF QueueFrame
<1>8. CASE BadFrame \/ OrdinaryFrame
           \/ (\E id \in Ids, base \in Bases : BaseSettings(id, base))
           \/ (\E settings \in Sensors : SensorSettings(settings))
  <2>1. err' = err /\ pc = "serve" /\ pc' = "save"
    BY <1>1, <1>8, FrameReport
    DEF BadFrame, OrdinaryFrame, BaseSettings, SensorSettings, ServedFrame, Dequeue
  <2>2. QED
    BY <1>2, <2>1
<1>9. CASE SaveOk
  BY <1>1, <1>9, SaveReports DEF SaveOk, ErrorsInOrder, AfterFlashSaveSuccess
<1>10. CASE SaveFailed
  <2>1. err' \in ErrorState /\ Severe(err') \in Nat
    BY <1>1, <1>10, SaveReports, SevereIsNumber DEF SaveFailed
  <2>2. QED
    BY <1>1, <1>10, <2>1, SaveReports DEF SaveFailed, ErrorsInOrder
<1>11. CASE SensorProcess
  <2>1. PICK f : /\ pc = "sensor" /\ pc' = "recover" /\ err' = Processed(f)
                 /\ \/ f = err
                    \/ f = AfterI2cSuccess(err)
                    \/ \E status \in I2cErrorStatus : f = AfterI2cError(err, status)
                    \/ \E status \in I2cErrorStatus :
                          f = AfterSensorReadFailure(AfterI2cError(err, status))
                    \/ f = AfterSensorReadFailure(AfterI2cSuccess(err))
                    \/ f = AfterSensorReadSuccess(AfterI2cSuccess(err))
    BY <1>11 DEF SensorProcess, SensorNotDue, TriggerSent, TriggerFailed, ReadFailed,
                 ReadImplausible, ReadGood, SensorCall
  <2>2. err' \in ErrorState /\ Calm(err') /\ LatchedByFlash(err, err') /\ Alarmed(err')
    BY <1>1, <2>1, SensorCallAlarms
  <2>3. QED
    BY <2>1, <2>2 DEF ErrorsInOrder
<1>12. CASE Recover
  <2>1. CASE ~err.recoveryRequested
    BY <1>1, <1>12, <2>1 DEF Recover, ErrorsInOrder, Alarmed, LatchedByFlash
  <2>2. CASE err.recoveryRequested
    <3>1. err' = AfterRecoveryMarkedDone(AfterI2cRecovery(err, TRUE)) /\ pc' = "feed"
      BY <1>12, <2>2 DEF Recover, RecoverBus
    <3>2. /\ err' \in ErrorState /\ Calm(err') /\ LatchedByFlash(err, err')
          /\ Severe(err') = 0 /\ ~err'.recoveryRequested
      BY <1>1, <3>1, RecoveryServes
    <3>3. Severe(err') < I2cRecoveryThreshold
      BY <1>1, <3>2
    <3>4. QED
      BY <3>1, <3>2, <3>3 DEF ErrorsInOrder
  <2>3. QED
    BY <2>1, <2>2
<1>13. CASE FeedWatchdog
  BY <1>2, <1>13 DEF FeedWatchdog, errors
<1>14. CASE WatchdogTick \/ UNCHANGED vars
  BY <1>1, <1>14 DEF WatchdogTick, vars, errors, ErrorsInOrder, LatchedByFlash
<1>15. CASE WatchdogReset \/ PowerLoss
  BY <1>3, <1>15 DEF WatchdogReset, PowerLoss, Restart
<1>16. QED
  BY <1>4, <1>5, <1>6, <1>7, <1>8, <1>9, <1>10, <1>11, <1>12, <1>13, <1>14, <1>15
  DEF Next, Boot, Step, Serve

-----------------------------------------------------------------------------
(* Queue and watchdog have room for something.                             *)
LEMMA BoundsFit ==
    /\ QueueSize \in Nat /\ QueueSize >= 1
    /\ Reload \in Nat /\ Reload >= 1
    /\ Default \in Configs
    /\ Nothing \notin Configs
    /\ Loadable \subseteq Configs
BY ApplicationConstants DEF Loadable

(* The types and the order of the errors are one induction: the queue has  *)
(* room, so no overflow is counted, so nothing but a sensor call raises a  *)
(* request.                                                                *)
LEMMA BaseHolds == Spec => [](TypeOK /\ OneFrame /\ ErrorsInOrder)
<1>1. Init => TypeOK /\ OneFrame /\ ErrorsInOrder
  <2> SUFFICES ASSUME Init PROVE TypeOK /\ OneFrame /\ ErrorsInOrder
    OBVIOUS
  <2>1. 0 \in 0 .. QueueSize /\ Reload \in 0 .. Reload
    BY BoundsFit
  <2>2. TypeOK
    BY <2>1, ErrInitCalm, BoundsFit DEF Init, TypeOK
  <2>3. OneFrame /\ ErrorsInOrder
    BY ErrInitCalm DEF Init, OneFrame, ErrorsInOrder
  <2>4. QED
    BY <2>2, <2>3
<1>2. TypeOK /\ OneFrame /\ ErrorsInOrder /\ [Next]_vars
        => TypeOK' /\ OneFrame' /\ ErrorsInOrder'
  <2> SUFFICES ASSUME TypeOK, OneFrame, ErrorsInOrder, [Next]_vars
               PROVE  TypeOK' /\ OneFrame' /\ ErrorsInOrder'
    OBVIOUS
  <2>1. err' \in ErrorState /\ ErrorsInOrder'
    BY ErrorSteps
  <2>2. OneFrame' /\ queued' \in 0 .. QueueSize
    <3>1. CASE QueueFrame
      BY <3>1, BoundsFit DEF QueueFrame, OneFrame, TypeOK
    <3>2. CASE Serve
      <4>1. \/ queued = 0 /\ queued' = queued
            \/ queued > 0 /\ queued' = queued - 1
        BY <3>2
        DEF Serve, QueueEmpty, BadFrame, OrdinaryFrame, BaseSettings, SensorSettings,
            ServedFrame, Dequeue
      <4>2. queued' = 0
        BY <4>1 DEF OneFrame
      <4>3. QED
        BY <4>2, BoundsFit DEF OneFrame
    <3>3. CASE UNCHANGED queued /\ pc # "serve"
      BY <3>3 DEF OneFrame, TypeOK
    <3>4. CASE UNCHANGED queued /\ pc' = pc
      BY <3>4 DEF OneFrame, TypeOK
    <3>5. CASE queued' = 0
      BY <3>5, BoundsFit DEF OneFrame
    <3>6. QED
      BY <3>1, <3>2, <3>3, <3>4, <3>5
      DEF Next, Boot, Step, LoadStored, LoadDefaults, SaveDefaults, Initialize, NoFrame,
          NothingToSave, StartSave, SaveOk, SaveFailed, SensorProcess, SensorCall,
          SensorNotDue, TriggerSent, TriggerFailed, ReadFailed, ReadImplausible, ReadGood,
          Recover, FeedWatchdog, WatchdogTick, WatchdogReset, PowerLoss, Restart, vars
  <2>3. /\ ram' \in Configs /\ stored' \in Configs \cup {Nothing}
        /\ saveDev' \in BOOLEAN /\ saveSensor' \in BOOLEAN /\ rejected' \in BOOLEAN
        /\ acked' \in BOOLEAN
    <3>1. Default \in Configs /\ Loadable \subseteq Configs
      BY BoundsFit
    <3>2. Unfinished \subseteq Configs \cup {Nothing}
      BY DEF Unfinished, TypeOK
    <3>3. ASSUME NEW id \in Ids, NEW base \in Bases, BaseSettings(id, base)
          PROVE  ram' \in Configs
      BY <3>3 DEF BaseSettings, Configs, TypeOK
    <3>4. ASSUME NEW settings \in Sensors, SensorSettings(settings)
          PROVE  ram' \in Configs
      BY <3>4 DEF SensorSettings, Configs, TypeOK
    <3>5. CASE UNCHANGED config
      BY <3>5 DEF config, TypeOK
    <3>6. CASE LoadStored \/ LoadDefaults \/ SaveDefaults
      BY <3>1, <3>2, <3>6 DEF LoadStored, LoadDefaults, SaveDefaults, TypeOK
    <3>7. CASE BadFrame \/ OrdinaryFrame
      BY <3>7 DEF BadFrame, OrdinaryFrame, ServedFrame, Dequeue, TypeOK
    <3>8. ASSUME NEW id \in Ids, NEW base \in Bases, BaseSettings(id, base)
          PROVE  stored' = stored /\ saveSensor' = saveSensor /\ acked' = acked
                 /\ saveDev' \in BOOLEAN /\ rejected' \in BOOLEAN
      BY <3>8 DEF BaseSettings, ServedFrame, Dequeue, TypeOK
    <3>9. ASSUME NEW settings \in Sensors, SensorSettings(settings)
          PROVE  stored' = stored /\ rejected' = rejected /\ acked' = acked
                 /\ saveDev' = TRUE /\ saveSensor' = TRUE
      BY <3>9 DEF SensorSettings, ServedFrame, Dequeue, TypeOK
    <3>10. CASE StartSave \/ SaveOk \/ SaveFailed
      BY <3>2, <3>10 DEF StartSave, SaveOk, SaveFailed, TypeOK
    <3>11. CASE Restart
      BY <3>1, <3>2, <3>11 DEF Restart, TypeOK
    <3>12. QED
      BY <3>3, <3>4, <3>5, <3>6, <3>7, <3>8, <3>9, <3>10, <3>11
      DEF Next, Boot, Step, Serve, Initialize, NoFrame, QueueFrame, QueueEmpty,
          NothingToSave, SensorProcess, SensorCall, SensorNotDue, TriggerSent,
          TriggerFailed, ReadFailed, ReadImplausible, ReadGood, Recover, FeedWatchdog,
          WatchdogTick, WatchdogReset, PowerLoss, config, vars, TypeOK
  <2>4. /\ pc' \in {"off", "bootSave", "init"} \cup LoopPhases
        /\ sensor' \in {"Trigger", "Read"}
    BY DEF Next, Boot, Step, Serve, LoadStored, LoadDefaults, SaveDefaults, Initialize,
        NoFrame, QueueFrame, QueueEmpty, BadFrame, OrdinaryFrame, BaseSettings,
        SensorSettings, ServedFrame, Dequeue, NothingToSave, StartSave, SaveOk, SaveFailed,
        SensorProcess, SensorCall, SensorNotDue, TriggerSent, TriggerFailed, ReadFailed,
        ReadImplausible, ReadGood, Recover, FeedWatchdog, WatchdogTick, WatchdogReset,
        PowerLoss, Restart, LoopPhases, vars, TypeOK
  <2>5. /\ watchdogResets' \in {0, 1}
        /\ watchdog' \in 0 .. Reload
        /\ iwdgFlag' \in BOOLEAN
        /\ cause' \in {"power", "watchdog"}
    <3>1. /\ watchdogResets \in {0, 1} /\ watchdog \in 0 .. Reload
          /\ iwdgFlag \in BOOLEAN /\ cause \in {"power", "watchdog"}
          /\ Reload \in 0 .. Reload
      BY BoundsFit DEF TypeOK
    <3>2. CASE UNCHANGED <<watchdogResets, iwdgFlag, watchdog, cause>>
      BY <3>1, <3>2
    <3>3. CASE Initialize
      BY <3>1, <3>3 DEF Initialize
    <3>4. CASE FeedWatchdog
      BY <3>1, <3>4 DEF FeedWatchdog, errors
    <3>5. CASE WatchdogTick
      BY <3>1, <3>5, BoundsFit DEF WatchdogTick, errors
    <3>6. CASE WatchdogReset \/ PowerLoss
      BY <3>1, <3>6 DEF WatchdogReset, PowerLoss, Restart
    <3>7. QED
      BY <3>2, <3>3, <3>4, <3>5, <3>6
      DEF Next, Boot, Step, Serve, LoadStored, LoadDefaults, SaveDefaults, NoFrame,
          QueueFrame, QueueEmpty, BadFrame, OrdinaryFrame, BaseSettings, SensorSettings,
          ServedFrame, Dequeue, NothingToSave, StartSave, SaveOk, SaveFailed, SensorProcess,
          SensorCall, SensorNotDue, TriggerSent, TriggerFailed, ReadFailed,
          ReadImplausible, ReadGood, Recover, errors, board, vars
  <2>6. QED
    BY <2>1, <2>2, <2>3, <2>4, <2>5 DEF TypeOK
<1>3. QED
  BY <1>1, <1>2, PTL DEF Spec

(* Every variable keeps its type.                                          *)
THEOREM TypeCorrect == Spec => []TypeOK
BY BaseHolds, PTL

-----------------------------------------------------------------------------
(* The two uint8_t counters that are added never exceed the threshold      *)
(* together, whatever mixture of timeouts and bus errors the bus delivers. *)
THEOREM SevereStaysBounded == Spec => []SevereNeverWraps
<1>1. TypeOK /\ ErrorsInOrder => SevereNeverWraps
  <2> SUFFICES ASSUME TypeOK, ErrorsInOrder PROVE SevereNeverWraps
    OBVIOUS
  <2>1. Severe(err) \in Nat /\ I2cRecoveryThreshold \in Nat
    BY SevereIsNumber, CountersFit DEF TypeOK, Thresholds
  <2>2. Severe(err) <= I2cRecoveryThreshold
    BY <2>1 DEF ErrorsInOrder, Alarmed
  <2>3. QED
    BY <2>2 DEF SevereNeverWraps, Severe
<1>2. QED
  BY <1>1, BaseHolds, PTL

(* A request for a recovery never outlives the round that raised it.       *)
THEOREM RequestsAreServed == Spec => []RequestServedInRound
<1>1. ErrorsInOrder => RequestServedInRound
  BY DEF ErrorsInOrder, RequestServedInRound
<1>2. QED
  BY <1>1, BaseHolds, PTL

(* Only a run of failed saves stops the feeding of the watchdog.           *)
THEOREM FatalIsFlash == Spec => OnlyFlashIsFatal
<1>1. TypeOK /\ OneFrame /\ ErrorsInOrder /\ [Next]_vars
        => [ ~err.fatalFault /\ err'.fatalFault =>
                 err'.consecutiveFlashSaveFail >= FlashSaveFailThreshold ]_vars
  BY ErrorSteps DEF LatchedByFlash
<1>2. QED
  BY <1>1, BaseHolds, PTL DEF Spec, OnlyFlashIsFatal

(* The register that reports a watchdog reset is right, through any number *)
(* of losses of power on the way from the reset to the report.             *)
THEOREM ResetsAreReported == Spec => []WatchdogResetIsReported
<1>1. Init => ResetNoted
  BY DEF Init, ResetNoted, Looping, LoopPhases
<1>2. TypeOK /\ ResetNoted /\ [Next]_vars => ResetNoted'
  <2> SUFFICES ASSUME TypeOK, ResetNoted, [Next]_vars
               PROVE  ResetNoted'
    OBVIOUS
  <2>1. CASE Initialize
    BY <2>1 DEF Initialize, ResetNoted, Looping, LoopPhases, TypeOK
  <2>2. CASE WatchdogReset \/ PowerLoss
    BY <2>2 DEF WatchdogReset, PowerLoss, Restart, ResetNoted, Looping, LoopPhases
  <2>3. CASE LoadStored \/ LoadDefaults \/ SaveDefaults
    BY <2>3
    DEF LoadStored, LoadDefaults, SaveDefaults, errors, board, ResetNoted, Looping, LoopPhases
  <2>4. CASE UNCHANGED <<watchdogResets, iwdgFlag, cause>> /\ Looping /\ pc' \in LoopPhases
    BY <2>4 DEF ResetNoted, Looping
  <2>5. CASE UNCHANGED vars
    BY <2>5 DEF vars, errors, board, ResetNoted, Looping
  <2>6. QED
    BY <2>1, <2>2, <2>3, <2>4, <2>5
    DEF Next, Boot, Step, Serve, NoFrame, QueueFrame, QueueEmpty, BadFrame, OrdinaryFrame,
        BaseSettings, SensorSettings, ServedFrame, Dequeue, NothingToSave, StartSave,
        SaveOk, SaveFailed, SensorProcess, SensorCall, SensorNotDue, TriggerSent,
        TriggerFailed, ReadFailed, ReadImplausible, ReadGood, Recover, FeedWatchdog,
        WatchdogTick, errors, board, Looping, LoopPhases
<1>3. ResetNoted => WatchdogResetIsReported
  BY DEF ResetNoted, WatchdogResetIsReported
<1>4. QED
  BY <1>1, <1>2, <1>3, TypeCorrect, PTL DEF Spec

-----------------------------------------------------------------------------
(* The loop works on what a restart would load.                            *)
THEOREM RestartsAreTransparent == Spec => []RestartIsTransparent
<1>1. Init => RestartInv
  BY DEF Init, RestartInv, RestartIsTransparent, Looping, LoopPhases
<1>2. TypeOK /\ RestartInv /\ [Next]_vars => RestartInv'
  <2> SUFFICES ASSUME TypeOK, RestartInv, [Next]_vars
               PROVE  RestartInv'
    OBVIOUS
  <2> USE DEF RestartInv, RestartIsTransparent, Looping, LoopPhases, Pending
  <2>1. CASE LoadStored \/ LoadDefaults
    BY <2>1 DEF LoadStored, LoadDefaults
  <2>2. CASE SaveDefaults
    <3>1. Nothing \notin Loadable
      BY BoundsFit
    <3>2. QED
      BY <2>2, <3>1 DEF SaveDefaults, Unfinished
  <2>3. CASE Initialize
    BY <2>3 DEF Initialize, config
  <2>4. CASE UNCHANGED config /\ pc \in LoopPhases /\ pc' \in LoopPhases \ {"saving"}
    BY <2>4 DEF config
  <2>5. CASE StartSave
    BY <2>5 DEF StartSave, config
  <2>6. CASE BadFrame \/ OrdinaryFrame
    BY <2>6 DEF BadFrame, OrdinaryFrame, ServedFrame, Dequeue
  <2>7. ASSUME NEW id \in Ids, NEW base \in Bases, BaseSettings(id, base)
        PROVE  RestartInv'
    BY <2>7 DEF BaseSettings, ServedFrame, Dequeue
  <2>8. ASSUME NEW settings \in Sensors, SensorSettings(settings)
        PROVE  RestartInv'
    BY <2>8 DEF SensorSettings, ServedFrame, Dequeue
  <2>9. CASE SaveOk
    BY <2>9 DEF SaveOk
  <2>10. CASE SaveFailed
    BY <2>10 DEF SaveFailed
  <2>11. CASE WatchdogReset \/ PowerLoss
    BY <2>11 DEF WatchdogReset, PowerLoss, Restart
  <2>12. CASE WatchdogTick
    BY <2>12 DEF WatchdogTick, config
  <2>13. CASE UNCHANGED vars
    BY <2>13 DEF vars, config
  <2>14. QED
    BY <2>1, <2>2, <2>3, <2>4, <2>5, <2>6, <2>7, <2>8, <2>9, <2>10, <2>11, <2>12, <2>13
    DEF Next, Boot, Step, Serve, NoFrame, QueueFrame, QueueEmpty, NothingToSave,
        SensorProcess, SensorCall, SensorNotDue, TriggerSent, TriggerFailed, ReadFailed,
        ReadImplausible, ReadGood, Recover, FeedWatchdog
<1>3. RestartInv => RestartIsTransparent
  BY DEF RestartInv
<1>4. QED
  BY <1>1, <1>2, <1>3, TypeCorrect, PTL DEF Spec

-----------------------------------------------------------------------------
(* No save has been reported as done before the loop, or while one runs.   *)
NotYetAcked == pc \in {"off", "bootSave", "init", "saving"} => ~acked

(* An image is under construction.                                        *)
Writing == pc \in {"bootSave", "saving"}

(* The mapping is a stutter where neither side of it moves.                *)
LEMMA Unwritten ==
    ASSUME UNCHANGED <<stored, acked>>,
           \/ ~Writing /\ ~Writing'
           \/ UNCHANGED <<pc, ram>>
    PROVE  UNCHANGED Cell!cellVars
BY DEF Writing, Cell!cellVars

(* A save that fails or is cut short.                                      *)
LEMMA CutShort ==
    ASSUME Writing, ~Writing', acked' = FALSE, stored' \in Unfinished, ram # Nothing
    PROVE  Cell!Next
BY DEF Writing, Unfinished, Cell!Abort, Cell!Next

(* The loop keeps what the sector promises, for every set of settings: the *)
(* image under construction stands still while it is written, success is   *)
(* only reported of what is stored, and no other step touches the sector.  *)
THEOREM Refinement == Spec => ImplementsCell
<1>1. Init => NotYetAcked /\ Cell!Init
  BY DEF Init, NotYetAcked, Cell!Init
<1>2. TypeOK /\ NotYetAcked /\ [Next]_vars => NotYetAcked' /\ [Cell!Next]_(Cell!cellVars)
  <2> SUFFICES ASSUME TypeOK, NotYetAcked, [Next]_vars
               PROVE  NotYetAcked' /\ (Cell!Next \/ UNCHANGED Cell!cellVars)
    OBVIOUS
  <2> DEFINE Goal == NotYetAcked' /\ (Cell!Next \/ UNCHANGED Cell!cellVars)
  <2>0. acked \in BOOLEAN
    BY DEF TypeOK
  <2>1. ram # Nothing /\ ram \in Configs /\ Default \in Configs /\ Default # Nothing
    BY BoundsFit DEF TypeOK
  <2>2. ASSUME UNCHANGED <<stored, acked>>, ~Writing, ~Writing',
               pc' \in {"off", "init"} => ~acked
        PROVE  Goal
    BY <2>2, Unwritten DEF NotYetAcked, Writing
  <2>3. ASSUME Writing, pc' \in {"init", "sensor", "off"}, acked' = FALSE,
               stored' \in Unfinished
        PROVE  Goal
    BY <2>1, <2>3, CutShort DEF NotYetAcked, Writing
  <2>4. CASE LoadStored
    BY <2>2, <2>4 DEF LoadStored, Writing, NotYetAcked
  <2>5. CASE LoadDefaults
    <3>1. Cell!BeginSave(Default) /\ NotYetAcked'
      BY <2>0, <2>5 DEF LoadDefaults, NotYetAcked, Cell!BeginSave
    <3>2. QED
      BY <2>1, <3>1 DEF Cell!Next
  <2>6. CASE SaveDefaults
    <3>1. Writing /\ pc' = "init" /\ acked' = FALSE /\ stored' \in Unfinished
      BY <2>0, <2>6 DEF SaveDefaults, Writing, NotYetAcked
    <3>2. QED
      BY <2>3, <3>1
  <2>7. CASE Initialize
    BY <2>2, <2>7 DEF Initialize, config, Writing
  <2>8. CASE NoFrame \/ QueueFrame \/ NothingToSave \/ SensorProcess \/ Recover
                     \/ FeedWatchdog
    <3>1. /\ UNCHANGED <<stored, acked>>
          /\ pc \notin {"bootSave", "saving"}
          /\ pc' \in {"serve", "sensor", "recover", "feed", "receive"}
      BY <2>8
      DEF NoFrame, QueueFrame, NothingToSave, SensorProcess, SensorCall, SensorNotDue,
          TriggerSent, TriggerFailed, ReadFailed, ReadImplausible, ReadGood, Recover,
          FeedWatchdog, config
    <3>2. QED
      BY <2>2, <3>1 DEF Writing
  <2>9. CASE Serve
    <3>1. UNCHANGED <<stored, acked>> /\ pc = "serve" /\ pc' = "save"
      BY <2>9
      DEF Serve, QueueEmpty, BadFrame, OrdinaryFrame, BaseSettings, SensorSettings,
          ServedFrame, Dequeue, config
    <3>2. QED
      BY <2>2, <3>1 DEF Writing
  <2>10. CASE StartSave
    <3>1. Cell!BeginSave(ram) /\ NotYetAcked'
      BY <2>10 DEF StartSave, NotYetAcked, Cell!BeginSave
    <3>2. QED
      BY <2>1, <3>1 DEF Cell!Next
  <2>11. CASE SaveOk
    <3>1. Cell!Acknowledge /\ NotYetAcked'
      BY <2>1, <2>11 DEF SaveOk, NotYetAcked, Cell!Acknowledge
    <3>2. QED
      BY <3>1 DEF Cell!Next
  <2>12. CASE SaveFailed
    <3>1. Writing /\ pc' = "sensor" /\ acked' = FALSE /\ stored' \in Unfinished
      BY <2>0, <2>12 DEF SaveFailed, Writing, NotYetAcked
    <3>2. QED
      BY <2>3, <3>1
  <2>13. CASE WatchdogReset \/ PowerLoss
    <3>1. /\ pc' = "off" /\ acked' = FALSE
          /\ stored' \in IF Writing THEN Unfinished ELSE {stored}
      BY <2>13 DEF WatchdogReset, PowerLoss, Restart, Writing
    <3>2. CASE Writing
      BY <2>3, <3>1, <3>2
    <3>3. CASE ~Writing
      BY <3>1, <3>3 DEF NotYetAcked, Writing, Cell!Abort, Cell!Next
    <3>4. QED
      BY <3>2, <3>3
  <2>14. CASE WatchdogTick \/ UNCHANGED vars
    <3>1. UNCHANGED <<pc, ram, stored, acked>>
      BY <2>14 DEF WatchdogTick, vars, config
    <3>2. QED
      BY <3>1, Unwritten DEF NotYetAcked
  <2>15. QED
    BY <2>4, <2>5, <2>6, <2>7, <2>8, <2>9, <2>10, <2>11, <2>12, <2>13, <2>14
    DEF Next, Boot, Step
<1>3. QED
  BY <1>1, <1>2, TypeCorrect, PTL DEF Spec, ImplementsCell, Cell!Spec
=============================================================================
