--------------------------- MODULE MCErrorManager ---------------------------
(***************************************************************************)
(* The error manager for TLC.  ReportBound limits the failures counted     *)
(* since the last initialize(): each state of the bounded graph is         *)
(* reachable, the constraint only keeps TLC from counting on.              *)
(***************************************************************************)
EXTENDS ErrorManager

CONSTANT ReportBound

Reports == err.timeoutCount + err.nackCount + err.busErrorCount
             + total.crc + total.sensorReadFail + total.uartOverflow
             + total.i2cRecovery + total.watchdogReset + total.flashSaveFail

WithinBound == Reports <= ReportBound
=============================================================================
