--------------------------- MODULE MCSensorReading --------------------------
(***************************************************************************)
(* Temperatures of -45.00, -0.05, 25.00 and 129.99 degrees and the word    *)
(* that is refused; humidities of 0.00 and 50.00 percent and the word that *)
(* is refused.  The thresholds are 50.0 and 10.0 degrees.                  *)
(***************************************************************************)
EXTENDS SensorReading

MCRawTemperatures == {0, 1, 16834, 26215, 65534}
MCRawHumidities == {1, 32768, 65535}
=============================================================================
