--------------------------- MODULE MCSensorService --------------------------
(***************************************************************************)
(* The clock scaled down: the delays keep the order of the code (20 < 50 < *)
(* 100 < 1000 ms) and the tick counter wraps every few measurements.       *)
(***************************************************************************)
EXTENDS SensorService

MCTemperatures == {-1, 20}
=============================================================================
