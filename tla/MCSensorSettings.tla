--------------------------- MODULE MCSensorSettings -------------------------
(***************************************************************************)
(* Every kind of sensor the checks tell apart, and two alarm levels: two   *)
(* neighbours can be in order, equal or out of order.                      *)
(***************************************************************************)
EXTENDS SensorSettings

MCTypes == {"none", "catalytic", "infrared", "pid", "other"}
=============================================================================
