---------------------------- MODULE MCApplication ---------------------------
(***************************************************************************)
(* The main loop for TLC.                                                  *)
(*                                                                         *)
(* MCApplication.cfg has two base settings and two sensor settings, one of *)
(* each refused at the next start, an id command that is refused, and a    *)
(* watchdog that bites after one unit: all of boot, saving and restarting. *)
(* The thresholds are 1 and 2, low enough for every fault to be reached    *)
(* from every configuration.                                               *)
(***************************************************************************)
EXTENDS Application

MCDefault == [id |-> 1, base |-> "9600", sensor |-> "ch4"]
=============================================================================
