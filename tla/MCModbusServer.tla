--------------------------- MODULE MCModbusServer ---------------------------
(***************************************************************************)
(* Five registers: an ordinary one, the command register, two arguments of *)
(* which the second is mirrored, and a mirrored register beyond them.  The *)
(* spans hold a full command from 0, commands that miss the first or the   *)
(* last register, a command code on its own (whose argument count wraps),  *)
(* writes just below and above the command register, and refused ones.     *)
(***************************************************************************)
EXTENDS ModbusServer, TLC

MCContents == 0 :> {0} @@ 1 :> {0, 1, 2, 3} @@ 2 :> {0, 1, 2} @@ 3 :> {0, 1} @@ 4 :> {0, 1}

MCSpans == { <<0, 4>>, <<1, 3>>, <<1, 4>>, <<0, 3>>, <<1, 1>>,
             <<0, 1>>, <<2, 2>>, <<3, 2>>,
             <<0, 0>>, <<0, 5>>, <<4, 2>> }
=============================================================================
