---------------------------- MODULE MCFrameQueue ----------------------------
(***************************************************************************)
(* A ring of three slots of two bytes, with frames that are shorter than a *)
(* slot, fill it, and exceed it.  Three slots wrap in every alignment of   *)
(* head and tail and hold a frame between the oldest and the newest.       *)
(***************************************************************************)
EXTENDS FrameQueue

MCPayloads == { <<"a">>, <<"b", "c">>, <<"c", "b", "a">> }
=============================================================================
