---------------------------- MODULE MCConfigStore ---------------------------
(***************************************************************************)
(* Two valid configurations, one of them the default, and one that is      *)
(* stored but refused at the next start; an image of three words has a     *)
(* first, a middle and a last word to fail at.                             *)
(***************************************************************************)
EXTENDS ConfigStore
=============================================================================
