----------------------------- MODULE ConfigCell -----------------------------
(***************************************************************************)
(* What the configuration sector promises its users: one stored            *)
(* configuration or none.  A save in progress may lose the stored          *)
(* configuration (the sector is erased first) and may put the new one in   *)
(* its place; it is only acknowledged when the new one is stored.  A power *)
(* loss can end a save anywhere.                                           *)
(***************************************************************************)
CONSTANTS Configs, Nothing

VARIABLES stored, saving, acked

cellVars == <<stored, saving, acked>>

Init == /\ stored \in Configs \cup {Nothing}
        /\ saving = Nothing
        /\ acked = FALSE

BeginSave(config) == /\ saving = Nothing
                     /\ saving' = config
                     /\ acked' = FALSE
                     /\ UNCHANGED stored

Lose == /\ saving # Nothing
        /\ stored' = Nothing
        /\ UNCHANGED <<saving, acked>>

Commit == /\ saving # Nothing
          /\ stored' = saving
          /\ UNCHANGED <<saving, acked>>

(* Possibly in the very step that stores.                                  *)
Acknowledge == /\ saving # Nothing
               /\ stored' = saving
               /\ saving' = Nothing
               /\ acked' = TRUE

(* A failure reported to the caller, or a power loss.                      *)
Abort == /\ saving' = Nothing
         /\ acked' = FALSE
         /\ stored' \in {stored} \cup (IF saving = Nothing THEN {} ELSE {saving, Nothing})

Next == \/ \E config \in Configs : BeginSave(config)
        \/ Lose
        \/ Commit
        \/ Acknowledge
        \/ Abort

Spec == Init /\ [][Next]_cellVars
=============================================================================
