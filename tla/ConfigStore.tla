----------------------------- MODULE ConfigStore ----------------------------
(***************************************************************************)
(* ConfigManager (App) on FlashStorage (Services): the configuration in    *)
(* RAM, its image in the flash sector, and the erase - program - verify    *)
(* sequence of a save, which a fault of the flash controller or a loss of  *)
(* power can end after any step.                                           *)
(*                                                                         *)
(* A configuration is a value; its image is Words words, word i of the     *)
(* image of c being <<c, i>>.  The checksum and the magic number are       *)
(* modelled by what they establish: an image is accepted iff every word is *)
(* the word of one and the same configuration.                             *)
(***************************************************************************)
EXTENDS Naturals

CONSTANTS
    Configs,    \* configurations DeviceConfig and Sensor can hold
    Valid,      \* those isValidRuntimeConfig accepts
    Default,    \* the one Config_SetDefaults builds
    Words,      \* words of FlashConfig_t
    Blank,      \* an erased word
    Garbage,    \* a word that holds no word of any image
    Nothing     \* no configuration

ASSUME StoreConstants ==
    /\ Valid \subseteq Configs
    /\ Default \in Valid
    /\ Words \in Nat \ {0}
    /\ Blank # Garbage
    /\ {Blank, Garbage} \cap (Configs \X (1 .. Words)) = {}
    /\ Nothing \notin Configs

VARIABLES
    flash,      \* the words of the sector
    ram,        \* DeviceConfig and Sensor; Nothing before they are filled
    image,      \* flashData_, the configuration a save is writing
    pc,         \* where the program is
    written,    \* words programmed by the write in progress
    acked,      \* saveDeviceConfig last returned true, since power up
    durable     \* history: the configuration of the last save that returned
                \* true, unless a later erase has begun

vars == <<flash, ram, image, pc, written, acked, durable>>

WordIndex == 1 .. Words
ImageOf(config) == [i \in WordIndex |-> <<config, i>>]
AllBlank == [i \in WordIndex |-> Blank]
AllGarbage == [i \in WordIndex |-> Garbage]

(* isValidFlashConfig on the sector, and what it then holds.               *)
Holds(config) == flash = ImageOf(config)
Stored == IF \E c \in Configs : Holds(c) THEN CHOOSE c \in Configs : Holds(c) ELSE Nothing

(* The sector of a new device is blank, that of a used one holds anything  *)
(* an earlier life of the program can have left in it.                     *)
Init == /\ flash \in {AllBlank, AllGarbage} \cup {ImageOf(c) : c \in Configs}
        /\ ram = Nothing
        /\ image = Nothing
        /\ pc = "off"
        /\ written = 0
        /\ acked = FALSE
        /\ durable = Nothing

-----------------------------------------------------------------------------
(* loadOrDefaults with a valid image.                                      *)
LoadStored == /\ pc = "off"
              /\ Stored \in Valid
              /\ ram' = Stored
              /\ pc' = "run"
              /\ UNCHANGED <<flash, image, written, acked, durable>>

(* Variant: the old result is kept while the save runs.                    *)
StartSaveKeepsResult(config) == /\ image' = config
                                /\ pc' = "erase"
                                /\ acked' = acked

(* The head of saveDeviceConfig: the image is built from RAM.              *)
StartSave(config) == /\ image' = config
                     /\ pc' = "erase"
                     /\ acked' = FALSE

(* Variant: the image is not looked at.                                    *)
LoadDefaultsAlways == /\ pc = "off"
                      /\ ram' = Default
                      /\ StartSave(Default)
                      /\ UNCHANGED <<flash, written, durable>>

(* loadOrDefaults without one: defaults, and an attempt to save them.      *)
LoadDefaults == /\ pc = "off"
                /\ Stored \notin Valid
                /\ ram' = Default
                /\ StartSave(Default)
                /\ UNCHANGED <<flash, written, durable>>

(* Modbus commands replace the configuration in RAM between saves; not all *)
(* of what they accept is valid at the next start.                         *)
Configure == /\ pc = "run"
             /\ ram' \in Configs
             /\ UNCHANGED <<flash, image, pc, written, acked, durable>>

Save == /\ pc = "run"
        /\ StartSave(ram)
        /\ UNCHANGED <<flash, ram, written, durable>>

(* Every early return of eraseConfigSector and write ends the save; the    *)
(* caller gets false and RAM is kept.                                      *)
Fail == /\ pc' = "run"
        /\ image' = Nothing
        /\ written' = 0
        /\ acked' = FALSE
        /\ UNCHANGED <<ram, durable>>

(* waitUntilReady before the erase command.                                *)
ReadyToErase == /\ pc = "erase"
                /\ pc' = "erasing"
                /\ durable' = Nothing
                /\ UNCHANGED <<flash, ram, image, written, acked>>

NotReadyToErase == /\ pc = "erase"
                   /\ Fail
                   /\ UNCHANGED flash

(* What an erase that did not finish leaves in the sector.                 *)
PartlyErased == {flash, AllBlank, AllGarbage}

Erased == /\ pc = "erasing"
          /\ flash' = AllBlank
          /\ pc' = "program"
          /\ UNCHANGED <<ram, image, written, acked, durable>>

EraseFault == /\ pc = "erasing"
              /\ flash' \in PartlyErased
              /\ Fail

(* waitUntilReady before the first word.                                   *)
NotReadyToProgram == /\ pc = "program"
                     /\ written = 0
                     /\ Fail
                     /\ UNCHANGED flash

(* What an attempt to program the next word leaves in it.                  *)
PartlyProgrammed ==
    { [flash EXCEPT ![written + 1] = w] :
        w \in {flash[written + 1], Garbage, <<image, written + 1>>} }

(* Variant: the loop runs one word too far.                                *)
ProgramPastEnd == /\ pc = "program"
                  /\ written < Words
                  /\ flash' \in PartlyProgrammed
                  /\ written' = written + 1
                  /\ pc' = "program"
                  /\ UNCHANGED <<ram, image, acked, durable>>

(* The controller reports no error; the word may be wrong all the same.    *)
ProgramWord == /\ pc = "program"
               /\ flash' \in PartlyProgrammed
               /\ written' = written + 1
               /\ pc' = IF written + 1 = Words THEN "verify" ELSE "program"
               /\ UNCHANGED <<ram, image, acked, durable>>

ProgramFault == /\ pc = "program"
                /\ flash' \in PartlyProgrammed
                /\ Fail

(* Variant: the verification is skipped.                                   *)
VerifySkipped == /\ pc = "verify"
                 /\ pc' = "run"
                 /\ image' = Nothing
                 /\ written' = 0
                 /\ acked' = TRUE
                 /\ durable' = image
                 /\ UNCHANGED <<flash, ram>>

VerifyOk == /\ pc = "verify"
            /\ Holds(image)
            /\ pc' = "run"
            /\ image' = Nothing
            /\ written' = 0
            /\ acked' = TRUE
            /\ durable' = image
            /\ UNCHANGED <<flash, ram>>

VerifyFailed == /\ pc = "verify"
                /\ ~Holds(image)
                /\ Fail
                /\ UNCHANGED flash

(* Loss of power, or a reset by the watchdog.                              *)
PowerLoss == /\ pc # "off"
             /\ flash' \in CASE pc = "erasing" -> PartlyErased
                             [] pc = "program" -> PartlyProgrammed
                             [] OTHER          -> {flash}
             /\ ram' = Nothing
             /\ image' = Nothing
             /\ pc' = "off"
             /\ written' = 0
             /\ acked' = FALSE
             /\ UNCHANGED durable

Next == \/ LoadStored \/ LoadDefaults
        \/ Configure \/ Save
        \/ ReadyToErase \/ NotReadyToErase
        \/ Erased \/ EraseFault
        \/ NotReadyToProgram \/ ProgramWord \/ ProgramFault
        \/ VerifyOk \/ VerifyFailed
        \/ PowerLoss

Spec == Init /\ [][Next]_vars

-----------------------------------------------------------------------------
(* The sector holds words, RAM a configuration once it is filled, and an   *)
(* image is being written exactly while a save is in progress.             *)
TypeOK ==
    /\ flash \in [WordIndex -> {Blank, Garbage} \cup (Configs \X WordIndex)]
    /\ ram \in Configs \cup {Nothing}
    /\ image \in Configs \cup {Nothing}
    /\ pc \in {"off", "run", "erase", "erasing", "program", "verify"}
    /\ written \in 0 .. Words
    /\ acked \in BOOLEAN
    /\ durable \in Configs \cup {Nothing}
    /\ pc \in {"off", "run"} <=> image = Nothing
    /\ pc = "program" => written < Words

(* saveDeviceConfig returns true only for what is really in the sector,    *)
(* and it stays there through faults, refused saves and power losses until *)
(* an erase begins.                                                        *)
AcknowledgedIsStored == durable # Nothing => Holds(durable)

(* The next start finds it: whatever happens between the save and the loss *)
(* of power, a configuration saved with success is the one the program     *)
(* starts with, unless it is one that loadOrDefaults refuses.              *)
AcknowledgedIsLoaded ==
    [][pc = "off" /\ pc' # "off" /\ durable \in Valid => ram' = durable]_vars

(* The sector implements the abstract cell: seen through the checksum, a   *)
(* save moves from the old configuration over nothing to the new one, and  *)
(* never shows a mixture.                                                  *)
Cell == INSTANCE ConfigCell WITH stored <- Stored, saving <- image

ImplementsCell == Cell!Spec
=============================================================================
