-------------------------- MODULE ConfigStoreProofs -------------------------
(***************************************************************************)
(* The configuration store for every set of configurations and every size  *)
(* of the image: type correctness, the two promises about acknowledged     *)
(* configurations, and the refinement of ConfigCell.                       *)
(*                                                                         *)
(* Two facts make the safety properties inductive. While the sector is     *)
(* being changed no configuration counts as durable (DurableAtRest), and   *)
(* while it is being programmed each word is blank, unreadable or the word *)
(* of the new image (OnlyNewWords), so that no mixture of the old and the  *)
(* new configuration can pass for a third one.  The rest keeps the books:  *)
(* a write starts with the first word (WrittenAtRest), and an image is     *)
(* built from a configuration (RamFilled).                                 *)
(***************************************************************************)
EXTENDS ConfigStore, TLAPS

(* No erase, program or verification is under way while a configuration    *)
(* counts as durable.                                                      *)
DurableAtRest == durable # Nothing => pc \in {"off", "run", "erase"}

(* During a write the sector holds nothing of the old configuration.       *)
OnlyNewWords == pc \in {"program", "verify"} =>
                    \A i \in WordIndex : flash[i] \in {Blank, Garbage, <<image, i>>}

(* Between writes the number of words programmed is back at zero, so that  *)
(* the next write starts with the first word.                              *)
WrittenAtRest == pc \notin {"program", "verify"} => written = 0

(* What a save builds its image from is a configuration.                   *)
RamFilled == pc # "off" => ram \in Configs

StoreInv == /\ TypeOK
            /\ AcknowledgedIsStored
            /\ DurableAtRest
            /\ OnlyNewWords
            /\ WrittenAtRest
            /\ RamFilled

(* Stored, for any contents of the sector.                                 *)
StoredIn(words) == IF \E c \in Configs : words = ImageOf(c)
                   THEN CHOOSE c \in Configs : words = ImageOf(c)
                   ELSE Nothing

(* Before and after a step, Stored is a function of the contents of the    *)
(* sector.                                                                 *)
LEMMA StoredIsStoredIn == Stored = StoredIn(flash) /\ Stored' = StoredIn(flash')
  BY DEF Stored, StoredIn, Holds

-----------------------------------------------------------------------------
(* The first word tells whose image a sector holds.                        *)
LEMMA FirstWord == /\ 1 \in WordIndex
                   /\ \A c \in Configs : ImageOf(c)[1] = <<c, 1>>
  BY StoreConstants DEF WordIndex, ImageOf

(* The image of a configuration passes for that configuration and no other.*)
LEMMA ImageIsStored ==
    ASSUME NEW c \in Configs PROVE StoredIn(ImageOf(c)) = c
  <1>1. \A d \in Configs : ImageOf(d) = ImageOf(c) => d = c
    BY FirstWord
  <1>2. QED BY <1>1 DEF StoredIn

(* A sector passes for a configuration or for none.                        *)
LEMMA StoredType == ASSUME NEW words PROVE StoredIn(words) \in Configs \cup {Nothing}
  BY DEF StoredIn

(* Words that are no configuration's words, or those of one.               *)
LEMMA StoredWhileWritten ==
    ASSUME NEW c \in Configs, NEW words,
           words[1] \in {Blank, Garbage, <<c, 1>>}
    PROVE  StoredIn(words) \in {Nothing, c}
  <1>1. \A d \in Configs : <<d, 1>> \notin {Blank, Garbage}
    BY FirstWord, StoreConstants DEF WordIndex
  <1>2. \A d \in Configs : words = ImageOf(d) => d = c
    BY <1>1, FirstWord
  <1>3. QED BY <1>2 DEF StoredIn

(* A sector whose first word is not a word of an image passes for none.    *)
LEMMA NothingStored ==
    ASSUME NEW words, words[1] \in {Blank, Garbage}
    PROVE  StoredIn(words) = Nothing
  <1>1. \A d \in Configs : <<d, 1>> \notin {Blank, Garbage}
    BY FirstWord, StoreConstants DEF WordIndex
  <1>2. QED BY <1>1, FirstWord DEF StoredIn

(* In particular an erased sector does, and an unreadable one.             *)
LEMMA BlankStoresNothing == StoredIn(AllBlank) = Nothing /\ StoredIn(AllGarbage) = Nothing
  BY NothingStored, FirstWord DEF AllBlank, AllGarbage

-----------------------------------------------------------------------------
Word == {Blank, Garbage} \cup (Configs \X WordIndex)

(* The sectors the actions build consist of words.                         *)
LEMMA SectorTypes ==
    /\ AllBlank \in [WordIndex -> Word]
    /\ AllGarbage \in [WordIndex -> Word]
    /\ \A c \in Configs : ImageOf(c) \in [WordIndex -> Word]
  BY DEF AllBlank, AllGarbage, ImageOf, Word

(* Programming a word leaves words, and only words of the new image.       *)
LEMMA Programming ==
    ASSUME StoreInv, pc = "program", NEW words \in PartlyProgrammed
    PROVE  /\ words \in [WordIndex -> Word]
           /\ \A i \in WordIndex : words[i] \in {Blank, Garbage, <<image, i>>}
           /\ image \in Configs
  <1>1. flash \in [WordIndex -> Word] /\ image \in Configs
    BY DEF StoreInv, TypeOK, Word
  <1>2. written + 1 \in WordIndex
    BY StoreConstants DEF StoreInv, TypeOK, WordIndex
  <1>3. \A i \in WordIndex : flash[i] \in {Blank, Garbage, <<image, i>>}
    BY DEF StoreInv, OnlyNewWords
  <1>4. PICK w \in {flash[written + 1], Garbage, <<image, written + 1>>} :
            words = [flash EXCEPT ![written + 1] = w]
    BY DEF PartlyProgrammed
  <1>5. w \in {Blank, Garbage, <<image, written + 1>>} /\ w \in Word
    BY <1>1, <1>2, <1>3, <1>4 DEF Word
  <1>6. QED BY <1>1, <1>2, <1>3, <1>4, <1>5

(* What an unfinished erase leaves are words.                              *)
LEMMA Erasing ==
    ASSUME StoreInv, NEW words \in PartlyErased
    PROVE  words \in [WordIndex -> Word]
  BY SectorTypes DEF StoreInv, TypeOK, PartlyErased, Word

(* Every state a device can be switched on in satisfies the invariant.     *)
LEMMA InvInit == Init => StoreInv
  <1> SUFFICES ASSUME Init PROVE StoreInv
    OBVIOUS
  <1>1. flash \in [WordIndex -> Word]
    BY SectorTypes DEF Init
  <1>2. /\ ram = Nothing /\ image = Nothing /\ pc = "off"
        /\ written = 0 /\ acked = FALSE /\ durable = Nothing
    BY DEF Init
  <1>3. written \in 0 .. Words
    BY <1>2, StoreConstants
  <1>4. TypeOK
    BY <1>1, <1>2, <1>3 DEF TypeOK, Word
  <1>5. QED
    BY <1>2, <1>4 DEF StoreInv, AcknowledgedIsStored, DurableAtRest, OnlyNewWords,
                      WrittenAtRest, RamFilled

(* Every failed save ends in a state that satisfies the invariant, as long *)
(* as the sector holds words, and still the durable configuration if any.  *)
LEMMA FailKeepsInv ==
    ASSUME StoreInv, Fail, ram \in Configs, flash' \in [WordIndex -> Word],
           durable # Nothing => flash' = flash
    PROVE  StoreInv'
  <1>1. /\ pc' = "run" /\ image' = Nothing /\ written' = 0 /\ acked' = FALSE
        /\ ram' = ram /\ durable' = durable
    BY DEF Fail
  <1>2. written' \in 0 .. Words
    BY <1>1, StoreConstants
  <1>3. TypeOK'
    BY <1>1, <1>2 DEF StoreInv, TypeOK, Word
  <1>4. AcknowledgedIsStored'
    BY <1>1 DEF StoreInv, AcknowledgedIsStored, Holds
  <1>5. QED
    BY <1>1, <1>3, <1>4 DEF StoreInv, DurableAtRest, OnlyNewWords, WrittenAtRest, RamFilled

(* Every step keeps it: one case per action, and for each the conjuncts the*)
(* action can disturb.                                                     *)
LEMMA InvNext == StoreInv /\ [Next]_vars => StoreInv'
  <1> SUFFICES ASSUME StoreInv, [Next]_vars PROVE StoreInv'
    OBVIOUS
  <1> USE StoreConstants DEF StoreInv, TypeOK, AcknowledgedIsStored, DurableAtRest, Holds,
                            WrittenAtRest, RamFilled
  <1>1. CASE LoadStored
    <2>1. Stored \in Configs /\ ram' \in Configs
      BY <1>1 DEF LoadStored
    <2>2. QED BY <1>1, <2>1 DEF LoadStored, OnlyNewWords
  <1>2. CASE LoadDefaults
    BY <1>2 DEF LoadDefaults, StartSave, OnlyNewWords
  <1>3. CASE Configure
    BY <1>3 DEF Configure, OnlyNewWords
  <1>4. CASE Save
    <2>1. ram \in Configs
      BY <1>4 DEF Save
    <2>2. QED BY <1>4, <2>1 DEF Save, StartSave, OnlyNewWords
  <1>5. CASE ReadyToErase
    BY <1>5 DEF ReadyToErase, OnlyNewWords
  <1>6. CASE NotReadyToErase
    BY <1>6, FailKeepsInv DEF NotReadyToErase, Word
  <1>7. CASE Erased
    <2>1. written' = 0
      BY <1>7 DEF Erased
    <2>2. flash' \in [WordIndex -> Word]
      BY <1>7, SectorTypes DEF Erased
    <2>3. QED BY <1>7, <2>1, <2>2 DEF Erased, OnlyNewWords, AllBlank, Word
  <1>8. CASE EraseFault
    <2>1. flash' \in [WordIndex -> Word]
      BY <1>8, Erasing DEF EraseFault
    <2>2. QED BY <1>8, <2>1, FailKeepsInv DEF EraseFault
  <1>9. CASE NotReadyToProgram
    BY <1>9, FailKeepsInv DEF NotReadyToProgram, Word
  <1>10. CASE ProgramWord
    <2>1. /\ flash' \in [WordIndex -> Word]
          /\ \A i \in WordIndex : flash'[i] \in {Blank, Garbage, <<image, i>>}
      BY <1>10, Programming DEF ProgramWord
    <2>2. OnlyNewWords'
      BY <1>10, <2>1 DEF ProgramWord, OnlyNewWords
    <2>3. QED BY <1>10, <2>1, <2>2 DEF ProgramWord, Word
  <1>11. CASE ProgramFault
    <2>1. flash' \in [WordIndex -> Word]
      BY <1>11, Programming DEF ProgramFault
    <2>2. QED BY <1>11, <2>1, FailKeepsInv DEF ProgramFault
  <1>12. CASE VerifyOk
    <2>1. image \in Configs /\ flash = ImageOf(image)
      BY <1>12 DEF VerifyOk
    <2>2. flash' = ImageOf(durable')
      BY <1>12, <2>1 DEF VerifyOk
    <2>3. QED BY <1>12, <2>1, <2>2 DEF VerifyOk, OnlyNewWords
  <1>13. CASE VerifyFailed
    BY <1>13, FailKeepsInv DEF VerifyFailed, Word
  <1>14. CASE PowerLoss
    <2>1. flash' \in [WordIndex -> Word]
      BY <1>14, Erasing, Programming DEF PowerLoss, Word
    <2>2. durable # Nothing => flash' = flash
      BY <1>14 DEF PowerLoss
    <2>3. /\ pc' = "off" /\ ram' = Nothing /\ image' = Nothing
          /\ written' = 0 /\ acked' = FALSE /\ durable' = durable
      BY <1>14 DEF PowerLoss
    <2>4. TypeOK'
      <3>1. written' \in 0 .. Words
        BY <2>3
      <3>2. durable' \in Configs \cup {Nothing}
        BY <2>3
      <3>3. QED BY <2>1, <2>3, <3>1, <3>2 DEF Word
    <2>5. QED BY <2>2, <2>3, <2>4 DEF OnlyNewWords
  <1>15. CASE UNCHANGED vars
    BY <1>15 DEF vars, OnlyNewWords
  <1>16. QED
    BY <1>1, <1>2, <1>3, <1>4, <1>5, <1>6, <1>7, <1>8, <1>9, <1>10, <1>11, <1>12, <1>13,
       <1>14, <1>15
    DEF Next

(* So it holds of every reachable state.                                   *)
LEMMA InvHolds == Spec => []StoreInv
  BY InvInit, InvNext, PTL DEF Spec

-----------------------------------------------------------------------------
(* Every reachable state is well formed.                                   *)
THEOREM TypeCorrect == Spec => []TypeOK
  BY InvHolds, PTL DEF StoreInv

(* What saveDeviceConfig acknowledged is in the sector until an erase      *)
(* begins, through every fault of the controller and every loss of power.  *)
THEOREM AcknowledgedStored == Spec => []AcknowledgedIsStored
  BY InvHolds, PTL DEF StoreInv

(* And the next start loads it, unless loadOrDefaults refuses it.          *)
THEOREM AcknowledgedLoaded == Spec => AcknowledgedIsLoaded
  <1>1. StoreInv /\ [Next]_vars =>
            [pc = "off" /\ pc' # "off" /\ durable \in Valid => ram' = durable]_vars
    <2> SUFFICES ASSUME StoreInv, Next, pc = "off", pc' # "off", durable \in Valid
                 PROVE  ram' = durable
      BY DEF vars
    <2>1. durable \in Configs /\ durable # Nothing
      BY StoreConstants
    <2>2. Stored = durable
      BY <2>1, StoredIsStoredIn, ImageIsStored DEF StoreInv, AcknowledgedIsStored, Holds
    <2>3. LoadStored \/ LoadDefaults
      BY DEF Next, Configure, Save, ReadyToErase, NotReadyToErase, Erased, EraseFault,
             NotReadyToProgram, ProgramWord, ProgramFault, VerifyOk, VerifyFailed, PowerLoss
    <2>4. QED BY <2>2, <2>3 DEF LoadStored, LoadDefaults
  <1>2. QED BY <1>1, InvHolds, PTL DEF Spec, AcknowledgedIsLoaded

(* The sector, seen through the checksum, is the abstract cell: no mixture *)
(* of two configurations ever passes for a third one.                      *)
THEOREM Refinement == Spec => ImplementsCell
  <1>1. Init => Cell!Init
    BY StoredIsStoredIn, StoredType DEF Init, Cell!Init
  <1>2. StoreInv /\ StoreInv' /\ [Next]_vars => [Cell!Next]_(Cell!cellVars)
    <2> SUFFICES ASSUME StoreInv, StoreInv', [Next]_vars
                 PROVE  Cell!Next \/ UNCHANGED Cell!cellVars
      OBVIOUS
    <2> DEFINE now == StoredIn(flash)
               then == StoredIn(flash')
    <2>0. Stored = now /\ Stored' = then
      BY StoredIsStoredIn
    <2> HIDE DEF now, then
    <2>1. ASSUME NEW c \in Configs, StartSave(c), image = Nothing, then = now
          PROVE  Cell!Next
      BY <2>0, <2>1 DEF StartSave, Cell!BeginSave, Cell!Next
    <2>2. flash' = flash => then = now
      BY DEF now, then
    <2>3. pc \notin {"off", "run"} => image # Nothing
      BY DEF StoreInv, TypeOK
    <2>4. ASSUME Fail, then \in {now, Nothing, image}, image # Nothing
          PROVE  Cell!Next
      BY <2>0, <2>4 DEF Fail, Cell!Abort, Cell!Next
    <2>5. \A words \in PartlyErased : StoredIn(words) \in {now, Nothing}
      BY BlankStoresNothing DEF PartlyErased, now
    <2>6. pc = "program" =>
              \A words \in PartlyProgrammed : StoredIn(words) \in {Nothing, image}
      BY Programming, FirstWord, StoredWhileWritten
    <2>7. CASE LoadStored \/ Configure \/ ReadyToErase
      BY <2>0, <2>2, <2>7 DEF LoadStored, Configure, ReadyToErase, Cell!cellVars
    <2>8. CASE LoadDefaults
      <3>1. Default \in Configs /\ StartSave(Default) /\ flash' = flash /\ image = Nothing
        BY <2>8, StoreConstants DEF LoadDefaults, StoreInv, TypeOK
      <3>2. QED BY <2>1, <2>2, <3>1
    <2>9. CASE Save
      <3>1. ram \in Configs /\ StartSave(ram) /\ flash' = flash /\ image = Nothing
        BY <2>9 DEF Save, StoreInv, RamFilled, TypeOK
      <3>2. QED BY <2>1, <2>2, <3>1
    <2>10. CASE NotReadyToErase \/ NotReadyToProgram \/ VerifyFailed
      <3>1. Fail /\ flash' = flash /\ image # Nothing
        BY <2>3, <2>10 DEF NotReadyToErase, NotReadyToProgram, VerifyFailed
      <3>2. QED BY <2>2, <2>4, <3>1
    <2>11. CASE Erased
      <3>1. then = Nothing /\ image # Nothing
        BY <2>3, <2>11, BlankStoresNothing DEF Erased, then
      <3>2. QED BY <2>0, <2>11, <3>1 DEF Erased, Cell!Lose, Cell!Next
    <2>12. CASE EraseFault
      <3>1. Fail /\ then \in {now, Nothing} /\ image # Nothing
        BY <2>3, <2>5, <2>12 DEF EraseFault, then
      <3>2. QED BY <2>4, <3>1
    <2>13. CASE ProgramWord
      <3>1. then \in {Nothing, image} /\ image # Nothing
        BY <2>3, <2>6, <2>13 DEF ProgramWord, then
      <3>2. QED
        BY <2>0, <2>13, <3>1 DEF ProgramWord, Cell!Lose, Cell!Commit, Cell!Next
    <2>14. CASE ProgramFault
      <3>1. Fail /\ then \in {Nothing, image} /\ image # Nothing
        BY <2>3, <2>6, <2>14 DEF ProgramFault, then
      <3>2. QED BY <2>4, <3>1
    <2>15. CASE VerifyOk
      <3>1. image \in Configs /\ image # Nothing
        BY <2>3, <2>15 DEF VerifyOk, StoreInv, TypeOK
      <3>2. now = image /\ then = now
        BY <2>2, <2>15, <3>1, ImageIsStored DEF VerifyOk, Holds, now
      <3>3. QED BY <2>0, <2>15, <3>1, <3>2 DEF VerifyOk, Cell!Acknowledge, Cell!Next
    <2>16. CASE PowerLoss
      <3>1. CASE image = Nothing
        <4>1. flash' = flash
          BY <2>16, <3>1 DEF PowerLoss, StoreInv, TypeOK
        <4>2. QED BY <2>0, <2>2, <2>16, <4>1 DEF PowerLoss, Cell!Abort, Cell!Next
      <3>2. CASE image # Nothing
        <4>1. then \in {now, Nothing, image}
          BY <2>2, <2>5, <2>6, <2>16 DEF PowerLoss, then
        <4>2. QED BY <2>0, <2>16, <3>2, <4>1 DEF PowerLoss, Cell!Abort, Cell!Next
      <3>3. QED BY <3>1, <3>2
    <2>17. CASE UNCHANGED vars
      BY <2>0, <2>2, <2>17 DEF vars, Cell!cellVars
    <2>18. QED
      BY <2>7, <2>8, <2>9, <2>10, <2>11, <2>12, <2>13, <2>14, <2>15, <2>16, <2>17 DEF Next
  <1>3. QED BY <1>1, <1>2, InvHolds, PTL DEF Spec, ImplementsCell, Cell!Spec
=============================================================================
