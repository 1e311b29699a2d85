--------------------------- MODULE SensorSettings ---------------------------
(***************************************************************************)
(* ModbusService::saveSensorSettings: the checks a sensor package runs     *)
(* through, in the order of the code.  Each check that fails overwrites    *)
(* ok, the code of the one before it; what the last code is decides        *)
(* whether the package is committed.  A behaviour is one call.             *)
(*                                                                         *)
(* A package is modelled by what the checks and the next start ask of it:  *)
(* the identity fields and the direction and order of the three alarms.    *)
(* The range checks on the other fields may fail or not.                   *)
(*                                                                         *)
(* Names are distinct from those of SensorReading, so that one module can  *)
(* extend both.                                                            *)
(***************************************************************************)
EXTENDS Naturals

CONSTANTS
    Types,      \* sensor types; "none" is 0, "catalytic", "infrared", "pid"
    Levels      \* alarm thresholds

ASSUME SettingsConstants ==
    /\ {"none", "catalytic", "infrared", "pid"} \subseteq Types
    /\ Levels \subseteq Nat

Alarms == 1 .. 3

Packages == [ long      : BOOLEAN,      \* len >= 56
              model     : BOOLEAN,      \* GetSensorModel is not 0
              type      : Types,
              gas       : {"unknown", "O2", "VOC", "other"},
              unit      : BOOLEAN,      \* within PPM .. PPB
              direction : [Alarms -> {"rising", "falling"}],
              level     : [Alarms -> Levels] ]

VARIABLES
    package,    \* the arguments of the command
    check,      \* the check that comes next, or the outcome
    ok          \* ok

settingsVars == <<package, check, ok>>

(* The check that follows each check.                                      *)
Following == [ length          |-> "model",
               model           |-> "type",
               type            |-> "gas",
               gas             |-> "unit",
               unit            |-> "appliedGas",
               appliedGas      |-> "infrared",
               infrared        |-> "service",
               service         |-> "voc",
               voc             |-> "hysteresis",
               hysteresis      |-> "ranges",
               ranges          |-> "alarmHysteresis",
               alarmHysteresis |-> "alarm1",
               alarm1          |-> "alarm2",
               alarm2          |-> "alarm3",
               alarm3          |-> "typeAgain",
               typeAgain       |-> "verdict" ]

Outcomes == {"accepted", "refused"}

SettingsInit == /\ package \in Packages
                /\ check = "length"
                /\ ok = 0

-----------------------------------------------------------------------------
TooShort == /\ check = "length"
            /\ ~package.long
            /\ check' = "refused"
            /\ UNCHANGED <<package, ok>>

LongEnough == /\ check = "length"
              /\ package.long
              /\ check' = Following["length"]
              /\ UNCHANGED <<package, ok>>

(* A check that leaves code in ok when it fails.                           *)
Check(c, failed, code) == /\ check = c
                          /\ ok' = IF failed THEN code ELSE ok
                          /\ check' = Following[c]
                          /\ UNCHANGED package

CheckModel == Check("model", ~package.model, 2)
CheckType  == Check("type", package.type = "none", 3)
CheckGas   == Check("gas", package.gas = "unknown", 4)

CheckUnit  == Check("unit", ~package.unit, 5)

(* The fields that do not concern the identity, group by group in the      *)
(* order of the code, with the codes each group can leave.                 *)
Optional == [ appliedGas      |-> {19},
              infrared        |-> {24, 25, 26},
              service         |-> {27, 28},
              voc             |-> {34},
              hysteresis      |-> {35, 36, 37},
              ranges          |-> {40, 41, 42, 43, 44, 45, 46},
              alarmHysteresis |-> {38} ]

IsPidVoc == package.type = "pid" /\ package.gas = "VOC"

Applies(c) == CASE c = "appliedGas" -> package.type = "catalytic" \/ IsPidVoc
                [] c = "infrared"   -> package.type = "infrared"
                [] c = "voc"        -> IsPidVoc
                [] OTHER            -> TRUE

CheckOptional(c) == \E code \in Optional[c] : \E failed \in {FALSE, Applies(c)} :
                        Check(c, failed, code)

FallsWithoutO2(n) == package.direction[n] = "falling" /\ package.gas # "O2"

SameDirection(n) == package.direction[n] = package.direction[n + 1]

InOrder(n) == IF package.direction[n] = "rising"
              THEN package.level[n] < package.level[n + 1]
              ELSE package.level[n] > package.level[n + 1]

CheckAlarm1 == Check("alarm1",
                     FallsWithoutO2(1) \/ (SameDirection(1) /\ ~InOrder(1)),
                     IF FallsWithoutO2(1) THEN 37 ELSE 31)

CheckAlarm2 == Check("alarm2",
                     FallsWithoutO2(2) \/ ~SameDirection(2) \/ ~InOrder(2),
                     IF FallsWithoutO2(2) THEN 36 ELSE IF ~SameDirection(2) THEN 32 ELSE 33)

CheckAlarm3 == Check("alarm3", FallsWithoutO2(3), 35)

CheckTypeAgain == Check("typeAgain", package.type = "none", 34)

(* Variant: no failure is forgiven.                                        *)
AllCodes == 1 .. 46

(* Every other code is forgiven.                                           *)
HardCodes == {2, 3, 4, 5}

(* Sensor and the alarm fields of DeviceConfig take the package over and   *)
(* both save flags are set, or nothing happens at all.                     *)
Verdict == /\ check = "verdict"
           /\ check' = IF ok \in HardCodes THEN "refused" ELSE "accepted"
           /\ UNCHANGED <<package, ok>>

SettingsNext == \/ TooShort \/ LongEnough
                \/ CheckModel \/ CheckType \/ CheckGas \/ CheckUnit
                \/ \E c \in DOMAIN Optional : CheckOptional(c)
                \/ CheckAlarm1 \/ CheckAlarm2 \/ CheckAlarm3
                \/ CheckTypeAgain
                \/ Verdict

SettingsSpec == SettingsInit /\ [][SettingsNext]_settingsVars

-----------------------------------------------------------------------------
(* What isValidRuntimeConfig (ConfigManager.cpp) asks of the sensor        *)
(* settings when it finds them in flash.                                   *)
Loadable == /\ package.model
            /\ package.type # "none"
            /\ package.gas # "unknown"
            /\ package.unit

(* ok holds a code of the checks done so far.                              *)
SettingsTypeOK == /\ package \in Packages
                  /\ check \in DOMAIN Following \cup {"verdict"} \cup Outcomes
                  /\ ok \in {0, 2, 3, 4, 5, 19} \cup 24 .. 28 \cup 31 .. 46

(* "Some optional legacy fields can be inconsistent ... and should not     *)
(* cause the whole save to be rejected" (ModbusService.cpp:1458): whatever *)
(* codes the other checks leave on the way, a complete package that the    *)
(* next start would load is accepted.                                      *)
LoadableIsAccepted == check = "refused" => ~package.long \/ ~Loadable

(* "Keep only the fundamental identity/range checks as hard failures"      *)
(* (ModbusService.cpp:1460).  Refuted: any later failure overwrites the    *)
(* code of an identity check and is then forgiven, and the second check of *)
(* the type always overwrites the first; the package is committed, saved,  *)
(* and refused at the next start.                                          *)
AcceptedIsLoadable == check = "accepted" => Loadable
=============================================================================
