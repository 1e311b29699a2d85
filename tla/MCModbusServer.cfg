SPECIFICATION Spec
CONSTANTS
    HoldingSize = 5
    ThresholdReg = 3
    BaseReg = 4
    MaxWrite = 4
    LenModulus = 8
    SettingsLen = 2
    Contents <- MCContents
    Spans <- MCSpans
    Ids = {1, 2}
    SetSensor = 1
    SetBase = 2
    Harmless = 3
    RefusedSensors = {0}
    FirstId = 1
    NoFrame = NoFrame
INVARIANTS
    TypeOK
    AnswersAsAddressed
    RegistersShowConfig
PROPERTIES
    CommandsRunOnce
    AcceptedIsPending
