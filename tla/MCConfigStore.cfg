SPECIFICATION Spec
CONSTANTS
    Configs = {"default", "custom", "badBaudrate"}
    Valid = {"default", "custom"}
    Default = "default"
    Words = 3
    Blank = Blank
    Garbage = Garbage
    Nothing = Nothing
INVARIANTS
    TypeOK
    AcknowledgedIsStored
PROPERTIES
    AcknowledgedIsLoaded
    ImplementsCell
