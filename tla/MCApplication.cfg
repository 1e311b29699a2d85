SPECIFICATION FairSpec
CONSTANTS
    CounterMax = 2
    I2cRecoveryThreshold = 2
    SensorFailThreshold = 1
    UartOverflowThreshold = 2
    I2cRecoveryFailThreshold = 1
    FlashSaveFailThreshold = 2
    Ids = {0, 1}
    Bases = {"9600", "4800"}
    ValidBases = {"9600"}
    Sensors = {"ch4", "typeless"}
    ValidSensors = {"ch4"}
    Default <- MCDefault
    Nothing = Nothing
    QueueSize = 2
    Reload = 1
INVARIANTS
    TypeOK
    SevereNeverWraps
    RequestServedInRound
    WatchdogResetIsReported
    RestartIsTransparent
PROPERTIES
    ImplementsCell
    OnlyFlashIsFatal
    FatalLeadsToReset
    PendingSaveEnds
