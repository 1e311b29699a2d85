\* The thresholds of ErrorManager.hpp and byte-wide counters.
SPECIFICATION Spec
CONSTANTS
    CounterMax = 255
    I2cRecoveryThreshold = 3
    SensorFailThreshold = 3
    UartOverflowThreshold = 5
    I2cRecoveryFailThreshold = 2
    FlashSaveFailThreshold = 3
    ReportBound = 6
CONSTRAINT WithinBound
INVARIANTS
    TypeOK
    FatalHasCause
    ThresholdLatches
PROPERTIES
    FatalIsLatched
    RepeatedFailureRequestsRecovery
