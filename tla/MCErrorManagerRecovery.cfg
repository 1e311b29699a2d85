\* TC-ERROR-008 on every state, not only after I2C timeouts.
SPECIFICATION Spec
CONSTANTS
    CounterMax = 255
    I2cRecoveryThreshold = 3
    SensorFailThreshold = 3
    UartOverflowThreshold = 5
    I2cRecoveryFailThreshold = 2
    FlashSaveFailThreshold = 3
    ReportBound = 6
CONSTRAINT WithinBound
PROPERTIES
    SuccessfulRecoveryClearsRequest
