SPECIFICATION FairSpec
CONSTANTS
    CounterMax = 1
    I2cRecoveryThreshold = 1
    SensorFailThreshold = 1
    UartOverflowThreshold = 1
    I2cRecoveryFailThreshold = 1
    FlashSaveFailThreshold = 1
    TickModulus = 20
    MeasureDelay = 2
    MeasurePeriod = 5
    BusErrorRetry = 3
    Retry = 4
    MaxStall = 1
    MaxLoop = 1
    Temperatures <- MCTemperatures
    Uint16Modulus = 128
    TempHigh = 50
    TempLow = 10
INVARIANTS
    TypeOK
PROPERTIES
    TriggersArePaced
    ReadsArePaced
    KeepsTriggering
