SPECIFICATION Spec
CONSTANTS
    Size = 4
    PollLimit = 1
    RawTemperatures <- MCRawTemperatures
    RawHumidities <- MCRawHumidities
    TempHigh = 500
    TempLow = 100
INVARIANTS
    TypeOK
    BusLeftFree
    PublishesMedian
    AlarmsMatchReading
