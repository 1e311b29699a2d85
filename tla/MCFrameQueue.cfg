SPECIFICATION Spec
CONSTANTS
    CounterMax = 2
    I2cRecoveryThreshold = 1
    SensorFailThreshold = 1
    UartOverflowThreshold = 2
    I2cRecoveryFailThreshold = 1
    FlashSaveFailThreshold = 1
    FrameQueueSize = 3
    MaxFrame = 2
    Bytes = {"a", "b", "c", "zero"}
    Zero = "zero"
    Payloads <- MCPayloads
    OverflowModulus = 3
    NoFrame = NoFrame
INVARIANTS
    TypeOK
PROPERTIES
    PeekedIsStable
    ImplementsFifo
