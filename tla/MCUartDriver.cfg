SPECIFICATION FairSpec
CONSTANTS
    RxSize = 4
    PollSilence = 2
    T35Steps = 4
    MinGap = 3
    FrameLens <- MCFrameLens
    ResponseLen = 2
    MaxRound = 3
INVARIANTS
    TypeOK
    AloneIsWhole
    AloneIsAnswered
    LineReleased
PROPERTIES
    Drains
