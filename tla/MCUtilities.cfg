CONSTANTS
    Inputs <- MCInputs
    IntMax = 31
    Capacity = 13
    MaxShort = 1
    StreamLength = 10
    Decoded <- MCDecoded
SPECIFICATION Spec
INVARIANTS
    TypeOK
    FramesKeepTheirPlace
    NothingLost
    RecordingInBounds
    SignSurvives
PROPERTY EndOrSpin
\* Both processes may have ended.
CHECK_DEADLOCK FALSE
