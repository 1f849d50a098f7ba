CONSTANTS
    Codec = "APTX"
    Cells <- Cells422
    Register = 8
    Shifts = {0, 8}
    Signals <- MCSignals
SPECIFICATION StreamSpec
INVARIANTS
    TypeOK
    InStep
PROPERTIES
    SyncOnTheWire
    CheapestFlip
    Decodable
    NewStreamDetected
