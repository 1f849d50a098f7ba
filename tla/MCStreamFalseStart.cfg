CONSTANTS
    Codec = "APTX"
    Cells <- Cells422
    Register = 16
    Shifts = {0}
    Signals <- MCSignalsOnset
SPECIFICATION StreamSpec
PROPERTY ReinitOnlyForNewStream
