CONSTANTS
    Codec = "APTX_HD"
    Cells <- CellsHD100
    Register = 256
    Shifts = {0}
    Signals <- MCSignalsHD100
SPECIFICATION StreamSpec
PROPERTIES
    NewStreamDetected
    Decodable
