CONSTANTS
    Codec = "APTX"
    MaxLost = 6
    Codewords <- MCCodewords
SPECIFICATION Spec
PROPERTY DestroyReleases
CHECK_DEADLOCK FALSE
