CONSTANTS
    Codec = "APTX"
    MaxLost = 6
    Codewords <- MCCodewords
SPECIFICATION Spec
INVARIANTS
    TypeOK
    SuccessMeansUsable
PROPERTY DecodingLosesNothing
CHECK_DEADLOCK FALSE
