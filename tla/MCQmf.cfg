CONSTANTS
    Length = 16
    OuterCoeffs <- QMF_outer_coeffs
    InnerCoeffs <- QMF_inner_coeffs
    OuterHalf = 16384
    InnerHalf = 4194304
    Frames <- MCFrames
    Refs <- MCRefs
    Tunes = {7, 20, 37, 50}
    Horizon = 20

SPECIFICATION MCSpec

INVARIANTS
    IsFilterBank
    QuietStart

\* The runs end at the horizon.
CHECK_DEADLOCK FALSE
