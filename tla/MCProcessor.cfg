CONSTANTS
    Width = 3
    Differences <- MCDifferences
    Settling = 350

SPECIFICATION MCSpec

INVARIANTS
    ProcessorTypeOK
    Stable
    NoOverflow
    Paired
    TapsBounded
    GainBounded
    Settles

PROPERTY SlidesLikeAWindow

\* The runs end at the horizon.
CHECK_DEADLOCK FALSE
