CONSTANTS
    Subbands <- MCSubbands
    Log <- LogTable
    Incr <- IncrTable
    Ceiling <- CeilingTable
    Base <- BaseTable
    Sl1 <- ThresholdTable
    Sf1 <- DitherTable
    Width <- WidthTable
    Clamped <- MCClamped
    Indices <- MCIndices
    Dithers <- MCDithers

SPECIFICATION Spec

INVARIANTS
    ShiftDefined
    StepAlive
    StepGrows
    NeverDriftsApart
    SumFits

PROPERTY SilenceResets
