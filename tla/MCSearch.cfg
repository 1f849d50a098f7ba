CONSTANTS
    Subbands <- MCSubbands
    Tables <- MCTables
    Size <- MCSize
    Steps = {0, 1, 2}
    Magnitudes <- MCMagnitudes
    Unit = 4

SPECIFICATION Spec

INVARIANTS
    TypeOK
    FindsCell

\* The search ends.
CHECK_DEADLOCK FALSE
