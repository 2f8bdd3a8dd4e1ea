CONSTANTS
    Inputs <- MCInputs
    CubeCounts <- MCCubeCounts
SPECIFICATION Spec
INVARIANT TypeOK
INVARIANT EncodingsCorrect
INVARIANT FreshAuxVars
CHECK_DEADLOCK FALSE
