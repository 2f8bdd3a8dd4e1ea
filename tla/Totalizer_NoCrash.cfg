CONSTANTS
    Inputs <- KeptOnlyInputs
    CubeCounts <- MCCubeCounts
SPECIFICATION Spec
INVARIANT NoCrash
