CONSTANTS
  NVars <- MCNVars
  Inputs <- WellFormedInputs
  MaxEncodedTakes <- MCMaxEncodedTakes
SPECIFICATION FairSpec
INVARIANT TypeOK
INVARIANT OutputEquivalent
INVARIANT NoCrash
INVARIANT IsolatedCliquesRecovered
PROPERTY Termination
CHECK_DEADLOCK FALSE
