CONSTANTS
  NVars <- MCNVars
  Inputs <- MalformedInputs
  MaxEncodedTakes <- MCMaxEncodedTakes
SPECIFICATION Spec
INVARIANT NoCrash
CHECK_DEADLOCK FALSE
