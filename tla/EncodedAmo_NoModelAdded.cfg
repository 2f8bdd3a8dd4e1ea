CONSTANTS
  Inputs <- BrokenRangeInputs
SPECIFICATION Spec
INVARIANT NoModelAdded
CHECK_DEADLOCK FALSE
