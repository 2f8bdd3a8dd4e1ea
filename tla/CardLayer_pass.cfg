CONSTANT NData <- MCNData3
SPECIFICATION Spec
INVARIANT TypeOK
INVARIANT LayerRepresentsRoot
 
INVARIANT ConstraintsMatchRange
CHECK_DEADLOCK FALSE
