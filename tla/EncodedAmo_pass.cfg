CONSTANTS
  Inputs <- WellFormedInputs
SPECIFICATION Spec
INVARIANT TypeOK
INVARIANT StandingReads
INVARIANT EliminatedVarsGone
INVARIANT NoModelLost
INVARIANT CacheKeyDeterminesSplit
CHECK_DEADLOCK FALSE
