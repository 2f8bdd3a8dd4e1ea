CONSTANT Inputs <- MCInputs
SPECIFICATION ExtractorSpec
INVARIANT TypeOK
INVARIANT OrderIsPermutation
INVARIANT EagerPlacement
INVARIANT BTypeOK
INVARIANT EliminationSound
INVARIANT BucketDiscipline
PROPERTY ImplementsOrderSpec
PROPERTY EliminationProgress
\* Extractor.__init__ returns a built or aborted diagram, or raises: its
\* final states have no successor.
CHECK_DEADLOCK FALSE
