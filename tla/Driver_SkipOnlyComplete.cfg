CONSTANTS
    f1 = f1  f2 = f2  f3 = f3  k1 = k1  k2 = k2  k3 = k3  b1 = b1  b2 = b2
    FileSeq <- MCFileSeq
    Keys <- MCKeys
    Hash <- MCHash
    Extractable <- MCExtractable
    Clusters <- MCClusters
    Unreadable <- MCUnreadable
    Raising <- MCRaising
    MaxRuns <- MCMaxRuns
SPECIFICATION Spec
PROPERTY SkipOnlyComplete
\* The program exits after its last run.
CHECK_DEADLOCK FALSE
