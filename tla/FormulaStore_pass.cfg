CONSTANTS
    NVar = 1
    Vars <- MCVars
    Bounds <- MCBounds
    MaxCalls = 2
    C = C
    P = P
    CNF = CNF
    KNF = KNF
    K = K
    TXT = TXT
SPECIFICATION Spec
INVARIANT TypeOK
INVARIANT ConversionsPreserveMeaning
INVARIANT HeadersMatchBodies
INVARIANT ReadBack
\* the program exits after finish: no writer call is possible then
CHECK_DEADLOCK FALSE
