CONSTANTS
    Max = 8
    First = 5
    MaxOps = 3
    MaxNumbers = 4
    SendErrors = FALSE
    Closing = TRUE
SPECIFICATION FairSpec
INVARIANTS
    TypeOK
    NeverStalled
    InOrder
    OnePlace
PROPERTIES
    SuccessMeansReached
    AnsweredEventually
\* All operations may be answered.
CHECK_DEADLOCK FALSE
