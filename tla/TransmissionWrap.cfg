CONSTANTS
    Max = 8
    First = 8
    MaxOps = 3
    MaxNumbers = 4
    SendErrors = FALSE
    Closing = FALSE
SPECIFICATION Spec
INVARIANT InOrder
CHECK_DEADLOCK FALSE
