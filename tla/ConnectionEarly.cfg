CONSTANTS
    Max = 15
    MaxNumber = 9
    NoAck = NoAck
    ClientSends = 3
    ServerSends = 0
    ClientReceives = 0
    ServerReceives = 3
    Lossy = FALSE
    Timeouts = FALSE
    Closing = FALSE
    SendErrors = {}
    Early = TRUE
    Copies = 2
SPECIFICATION Spec
INVARIANT NoFailure
CHECK_DEADLOCK FALSE
