CONSTANTS
    Max = 15
    MaxNumber = 7
    NoAck = NoAck
    ClientSends = 2
    ServerSends = 1
    ClientReceives = 1
    ServerReceives = 1
    Lossy = FALSE
    Timeouts = FALSE
    Closing = FALSE
    SendErrors = {}
    Early = FALSE
    Copies = 2
SPECIFICATION Spec
INVARIANT DeliveredIntact
CHECK_DEADLOCK FALSE
