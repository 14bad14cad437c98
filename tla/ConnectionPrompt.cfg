CONSTANTS
    Max = 15
    MaxNumber = 9
    NoAck = NoAck
    ClientSends = 3
    ServerSends = 0
    ClientReceives = 0
    ServerReceives = 3
    Lossy = FALSE
    Timeouts = FALSE
    Closing = FALSE
    SendErrors = {}
    Early = FALSE
    Copies = 2
SPECIFICATION FairSpec
INVARIANTS
    TypeOK
    NoFailure
    CallsCounted
    ReadPosted
    WaitingIsReading
PROPERTIES
    EventuallyConnected
    SendsAnswered
    SendsDelivered
\* Everything may be sent and received.
CHECK_DEADLOCK FALSE
