CONSTANTS
    Max = 15
    MaxNumber = 4
    NoAck = NoAck
    ClientSends = 2
    ServerSends = 0
    ClientReceives = 0
    ServerReceives = 2
    Lossy = TRUE
    Timeouts = TRUE
    Closing = TRUE
    SendErrors = {"client"}
    Early = TRUE
    Copies = 1
SPECIFICATION Spec
INVARIANTS
    DeliveredInOrder
    DoneMeansTaken
    FalseSuccessIsOne
    AcceptedMeansConnected
    UnackedIsReading
PROPERTY ImplementsPipe
\* Sockets may be closed, and the bound on the numbers be reached.
CHECK_DEADLOCK FALSE
