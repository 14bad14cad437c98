CONSTANTS
    Periods = {1, 2}
    Handlers = {h1, h2}
    NoHandler = NoHandler
SPECIFICATION FairSpec
INVARIANTS
    TypeOK
    OneWait
PROPERTIES
    KeepsPromise
    RingsEventually
    StartedIsCalled
\* A destroyed timer stops.
CHECK_DEADLOCK FALSE
