CONSTANTS
    Sockets = {s1, s2}
    Acceptors = {a1}
    Remotes = {r1, r2}
    MaxAnswers = 2
    Nobody = Nobody
    MaxInbox = 1
    MaxData = 1
    Lossy = TRUE
    Timeouts = TRUE
    Closing = TRUE
    Reuse = TRUE
SPECIFICATION Spec
INVARIANTS TypeOK CallsAccounted ReadPosted CountsHold BlockedByRace EveryoneInPlace
CHECK_DEADLOCK FALSE
SYMMETRY Symmetry
