CONSTANTS
    Sockets = {s1, s2}
    Acceptors = {a1}
    Remotes = {r1, r2}
    MaxAnswers = 2
    Nobody = Nobody
    MaxInbox = 2
    MaxData = 0
    Lossy = FALSE
    Timeouts = FALSE
    Closing = FALSE
    Reuse = FALSE
SPECIFICATION Spec
INVARIANTS WaitingHears
CHECK_DEADLOCK FALSE
SYMMETRY Symmetry
