SPECIFICATION PositionSpec
CONSTANTS
    p1 = p1
    p2 = p2
    n1 = n1
    Processes = {p1, p2}
    Nodes = {n1}
    Polled = FALSE
    Positioned = TRUE
    MaxAge = 1
    MaxTime = 2
    MaxEpoch = 2
    SequenceLimit = 2
SYMMETRY MCSymmetry
INVARIANTS
    PositionsFollowSource
    NewestNotRefused
PROPERTY AcceptedInOrder
CHECK_DEADLOCK FALSE
