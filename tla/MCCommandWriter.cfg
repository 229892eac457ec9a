SPECIFICATION FairSpec
CONSTANTS
    i1 = i1
    c1 = c1
    c2 = c2
    d1 = d1
    d2 = d2
    Ids <- MCIds
    Commands <- MCCommands
    IdOf <- MCIdOf
    Deadline <- MCDeadline
    Frames <- MCFrames
    Threaded <- MCThreaded
    Deliveries = {d1, d2}
    Retention = 1
    MaxTime = 4
    MaxFaults = 1
    NoCommand = NoCommand
    NoDelivery = NoDelivery
INVARIANTS
    AtMostOneInitiation
    OneContentPerRetainedId
    CompletedIsTrue
PROPERTIES
    ExecutesAtMostOnce
    ClaimsAreSettled
CHECK_DEADLOCK FALSE
