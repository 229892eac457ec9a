SPECIFICATION Spec
CONSTANTS
    MaxEvents = 2
    Failed <- MCFailed
    Bottle <- MCBottle
    Capacity = 2
    CommandCapacity = 1
    MaxSequence = 2
    MaxRestarts = 1
INVARIANTS
    ReceivedIsStored
    StoredWithoutGaps
    OneCommandPerInspection
PROPERTIES
    BottleRejectedOnce
    CompletedStays
CHECK_DEADLOCK FALSE
