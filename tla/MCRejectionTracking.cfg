SPECIFICATION FairSpec
CONSTANTS
    Inspections = {1, 2, 3, 4}
    About <- MCAbout
    Sessions = {"s"}
    Bottles = {1, 2}
    MaxAge = 2
    MaxFeedbackAge = 1
    Grace = 1
    RuleCapacity = 2
    Capacity = 1
    MaxCount = 2
    MaxTime = 5
    MaxCommands = 2
INVARIANTS
    ConfirmedIsExecuted
    OneRequestPerInspection
    AdmittedIsCommanded
PROPERTY EveryRejectionSettles
CHECK_DEADLOCK FALSE
