SPECIFICATION FairSpec
CONSTANTS
    r1 = r1
    r2 = r2
    r3 = r3
    Runs = {r1, r2}
    MaxSends = 2
    MaxRestarts = 1
    NoRun = NoRun
INVARIANTS
    CompletedMeansExecuted
    OneEffect
    RejectIsTrue
PROPERTY RunsEnd
CHECK_DEADLOCK FALSE
