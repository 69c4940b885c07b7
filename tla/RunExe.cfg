CONSTANTS
    Capacity = 3
    StepSize = 2
    MaxOut = 5
    ExitCodes = {0, 1, 2}
    STILL_ACTIVE = 2

SPECIFICATION FairSpec
CHECK_DEADLOCK FALSE

INVARIANTS
    Inv
    OutputComplete
    ExitCodeTrue
    HandlesClosedOnce

PROPERTIES
    EventuallyReturns
