SPECIFICATION Spec
CONSTANTS
    Calls <- MCCalls
    Delays <- MCDelays
    MaxLoss = 1
    MaxTries = 4
INVARIANTS
    TypeOK
    OneSubtestPerCall
PROPERTIES
    EventuallyRight
CHECK_DEADLOCK FALSE
