SPECIFICATION Spec
CONSTANTS
    AnswerIvals <- MCAnswerIvals
    DisconnectIvals <- MCDisconnectIvals
    Scenarios <- AllRuns
    Faults = {}
    HalfTimeout = 30
    FullTimeout = 45
    MaxDelay = 1
    Horizon = 80
INVARIANTS
    TypeOK
    NoFalseAlarm
    InTime
    MediaTimeoutsOnTime
PROPERTIES
    EventuallyReported
CHECK_DEADLOCK FALSE
