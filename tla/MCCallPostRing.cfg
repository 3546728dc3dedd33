SPECIFICATION Spec
CONSTANTS
    AnswerIvals <- MCAnswerIvals
    DisconnectIvals <- MCDisconnectIvals
    Scenarios <- PostRing
    Faults = {"hangup"}
    HalfTimeout = 30
    FullTimeout = 45
    MaxDelay = 1
    Horizon = 80
INVARIANTS
    PassMeansAnswered
CHECK_DEADLOCK FALSE
