SPECIFICATION Spec
CONSTANTS
    AnswerIvals <- MCAnswerIvals
    DisconnectIvals <- MCDisconnectIvals
    Scenarios <- PreRing
    Faults = {"hangup"}
    HalfTimeout = 30
    FullTimeout = 45
    MaxDelay = 1
    Horizon = 80
INVARIANTS
    AliceVerifiesScenario
CHECK_DEADLOCK FALSE
