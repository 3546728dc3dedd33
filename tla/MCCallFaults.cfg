SPECIFICATION Spec
CONSTANTS
    AnswerIvals <- OneAnswer
    DisconnectIvals <- OneDisconnect
    Scenarios <- SoundRuns
    Faults = {"hangup", "norewrite"}
    HalfTimeout = 30
    FullTimeout = 45
    MaxDelay = 1
    Horizon = 80
INVARIANTS
    VerdictStands
    PassMeansAnswered
    RewriteChecked
CHECK_DEADLOCK FALSE
