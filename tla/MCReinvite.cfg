SPECIFICATION Spec
CONSTANTS
    Scenarios <- MCScenarios
    Delays <- MCDelays
    Draws <- MCDraws
INVARIANTS
    TypeOK
    NoFalseAlarm
    DelayedAnswerNeverPasses
    HoldsSeen
    WrongAnswerNoticed
    BadAckNoticed
    NothingToTheDead
    InTime
PROPERTIES
    EventuallyReported
CHECK_DEADLOCK FALSE
