SPECIFICATION Spec
CONSTANTS
    r1 = r1
    r2 = r2
    r3 = r3
    Reqs <- MCReqs
INVARIANTS
    TypeOK
    HappyMeansAllPassed
    WaitsForTheTimer
PROPERTIES
    NoFalseAlarm
    Promise
    Terminates
CHECK_DEADLOCK FALSE
