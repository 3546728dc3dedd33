SPECIFICATION Spec
CONSTANTS
    AllTests <- MCAllTests
    Requested <- MCRequested
    Ttype <- MCTtype
    SignallingOnly = FALSE
INVARIANTS
    TypeOK
    ExitTellsTruth
    NoEarlyExit
PROPERTIES
    Promise
    Terminates
CHECK_DEADLOCK FALSE
