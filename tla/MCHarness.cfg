SPECIFICATION Spec
CONSTANTS
    PortDraws <- NoDraws
    Hosts4 <- NoDraws
    Hosts6 <- NoDraws
    Confs <- MCConfs
    Lasts <- MCLasts
INVARIANTS
    TypeOK
    RunTellsTruth
    BobOutlivesAlice
    LeftoversStopped
PROPERTIES
    EventuallyEnds
CHECK_DEADLOCK FALSE
