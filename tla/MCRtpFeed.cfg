SPECIFICATION Spec
CONSTANTS
    PortDraws <- MCPortDraws
    Hosts4 <- MCHosts4
    Hosts6 <- MCHosts6
    Ranges <- MCRanges
    MaxChunks = 3
    MaxUpdates = 2
    MayRaise = TRUE
INVARIANTS
    TypeOK
    ReportAddsUp
    CheckTellsRewritten
PROPERTIES
    EventuallyReported
CHECK_DEADLOCK FALSE
