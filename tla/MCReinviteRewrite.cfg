SPECIFICATION Spec
CONSTANTS
    Scenarios <- MCRewrite
    Delays <- MCDelays
    Draws <- MCDraws
INVARIANTS
    RawOfferNoticed
CHECK_DEADLOCK FALSE
