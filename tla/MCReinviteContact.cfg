SPECIFICATION Spec
CONSTANTS
    Scenarios <- MCContact
    Delays <- MCDelays
    Draws <- MCDraws
INVARIANTS
    ContactVerified
CHECK_DEADLOCK FALSE
