SPECIFICATION TicketsSpec
CONSTANTS
    a1 = a1
    a2 = a2
    b1 = b1
    b2 = b2
    b3 = b3
    Apps <- MCApps
    Blocks <- MCBlocks
    AppOf <- MCAppOf
    NoTicket = none
INVARIANTS OnlyRivalsDeactivate PresenceRestored
PROPERTIES ActivationReturns
CHECK_DEADLOCK FALSE
