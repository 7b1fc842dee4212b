SPECIFICATION Spec
CONSTANTS
    c1 = c1
    c2 = c2
    c3 = c3
    Callers <- MCCallers
    NoCaller = none
    MaxFlights = 5
PROPERTIES EveryCallReturns SharesFlights
CHECK_DEADLOCK FALSE
