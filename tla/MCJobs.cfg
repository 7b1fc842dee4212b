SPECIFICATION Spec
CONSTANTS
    c1 = c1
    c2 = c2
    c3 = c3
    Calls <- MCCalls
    UmCalls <- MCUmCalls
    Modulus = 3
    MaxSerial = 3
INVARIANTS NoLostWaiter Correlated
PROPERTY AnsweredEventually
CHECK_DEADLOCK FALSE
