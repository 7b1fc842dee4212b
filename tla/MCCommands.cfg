SPECIFICATION Spec
CONSTANTS
    c1 = c1
    c2 = c2
    c3 = c3
    c4 = c4
    w1 = w1
    w2 = w2
    w3 = w3
    b1 = b1
    b2 = b2
    Calls <- MCCalls
    Waiters <- MCWaiters
    EventOf <- MCEventOf
    BucketOf <- MCBucketOf
    NoBucket = NoBucket
    Rate = 1
    Per = 2
    MaxTime = 3
SYMMETRY MCSymmetry
INVARIANTS TypeOK RefusalIsCounted NoDeafWaiter
PROPERTIES RateIsKept
CHECK_DEADLOCK FALSE
