SPECIFICATION Spec
CONSTANTS
    s1 = s1
    s2 = s2
    Sent <- MCSent
    Received <- MCNoTrades
    Fetchable <- MCFetchable
INVARIANTS NoLostWaiter WaiterIsPolledFor
PROPERTIES SendReturns ConfirmationIsNoticed
CHECK_DEADLOCK FALSE
