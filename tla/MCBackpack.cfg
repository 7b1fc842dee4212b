SPECIFICATION Spec
CONSTANTS
    i1 = i1
    i2 = i2
    i3 = i3
    Items <- MCItems
    MaxMessages = 4
    None = None
INVARIANTS RemovedStaysRemoved ReceivedIsHeld
PROPERTIES TasksEnd
CHECK_DEADLOCK FALSE
