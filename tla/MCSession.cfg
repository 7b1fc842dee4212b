SPECIFICATION Spec
CONSTANTS
    MaxSockets = 2
    MaxLogins = 2
INVARIANT SessionIsWatched
PROPERTIES NoSessionAfterClose SilenceIsNoticed CloseEndsLogin CloseEndsThreads
CHECK_DEADLOCK FALSE
