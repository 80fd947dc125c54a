SPECIFICATION FairSpec
CONSTANTS
    Threads = {t1, t2}
    Texts = {empty, other}
    Empty = empty
    ShutdownTimeout = 2
    ShutoffTimeout = 1
    Retries = 1
    MaxRequests = 2
    MaxFaults = 2
CHECK_DEADLOCK FALSE
INVARIANTS
    ShutdownWasOff
    PollsBounded
    RefusedIsClean
PROPERTIES
    RequestAnswered
