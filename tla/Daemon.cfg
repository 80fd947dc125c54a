SPECIFICATION DaemonFairSpec
CONSTANTS
    Workers = {w1, w2}
    Settings = {"threads", "socket"}
    Values = {1, 2}
    Default <- MCDefault
CHECK_DEADLOCK FALSE
INVARIANTS
    MembersOutliveCallbacks
    ServesRegistered
    Precedence
    WorkersAsConfigured
PROPERTIES
    LastHandlers
    InterruptEndsProcess
