SPECIFICATION FairSpec
CONSTANTS
    Users = {u1}
    NoUser = NoUser
    Sockets = {s1, s2}
    UserOf <- OneUser
    Threads = 2
    MaxLinks = 2
CHECK_DEADLOCK FALSE
INVARIANTS
    TypeOK
    RemoveFindsEvent
    LiveCallbackHasEvent
    NoOrphanEvents
    CloseFindsSocket
PROPERTY HandlersFinish
