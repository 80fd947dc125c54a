SPECIFICATION Spec
CONSTANTS
    Users = {u1}
    NoUser = NoUser
    Sockets = {s1}
    UserOf <- OneUser
    Threads = 1
    MaxLinks = 1
CHECK_DEADLOCK FALSE
INVARIANT GoneSocketsLeave
