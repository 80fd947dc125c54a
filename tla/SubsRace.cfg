SPECIFICATION Spec
CONSTANTS
    Users = {u1}
    NoUser = NoUser
    Sockets = {s1, s2}
    UserOf <- OneUser
    Threads = 2
    MaxLinks = 1
CHECK_DEADLOCK FALSE
INVARIANT Subscribed
