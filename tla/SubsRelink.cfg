SPECIFICATION FairSpec
CONSTANTS
    Users = {u1}
    NoUser = NoUser
    Sockets = {s1, s2}
    UserOf <- OneUser
    Threads = 1
    MaxLinks = 2
CHECK_DEADLOCK FALSE
PROPERTY HandshakeRegisters
