SPECIFICATION FairSpec
CONSTANTS
    Users = {u1, u2}
    NoUser = NoUser
    Sockets = {s1, s2, s3}
    UserOf <- TwoUsers
    Threads = 1
    MaxLinks = 1
CHECK_DEADLOCK FALSE
INVARIANTS
    Subscribed
    CurrentLinkWatched
    ExactlyOnce
PROPERTIES
    TopicSpec
    EventDelivered
