SPECIFICATION FairSpec
CONSTANTS
    Users = {u1, u2}
    Threads = {t1, t2}
    Links = {l1, l2, l3}
    NoLink = NoLink
    Retries = 1
    MaxRequests = 3
CHECK_DEADLOCK FALSE
INVARIANTS
    NeverConnectTwice
    ClosedTracksLink
    NoLinkDropped
    RetryBudget
PROPERTIES
    BrokenAnswer
    RequestAnswered
