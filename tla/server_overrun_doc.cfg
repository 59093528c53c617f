SPECIFICATION Spec
CONSTANTS
    Peers = {p1, p2, p3}
    NoPeer = NoPeer
    Scripts <- OneLine
    Workers = {w1}
    ReadLimit = 2
    MaxRequests = 2
    FirstFd = 5
    NoFile = 9
    MaxFd = 7
    Backlog = 3
INVARIANT EveryConnectionHasAnObject
