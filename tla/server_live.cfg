SPECIFICATION FairSpec
CONSTANTS
    Peers = {p1, p2}
    NoPeer = NoPeer
    Scripts <- Everything
    Workers = {w1}
    ReadLimit = 2
    MaxRequests = 2
    FirstFd = 5
    NoFile = 7
    MaxFd = 16
    Backlog = 2
PROPERTIES GoneIsClosed LineIsServed BacklogIsServed
