SPECIFICATION Spec
CONSTANTS
    Peers = {p1, p2, p3}
    NoPeer = NoPeer
    Scripts <- TwoParts
    Workers = {w1}
    ReadLimit = 2
    MaxRequests = 1
    FirstFd = 5
    NoFile = 8
    MaxFd = 16
    Backlog = 1
SYMMETRY Symmetry
INVARIANTS Exclusive NoneStaleNoneLost UserCount
PROPERTIES ImplementsConnection
