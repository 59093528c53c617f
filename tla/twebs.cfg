SPECIFICATION FairSpec
CONSTANTS
    Conns = {c1, c2, c3}
    NoConn = NoConn
    BaseFds = 2
    NoFile = 6
    MaxProc = 2
    Backlog = 2
INVARIANTS SignalMeansZombie DescriptorAccount EndHasCause
PROPERTIES ServedIsClosed BacklogIsServed
