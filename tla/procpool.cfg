SPECIFICATION FairSpec
CONSTANTS
    N = 3
    MaxConns = 4
    MaxSigs = 1
INVARIANTS SlotMatchesChild NoChildForgotten Balanced KillsOnlyOwn StopMeansNone
PROPERTIES ParentEnds
CHECK_DEADLOCK FALSE
