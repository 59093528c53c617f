SPECIFICATION FairSpec
CONSTANTS
    Requests <- SomeRequests
    Files <- SomeFiles
    Absent <- NoFile
    Worlds <- SomeWorlds
    ShowDir = TRUE
    BodyLen = 2
    DirLen = 3
    ErrHead = 1
    ErrBody = 2
    MaxChanges = 1
INVARIANTS OneAnswer BodyIntact EndHasReason
PROPERTIES Ends
