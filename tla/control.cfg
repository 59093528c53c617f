SPECIFICATION Spec
CONSTANTS
    MaxPid = 4
    MaxEdits = 1
    Files <- MCFiles
    Content <- MCContent
    ArgLists <- MCArgLists
    LogPaths = {"access.log"}
    Clients <- MCClients
    Octet = 4
    Scripts = {s1}
INVARIANTS PidIsFinal AccessByNetwork StopReachesServer OneService
CHECK_DEADLOCK FALSE
