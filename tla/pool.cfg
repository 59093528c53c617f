SPECIFICATION FairSpec
CONSTANTS
    ThreadNumber = 2
    MaxRequests = 2
    Requests = {r1, r2, r3}
    NoRequest = NoRequest
    CreateMayFail = TRUE
INVARIANT SemMatchesQueue
PROPERTY ImplementsTaskQueue
PROPERTIES AppendReturns AcceptedRuns
