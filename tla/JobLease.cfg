SPECIFICATION FairSpec
CONSTANTS
    w1 = w1
    w2 = w2
    host = host
    None = None
    Jobs <- MCJobs
    Workers <- MCWorkers
    Ids <- MCIds
    WorkerId <- MCWorkerId
    UnknownKind <- MCUnknownKind
    MAX_ATTEMPTS = 2
    MaxCrashes = 1
    MaxStalls = 1
INVARIANTS FencesUnique CompleteHasResult
PROPERTIES ResultsFenced CancelHonoured EventuallySettled
CHECK_DEADLOCK FALSE
