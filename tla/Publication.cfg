SPECIFICATION FairSpec
CONSTANTS
    None = None
    Events = {1, 2}
    Versioned = {1, 2}
    Relays = {r1, r2}
    Reconcilers = {c1}
    DEAD_AFTER = 2
    LIMIT = 2
    MaxFaults = 1
INVARIANTS DeliveredMeansApplied MarkedBeforePost
PROPERTIES OnePostPerAttempt ContractKept EventuallySettled
CHECK_DEADLOCK FALSE
