SPECIFICATION Spec
CONSTANTS
    None = None
    a = a
    b = b
    Objects = {a}
    Versions = {1, 2, 3}
    Feed <- ConcurrentFeed
    Pushed <- ConcurrentFeed
    Pages <- ConcurrentPages
    Runs = {f}
    Requests = {q1, q2}
    MaxCursor = 1
INVARIANTS AcknowledgedStored RememberedStored
SYMMETRY InterchangeableRequests
